-------------------------- MODULE StreamReadProofs --------------------------
(* Proofs about SharedQueue, for any finite set of producers, any limit    *)
(* and any number of aborted waits, and about StreamRead, which uses it,   *)
(* for responses of any number of chunks and queues of any limit: the      *)
(* download implements Transfer, and its success is real.                  *)
EXTENDS StreamRead, FiniteSetTheorems, SequenceTheorems, TLAPS

-----------------------------------------------------------------------------
(* Counting the producers that are about to push.                          *)

LEMMA CountProducers ==
    ASSUME NEW T \in SUBSET Producers
    PROVE  /\ IsFiniteSet(T)
           /\ Cardinality(T) \in Nat
           /\ Cardinality(Producers) \in Nat
           /\ Cardinality(T) <= Cardinality(Producers)
  BY QueueAssumption, FS_Subset, FS_CardinalityType

(* The producer p passes the test of the limit.                            *)
LEMMA OneMorePushing ==
    ASSUME QueueTypeOK, NEW p \in Producers,
           prod' = [prod EXCEPT ![p] = "push"]
    PROVE  /\ Pushing' \in SUBSET Producers
           /\ Cardinality(Pushing') \in Nat
           /\ Cardinality(Pushing') <= Cardinality(Pushing) + 1
  <1>1. Pushing' = Pushing \cup {p} /\ Pushing \in SUBSET Producers
    BY DEF QueueTypeOK, Pushing
  <1>2. IsFiniteSet(Pushing) /\ Cardinality(Pushing) \in Nat
    BY <1>1, CountProducers
  <1>3. Cardinality(Pushing \cup {p}) = Cardinality(Pushing) \/
        Cardinality(Pushing \cup {p}) = Cardinality(Pushing) + 1
    BY <1>2, FS_AddElement
  <1> QED
    BY <1>1, <1>2, <1>3

(* The producer p has pushed.                                              *)
LEMMA OneLessPushing ==
    ASSUME QueueTypeOK, NEW p \in Producers, prod[p] = "push",
           prod' = [prod EXCEPT ![p] = "idle"]
    PROVE  /\ Pushing' \in SUBSET Producers
           /\ Cardinality(Pushing) \in Nat
           /\ Cardinality(Pushing') = Cardinality(Pushing) - 1
  <1>1. Pushing' = Pushing \ {p} /\ p \in Pushing /\ Pushing \in SUBSET Producers
    BY DEF QueueTypeOK, Pushing
  <1>2. IsFiniteSet(Pushing) /\ Cardinality(Pushing) \in Nat
    BY <1>1, CountProducers
  <1>3. Cardinality(Pushing \ {p}) = Cardinality(Pushing) - 1
    BY <1>1, <1>2, FS_RemoveElement
  <1> QED
    BY <1>1, <1>2, <1>3

(* The producer p moves, but not to or from the push.                      *)
LEMMA SamePushing ==
    ASSUME QueueTypeOK, NEW p \in Producers, prod[p] # "push", NEW s, s # "push",
           prod' = [prod EXCEPT ![p] = s]
    PROVE  Pushing' = Pushing
  BY DEF QueueTypeOK, Pushing

LEMMA ShorterQueue ==
    ASSUME QueueTypeOK, queue # << >>
    PROVE  /\ Len(queue) \in Nat \ {0}
           /\ Tail(queue) \in Seq(Items)
           /\ Len(Tail(queue)) = Len(queue) - 1
           /\ SubSeq(queue, 1, Len(queue) - 1) \in Seq(Items)
           /\ Len(SubSeq(queue, 1, Len(queue) - 1)) = Len(queue) - 1
  <1>1. queue \in Seq(Items)
    BY DEF QueueTypeOK
  <1>2. Len(queue) \in Nat \ {0} /\ Tail(queue) \in Seq(Items)
        /\ Len(Tail(queue)) = Len(queue) - 1
    BY <1>1
  <1> DEFINE n == Len(queue) - 1
  <1>3. n \in Nat /\ \A i \in 1 .. n : queue[i] \in Items
    BY <1>1, <1>2
  <1> HIDE DEF n
  <1>4. /\ SubSeq(queue, 1, n) \in Seq(Items)
        /\ Len(SubSeq(queue, 1, n)) = IF 1 <= n THEN n - 1 + 1 ELSE 0
    BY <1>3, SubSeqProperties
  <1>5. Len(SubSeq(queue, 1, n)) = n
    BY <1>3, <1>4
  <1> QED
    BY <1>2, <1>4, <1>5 DEF n

-----------------------------------------------------------------------------
(* The facts about the counters that every step starts from.               *)
LEMMA Numbers ==
    ASSUME QueueInv
    PROVE  /\ Len(queue) \in Nat /\ aborts \in Nat /\ MaxQueueSize \in Nat
           /\ Cardinality(Pushing) \in Nat /\ Cardinality(Producers) \in Nat
           /\ Cardinality(Pushing) <= Cardinality(Producers)
  <1>1. Pushing \in SUBSET Producers
    BY DEF Pushing
  <1> QED
    BY <1>1, CountProducers, QueueAssumption DEF QueueInv, QueueTypeOK

LEMMA BeginPushKeeps ==
    ASSUME QueueInv, NEW p \in Producers, BeginPush(p)
    PROVE  QueueInv'
  <1>0. /\ QueueTypeOK /\ prod[p] = "idle"
        /\ UNCHANGED <<queue, linked, signalled, aborts>>
    BY DEF QueueInv, BeginPush
  <1>1. QueueTypeOK'
    BY <1>0 DEF QueueTypeOK, BeginPush
  <1>2. LinkedWhileWaiting' /\ NoLostWakeup'
    BY <1>0 DEF QueueInv, LinkedWhileWaiting, NoLostWakeup, QueueTypeOK, BeginPush
  <1>3. CommittedBound'
    <2>1. CASE OverLimit
      <3>1. prod' = [prod EXCEPT ![p] = "full"]
        BY <2>1 DEF BeginPush
      <3>2. Pushing' = Pushing
        BY <1>0, <3>1, SamePushing
      <3> QED
        BY <1>0, <3>2 DEF QueueInv, CommittedBound
    <2>2. CASE ~OverLimit
      <3>1. prod' = [prod EXCEPT ![p] = "push"]
        BY <2>2 DEF BeginPush
      <3>2. Pushing' \in SUBSET Producers
        BY <1>0, <3>1, OneMorePushing
      <3>3. Cardinality(Pushing') \in Nat /\ Cardinality(Pushing') <= Cardinality(Producers)
        BY <3>2, CountProducers
      <3> QED
        BY <1>0, <2>2, <3>3, Numbers DEF CommittedBound, OverLimit
    <2> QED
      BY <2>1, <2>2
  <1> QED
    BY <1>1, <1>2, <1>3 DEF QueueInv

LEMMA LinkEventKeeps ==
    ASSUME QueueInv, NEW p \in Producers, LinkEvent(p)
    PROVE  QueueInv'
  <1>0. /\ QueueTypeOK /\ prod[p] = "full"
        /\ UNCHANGED <<queue, signalled, aborts>>
    BY DEF QueueInv, LinkEvent
  <1>1. QueueTypeOK'
    BY <1>0 DEF QueueTypeOK, LinkEvent
  <1>2. LinkedWhileWaiting' /\ NoLostWakeup'
    BY <1>0 DEF QueueInv, LinkedWhileWaiting, NoLostWakeup, QueueTypeOK, LinkEvent
  <1>3. CommittedBound'
    <2>1. CASE OverLimit
      <3>1. prod' = [prod EXCEPT ![p] = "test"]
        BY <2>1 DEF LinkEvent
      <3>2. Pushing' = Pushing
        BY <1>0, <3>1, SamePushing
      <3> QED
        BY <1>0, <3>2 DEF QueueInv, CommittedBound
    <2>2. CASE ~OverLimit
      <3>1. prod' = [prod EXCEPT ![p] = "push"]
        BY <2>2 DEF LinkEvent
      <3>2. Pushing' \in SUBSET Producers
        BY <1>0, <3>1, OneMorePushing
      <3>3. Cardinality(Pushing') \in Nat /\ Cardinality(Pushing') <= Cardinality(Producers)
        BY <3>2, CountProducers
      <3> QED
        BY <1>0, <2>2, <3>3, Numbers DEF CommittedBound, OverLimit
    <2> QED
      BY <2>1, <2>2
  <1> QED
    BY <1>1, <1>2, <1>3 DEF QueueInv

LEMMA WaitDoneKeeps ==
    ASSUME QueueInv, NEW p \in Producers, WaitDone(p)
    PROVE  QueueInv'
  <1>0. /\ QueueTypeOK /\ prod[p] = "test" /\ ~OverLimit
        /\ prod' = [prod EXCEPT ![p] = "push"]
        /\ UNCHANGED <<queue, aborts>>
    BY DEF QueueInv, WaitDone
  <1>1. QueueTypeOK'
    BY <1>0 DEF QueueTypeOK, WaitDone
  <1>2. LinkedWhileWaiting' /\ NoLostWakeup'
    BY <1>0 DEF QueueInv, LinkedWhileWaiting, NoLostWakeup, QueueTypeOK, WaitDone
  <1>3. Cardinality(Pushing') \in Nat /\ Cardinality(Pushing') <= Cardinality(Producers)
    BY <1>0, OneMorePushing, CountProducers
  <1>4. CommittedBound'
    BY <1>0, <1>3, Numbers DEF CommittedBound, OverLimit
  <1> QED
    BY <1>1, <1>2, <1>4 DEF QueueInv

LEMMA WaitAbortedKeeps ==
    ASSUME QueueInv, NEW p \in Producers, WaitAborted(p)
    PROVE  QueueInv'
  <1>0. /\ QueueTypeOK /\ prod[p] = "test"
        /\ prod' = [prod EXCEPT ![p] = "push"]
        /\ aborts' = aborts + 1 /\ queue' = queue
    BY DEF QueueInv, WaitAborted
  <1>1. QueueTypeOK'
    BY <1>0 DEF QueueTypeOK, WaitAborted
  <1>2. LinkedWhileWaiting' /\ NoLostWakeup'
    BY <1>0 DEF QueueInv, LinkedWhileWaiting, NoLostWakeup, QueueTypeOK, WaitAborted
  <1>3. Cardinality(Pushing') \in Nat /\ Cardinality(Pushing') <= Cardinality(Pushing) + 1
    BY <1>0, OneMorePushing
  <1>4. CommittedBound'
    BY <1>0, <1>3, Numbers DEF QueueInv, CommittedBound
  <1> QED
    BY <1>1, <1>2, <1>4 DEF QueueInv

LEMMA WaitSleepKeeps ==
    ASSUME QueueInv, NEW p \in Producers, WaitSleep(p)
    PROVE  QueueInv'
  <1>0. /\ QueueTypeOK /\ prod[p] = "test" /\ OverLimit
        /\ prod' = [prod EXCEPT ![p] = "sleep"]
        /\ UNCHANGED <<queue, linked, signalled, aborts>>
    BY DEF QueueInv, WaitSleep
  <1>1. QueueTypeOK'
    BY <1>0 DEF QueueTypeOK
  <1>2. LinkedWhileWaiting'
    BY <1>0 DEF QueueInv, LinkedWhileWaiting, QueueTypeOK
  <1>3. NoLostWakeup'
    BY <1>0, Numbers DEF QueueInv, NoLostWakeup, QueueTypeOK, OverLimit
  <1>4. Pushing' = Pushing
    BY <1>0, SamePushing
  <1>5. CommittedBound'
    BY <1>0, <1>4 DEF QueueInv, CommittedBound
  <1> QED
    BY <1>1, <1>2, <1>3, <1>5 DEF QueueInv

LEMMA WaitWakesKeeps ==
    ASSUME QueueInv, NEW p \in Producers, WaitWakes(p)
    PROVE  QueueInv'
  <1>0. /\ QueueTypeOK /\ prod[p] = "sleep"
        /\ prod' = [prod EXCEPT ![p] = "test"]
        /\ signalled' = signalled \ {p}
        /\ UNCHANGED <<queue, linked, aborts>>
    BY DEF QueueInv, WaitWakes
  <1>1. QueueTypeOK'
    BY <1>0 DEF QueueTypeOK
  <1>2. LinkedWhileWaiting' /\ NoLostWakeup'
    BY <1>0 DEF QueueInv, LinkedWhileWaiting, NoLostWakeup, QueueTypeOK
  <1>3. Pushing' = Pushing
    BY <1>0, SamePushing
  <1>4. CommittedBound'
    BY <1>0, <1>3 DEF QueueInv, CommittedBound
  <1> QED
    BY <1>1, <1>2, <1>4 DEF QueueInv

LEMMA PushKeeps ==
    ASSUME QueueInv, NEW p \in Producers, NEW item \in Items, NEW front \in BOOLEAN,
           Push(p, item, front)
    PROVE  QueueInv'
  <1>0. /\ QueueTypeOK /\ prod[p] = "push"
        /\ prod' = [prod EXCEPT ![p] = "idle"]
        /\ signalled \subseteq signalled'
        /\ UNCHANGED <<linked, aborts>>
    BY DEF QueueInv, Push, TriggerEvent
  <1>1. queue' \in Seq(Items) /\ Len(queue') = Len(queue) + 1
    <2>1. queue \in Seq(Items) /\ <<item>> \in Seq(Items) /\ Len(<<item>>) = 1
      BY <1>0 DEF QueueTypeOK
    <2>2. CASE front
      BY <2>1, <2>2 DEF Push
    <2>3. CASE ~front
      BY <2>1, <2>3 DEF Push
    <2> QED
      BY <2>2, <2>3
  <1>2. QueueTypeOK'
    BY <1>0, <1>1 DEF QueueTypeOK, Push, TriggerEvent, Triggered
  <1>3. LinkedWhileWaiting'
    BY <1>0 DEF QueueInv, LinkedWhileWaiting, QueueTypeOK
  <1>4. NoLostWakeup'
    BY <1>0, <1>1, Numbers DEF QueueInv, NoLostWakeup, QueueTypeOK
  <1>5. Cardinality(Pushing') = Cardinality(Pushing) - 1
    BY <1>0, OneLessPushing
  <1>6. CommittedBound'
    BY <1>0, <1>1, <1>5, Numbers DEF QueueInv, CommittedBound
  <1> QED
    BY <1>2, <1>3, <1>4, <1>6 DEF QueueInv

(* The interesting case of NoLostWakeup: a pop that takes the queue below  *)
(* the limit finds it at the limit or below, and triggers with that size.  *)
LEMMA PopKeeps ==
    ASSUME QueueInv, NEW front \in BOOLEAN, Pop(front)
    PROVE  QueueInv'
  <1>0. /\ QueueTypeOK /\ queue # << >>
        /\ signalled' = signalled \cup Triggered(Len(queue), "POP")
        /\ UNCHANGED <<prod, linked, aborts>>
    BY DEF QueueInv, Pop, TriggerEvent
  <1>1. queue' \in Seq(Items) /\ Len(queue') = Len(queue) - 1
    <2>1. CASE front
      BY <1>0, <2>1, ShorterQueue DEF Pop
    <2>2. CASE ~front
      BY <1>0, <2>2, ShorterQueue DEF Pop
    <2> QED
      BY <2>1, <2>2
  <1>2. QueueTypeOK'
    BY <1>0, <1>1 DEF QueueTypeOK, Triggered
  <1>3. LinkedWhileWaiting'
    BY <1>0 DEF QueueInv, LinkedWhileWaiting
  <1>4. NoLostWakeup'
    <2> SUFFICES ASSUME NEW p \in Producers, prod[p] = "sleep", Len(queue') < MaxQueueSize
                 PROVE  p \in signalled'
      BY <1>0 DEF NoLostWakeup
    <2>1. p \in linked
      BY DEF QueueInv, LinkedWhileWaiting
    <2>2. Len(queue) <= MaxQueueSize
      BY <1>1, Numbers
    <2> QED
      BY <1>0, <2>1, <2>2 DEF Triggered
  <1>5. Pushing' = Pushing
    BY <1>0 DEF Pushing
  <1>6. CommittedBound'
    BY <1>0, <1>1, <1>5, Numbers DEF QueueInv, CommittedBound
  <1> QED
    BY <1>2, <1>3, <1>4, <1>6 DEF QueueInv

LEMMA ClearKeeps ==
    ASSUME QueueInv, Clear
    PROVE  QueueInv'
  <1>0. /\ QueueTypeOK /\ queue' = << >> /\ Len(queue') = 0
        /\ signalled' = signalled \cup Triggered(0, "EMPTY")
        /\ UNCHANGED <<prod, linked, aborts>>
    BY DEF QueueInv, Clear, TriggerEvent
  <1>1. QueueTypeOK'
    BY <1>0 DEF QueueTypeOK, Triggered
  <1>2. LinkedWhileWaiting'
    BY <1>0 DEF QueueInv, LinkedWhileWaiting
  <1>3. NoLostWakeup'
    BY <1>0, Numbers DEF QueueInv, LinkedWhileWaiting, NoLostWakeup, Triggered
  <1>4. Pushing' = Pushing
    BY <1>0 DEF Pushing
  <1>5. CommittedBound'
    BY <1>0, <1>4, Numbers DEF QueueInv, CommittedBound
  <1> QED
    BY <1>1, <1>2, <1>3, <1>5 DEF QueueInv

-----------------------------------------------------------------------------
LEMMA InitQueueInv == QueueInit => QueueInv
  <1> SUFFICES ASSUME QueueInit
               PROVE  QueueInv
    OBVIOUS
  <1>1. QueueTypeOK
    BY DEF QueueInit, QueueTypeOK
  <1>2. LinkedWhileWaiting /\ NoLostWakeup
    BY DEF QueueInit, LinkedWhileWaiting, NoLostWakeup
  <1>3. Pushing = {} /\ Len(queue) = 0 /\ aborts = 0
    BY DEF QueueInit, Pushing
  <1>4. Cardinality(Producers) \in Nat /\ Cardinality({}) = 0 /\ MaxQueueSize \in Nat
    BY QueueAssumption, FS_EmptySet, FS_CardinalityType
  <1>5. CommittedBound
    BY <1>3, <1>4 DEF CommittedBound
  <1> QED
    BY <1>1, <1>2, <1>5 DEF QueueInv

LEMMA QueueStutterKeeps == QueueInv /\ UNCHANGED queueVars => QueueInv'
  BY DEF QueueInv, QueueTypeOK, CommittedBound, Pushing, LinkedWhileWaiting,
         NoLostWakeup, queueVars

LEMMA QueueNextKeeps == QueueInv /\ QueueNext => QueueInv'
  BY BeginPushKeeps, LinkEventKeeps, WaitDoneKeeps, WaitAbortedKeeps, WaitSleepKeeps,
     WaitWakesKeeps, PushKeeps, PopKeeps, ClearKeeps DEF QueueNext

(* The inductive invariant of CSharedQueue.                                *)
THEOREM QueueInductive == QueueSpec => []QueueInv
  BY InitQueueInv, QueueNextKeeps, QueueStutterKeeps, PTL DEF QueueSpec

(* The members keep the types of the queue's state.                        *)
THEOREM QueueTypeCorrect == QueueSpec => []QueueTypeOK
  <1>1. QueueInv => QueueTypeOK
    BY DEF QueueInv
  <1> QED
    BY <1>1, QueueInductive, PTL

(* push_back and WaitForQueue bound the queue: at most one record over the *)
(* limit for each producer, plus one for each push an abort let through.   *)
THEOREM QueueBoundHolds == QueueSpec => []QueueBound
  <1>1. QueueInv => QueueBound
    <2> SUFFICES ASSUME QueueInv
                 PROVE  QueueBound
      OBVIOUS
    <2> QED
      BY Numbers DEF QueueInv, CommittedBound, QueueBound
  <1> QED
    BY <1>1, QueueInductive, PTL

(* WaitForQueue never sleeps through a queue that is below the limit.      *)
THEOREM NoLostWakeupHolds == QueueSpec => []NoLostWakeup
  <1>1. QueueInv => NoLostWakeup
    BY DEF QueueInv
  <1> QED
    BY <1>1, QueueInductive, PTL

-----------------------------------------------------------------------------
(* The inductive invariant of the download.                                *)

(* The last entry is at the end of the queue, behind the chunks.           *)
LastIn == queue # << >> /\ queue[Len(queue)] = Last
Chunks == IF LastIn THEN Len(queue) - 1 ELSE Len(queue)

(* The last entry has been pushed.                                         *)
LastOut == bDone \/ entry = Last \/ LastIn

(* Chunks that have gone through the queue or are in it.                   *)
Pushed == IF worker = "push" /\ hold # Last THEN received - 1 ELSE received

(* Chunks in the hand of the calling thread.                               *)
InHand == IF entry \in 1 .. NumChunks THEN 1 ELSE 0

(* The worker holds what it has received last, or the last entry, while it *)
(* pushes, and it pushes nothing after the last entry.                     *)
WorkerHolds ==
    /\ worker = "push" => hold \in {received, Last} /\ ~LastOut
    /\ worker = "push" /\ hold # Last => received > 0
    /\ worker # "push" => hold = Nothing
    /\ LastOut => worker \in {"close", "done", "exited"}

(* The queue holds consecutive chunks, up to the one pushed last.          *)
QueueRuns == \A i \in 1 .. Chunks : queue[i] = (Pushed - Chunks) + i

(* The calling thread has written the chunks that came before those, all   *)
(* of them unless it has met an error.                                     *)
WrittenRuns ==
    /\ \A i \in 1 .. Len(written) : written[i] = i
    /\ Len(written) + InHand <= Pushed - Chunks
    /\ dwMainThreadError = "none" => Len(written) + InHand = Pushed - Chunks
    /\ dwMainThreadError # "none" => main \in {"exitflag", "kill", "join", "returned"}

MainHolds ==
    /\ main # "write" => entry = Nothing
    /\ main = "write" => entry \in Items
    /\ entry \in 1 .. NumChunks => entry = Len(written) + 1
    /\ bDone \/ entry = Last => queue = << >>
    /\ bDone => entry = Nothing

(* How the worker ends, and what the calling thread can know of it.        *)
WorkerEnds ==
    /\ bWorkerDone => worker \in {"done", "exited"}
    /\ worker = "done" => bWorkerDone
    /\ LastOut /\ worker = "exited" => bWorkerDone
    /\ Error # "none" => bWorkerDone
    /\ bWorkerDone /\ Error = "none" => status = 200 /\ length \in {received, NoLength}

MainEnds ==
    /\ main \in {"kill", "join", "returned"} /\ dwMainThreadError = "none"
         => bWorkerDone \/ Error # "none" \/ bDone
    /\ main = "returned" =>
         /\ ~IfActive
         /\ result = "none" => Error = "none" /\ dwMainThreadError = "none"

StreamInv ==
    /\ StreamTypeOK /\ QueueInv
    /\ WorkerHolds /\ QueueRuns /\ WrittenRuns /\ MainHolds /\ WorkerEnds /\ MainEnds
-----------------------------------------------------------------------------
(* What leaves the queue alone keeps its chunks.                           *)
LEMMA ChunksKept ==
    ASSUME UNCHANGED queue
    PROVE  LastIn' = LastIn /\ Chunks' = Chunks
  BY DEF LastIn, Chunks

(* A step of the worker between its pushes.                                *)
LEMMA WorkerMoves ==
    ASSUME StreamInv, UNCHANGED <<queueVars, received, hold, mainVars, bTerminate, bAbort>>,
           worker # "push", worker' # "push", IfActive, StreamTypeOK', WorkerEnds',
           LastOut => worker' \in {"close", "done", "exited"},
           bWorkerDone => bWorkerDone', Error # "none" => Error' # "none"
    PROVE  StreamInv'
  <1>1. LastIn' = LastIn /\ Chunks' = Chunks
    BY ChunksKept DEF queueVars
  <1>2. LastOut' = LastOut /\ InHand' = InHand /\ Pushed' = Pushed
    BY <1>1 DEF LastOut, InHand, Pushed, mainVars
  <1>3. QueueInv'
    BY QueueStutterKeeps DEF StreamInv
  <1>4. WorkerHolds'
    BY <1>2 DEF StreamInv, WorkerHolds
  <1>5. QueueRuns'
    BY <1>1, <1>2 DEF StreamInv, QueueRuns, queueVars
  <1>6. WrittenRuns'
    BY <1>1, <1>2 DEF StreamInv, WrittenRuns, mainVars
  <1>7. MainHolds'
    BY DEF StreamInv, MainHolds, mainVars, queueVars
  <1>8. MainEnds'
    BY DEF StreamInv, MainEnds, mainVars
  <1> QED
    BY <1>3, <1>4, <1>5, <1>6, <1>7, <1>8 DEF StreamInv

(* A step of the calling thread that handles no data.                      *)
LEMMA MainMoves ==
    ASSUME StreamInv, UNCHANGED <<queue, workerVars, entry, written, bDone>>,
           main # "write", main' # "write", StreamTypeOK', QueueInv', MainEnds',
           dwMainThreadError # "none" => dwMainThreadError' # "none",
           dwMainThreadError' # "none" => main' \in {"exitflag", "kill", "join", "returned"}
    PROVE  StreamInv'
  <1>1. LastIn' = LastIn /\ Chunks' = Chunks
    BY ChunksKept
  <1>2. LastOut' = LastOut /\ InHand' = InHand /\ Pushed' = Pushed
    BY <1>1 DEF LastOut, InHand, Pushed, workerVars
  <1>3. WorkerHolds'
    BY <1>2 DEF StreamInv, WorkerHolds, workerVars
  <1>4. QueueRuns'
    BY <1>1, <1>2 DEF StreamInv, QueueRuns
  <1>5. WrittenRuns'
    BY <1>1, <1>2 DEF StreamInv, WrittenRuns
  <1>6. MainHolds'
    BY DEF StreamInv, MainHolds
  <1>7. WorkerEnds'
    BY <1>2 DEF StreamInv, WorkerEnds, workerVars
  <1> QED
    BY <1>3, <1>4, <1>5, <1>6, <1>7 DEF StreamInv

(* A step that moves neither of the two threads.                           *)
LEMMA NeitherMoves ==
    ASSUME StreamInv, UNCHANGED <<queue, workerVars, mainVars>>, StreamTypeOK', QueueInv'
    PROVE  StreamInv'
  <1>1. LastIn' = LastIn /\ Chunks' = Chunks
    BY ChunksKept
  <1>2. LastOut' = LastOut /\ InHand' = InHand /\ Pushed' = Pushed
    BY <1>1 DEF LastOut, InHand, Pushed, workerVars, mainVars
  <1>3. WorkerHolds'
    BY <1>2 DEF StreamInv, WorkerHolds, workerVars
  <1>4. QueueRuns'
    BY <1>1, <1>2 DEF StreamInv, QueueRuns
  <1>5. WrittenRuns'
    BY <1>1, <1>2 DEF StreamInv, WrittenRuns, mainVars
  <1>6. MainHolds'
    BY DEF StreamInv, MainHolds, mainVars
  <1>7. WorkerEnds'
    BY <1>2 DEF StreamInv, WorkerEnds, workerVars
  <1>8. MainEnds'
    BY DEF StreamInv, MainEnds, IfActive, mainVars, workerVars
  <1> QED
    BY <1>3, <1>4, <1>5, <1>6, <1>7, <1>8 DEF StreamInv

-----------------------------------------------------------------------------
(* The worker.                                                             *)

LEMMA WorkerStartsKeeps ==
    ASSUME StreamInv, WorkerStarts
    PROVE  StreamInv'
  <1>1. /\ worker = "start" /\ worker' \in {"request", "exited"} /\ IfActive
        /\ UNCHANGED <<queueVars, status, length, received, hold, bWorkerDone, Error,
                       mainVars, bTerminate, bAbort>>
    BY DEF WorkerStarts, UnchangedByWorker, IfActive
  <1>2. StreamTypeOK'
    BY <1>1, QueueStutterKeeps DEF StreamInv, StreamTypeOK, QueueTypeOK, queueVars, mainVars
  <1>3. ~LastOut /\ LastOut' = LastOut
    BY <1>1, ChunksKept DEF StreamInv, WorkerHolds, LastOut, mainVars, queueVars
  <1>4. WorkerEnds'
    BY <1>1, <1>3 DEF StreamInv, WorkerEnds
  <1> QED
    BY <1>1, <1>2, <1>3, <1>4, WorkerMoves

LEMMA WorkerHangsKeeps ==
    ASSUME StreamInv, WorkerHangs
    PROVE  StreamInv'
  <1>1. /\ worker = "request" /\ worker' = "hung" /\ IfActive
        /\ UNCHANGED <<queueVars, status, length, received, hold, bWorkerDone, Error,
                       mainVars, bTerminate, bAbort>>
    BY DEF WorkerHangs, UnchangedByWorker, IfActive
  <1>2. StreamTypeOK'
    BY <1>1, QueueStutterKeeps DEF StreamInv, StreamTypeOK, QueueTypeOK, queueVars, mainVars
  <1>3. ~LastOut /\ LastOut' = LastOut
    BY <1>1, ChunksKept DEF StreamInv, WorkerHolds, LastOut, mainVars, queueVars
  <1>4. WorkerEnds'
    BY <1>1, <1>3 DEF StreamInv, WorkerEnds
  <1> QED
    BY <1>1, <1>2, <1>3, <1>4, WorkerMoves

LEMMA WorkerFailsKeeps ==
    ASSUME StreamInv, WorkerFails
    PROVE  StreamInv'
  <1>1. /\ worker \in {"request", "recv"} /\ worker' = "done" /\ IfActive
        /\ Error' \in {"aborted", "comm"} /\ bWorkerDone' = TRUE
        /\ UNCHANGED <<queueVars, status, length, received, hold,
                       mainVars, bTerminate, bAbort>>
    BY DEF WorkerFails, ReadReturns, UnchangedByWorker, IfActive
  <1>2. StreamTypeOK'
    BY <1>1 DEF StreamInv, StreamTypeOK, QueueTypeOK, queueVars, mainVars, Errors
  <1>3. WorkerEnds'
    BY <1>1 DEF WorkerEnds
  <1> QED
    BY <1>1, <1>2, <1>3, WorkerMoves

LEMMA HeadersReceivedKeeps ==
    ASSUME StreamInv, NEW s \in {200, 300, 400}, NEW len \in 0 .. NoLength,
           HeadersReceived(s, len)
    PROVE  StreamInv'
  <1>1. /\ worker = "request" /\ worker' = "recv" /\ IfActive
        /\ status' \in {200, 300, 400} /\ length' \in 0 .. NoLength
        /\ UNCHANGED <<queueVars, received, hold, bWorkerDone, Error,
                       mainVars, bTerminate, bAbort>>
    BY DEF HeadersReceived, UnchangedByWorker, IfActive
  <1>2. StreamTypeOK'
    BY <1>1 DEF StreamInv, StreamTypeOK, QueueTypeOK, queueVars, mainVars
  <1>3. ~LastOut
    BY <1>1 DEF StreamInv, WorkerHolds
  <1>4. WorkerEnds'
    BY <1>1 DEF StreamInv, WorkerEnds
  <1> QED
    BY <1>1, <1>2, <1>3, <1>4, WorkerMoves

LEMMA ReceiveErrorEndKeeps ==
    ASSUME StreamInv, ReceiveErrorEnd
    PROVE  StreamInv'
  <1>1. /\ worker = "recv" /\ worker' = "done" /\ IfActive
        /\ Error' = "http" /\ bWorkerDone' = TRUE
        /\ UNCHANGED <<queueVars, status, length, received, hold,
                       mainVars, bTerminate, bAbort>>
    BY DEF ReceiveErrorEnd, ReadReturns, UnchangedByWorker, IfActive
  <1>2. StreamTypeOK'
    BY <1>1 DEF StreamInv, StreamTypeOK, QueueTypeOK, queueVars, mainVars, Errors
  <1>3. WorkerEnds'
    BY <1>1 DEF WorkerEnds
  <1> QED
    BY <1>1, <1>2, <1>3, WorkerMoves

(* Read succeeds only with a good status and the announced length.         *)
LEMMA ReceiveCompleteKeeps ==
    ASSUME StreamInv, ReceiveComplete
    PROVE  StreamInv'
  <1>1. /\ worker = "close" /\ worker' = "done" /\ IfActive /\ bWorkerDone' = TRUE
        /\ Error' = IF status >= 300 THEN "http"
                    ELSE IF length \notin {received, NoLength} THEN "length"
                    ELSE "none"
        /\ UNCHANGED <<queueVars, status, length, received, hold,
                       mainVars, bTerminate, bAbort>>
    BY DEF ReceiveComplete, ReadReturns, UnchangedByWorker, IfActive
  <1>2. Error' \in {"http", "length", "none"} /\ status \in {200, 300, 400}
    BY <1>1 DEF StreamInv, StreamTypeOK
  <1>3. Error' = "none" => status = 200 /\ length \in {received, NoLength}
    BY <1>1, <1>2
  <1>4. StreamTypeOK'
    BY <1>1, <1>2 DEF StreamInv, StreamTypeOK, QueueTypeOK, queueVars, mainVars, Errors
  <1>5. WorkerEnds'
    BY <1>1, <1>3 DEF WorkerEnds
  <1>6. Error # "none" => Error' # "none"
    BY <1>1 DEF StreamInv, WorkerEnds
  <1> QED
    BY <1>1, <1>4, <1>5, <1>6, WorkerMoves

LEMMA WorkerExitsKeeps ==
    ASSUME StreamInv, WorkerExits
    PROVE  StreamInv'
  <1>1. /\ worker = "done" /\ worker' = "exited" /\ IfActive
        /\ UNCHANGED <<queueVars, status, length, received, hold, bWorkerDone, Error,
                       mainVars, bTerminate, bAbort>>
    BY DEF WorkerExits, UnchangedByWorker, IfActive
  <1>2. StreamTypeOK'
    BY <1>1 DEF StreamInv, StreamTypeOK, QueueTypeOK, queueVars, mainVars
  <1>3. WorkerEnds'
    BY <1>1 DEF StreamInv, WorkerEnds
  <1> QED
    BY <1>1, <1>2, <1>3, WorkerMoves

(* The worker begins to push what it has received, or the last entry.      *)
LEMMA BeginsToPush ==
    ASSUME StreamInv, worker = "recv", worker' = "push", BeginPush(ReadThread),
           \/ received < NumChunks /\ received' = received + 1 /\ hold' = received + 1
           \/ received' = received /\ hold' = Last,
           UNCHANGED <<status, length, bWorkerDone, Error, mainVars, bTerminate, bAbort>>
    PROVE  StreamInv'
  <1>1. QueueInv' /\ UNCHANGED queue
    BY BeginPushKeeps, StreamAssumption DEF StreamInv, BeginPush
  <1>2. /\ received \in 0 .. NumChunks /\ received' \in 0 .. NumChunks /\ hold' \in 0 .. Nothing
        /\ NumChunks \in Nat /\ hold' \in {received', Last}
        /\ hold' # Last => received' > 0
    BY StreamAssumption DEF StreamInv, StreamTypeOK, Last, Nothing
  <1>3. StreamTypeOK'
    BY <1>1, <1>2 DEF StreamInv, StreamTypeOK, QueueInv, mainVars
  <1>4. LastIn' = LastIn /\ Chunks' = Chunks /\ LastOut' = LastOut /\ InHand' = InHand
    BY <1>1, ChunksKept DEF LastOut, InHand, mainVars
  <1>5. Pushed' = Pushed
    <2>1. Pushed = received
      BY DEF Pushed
    <2>2. CASE received' = received + 1 /\ hold' = received + 1
      BY <1>2, <2>1, <2>2 DEF Pushed, Last
    <2>3. CASE received' = received /\ hold' = Last
      BY <2>1, <2>3 DEF Pushed
    <2> QED
      BY <2>2, <2>3
  <1>6. WorkerHolds'
    BY <1>2, <1>4 DEF StreamInv, WorkerHolds
  <1>7. QueueRuns'
    BY <1>1, <1>4, <1>5 DEF StreamInv, QueueRuns
  <1>8. WrittenRuns'
    BY <1>4, <1>5 DEF StreamInv, WrittenRuns, mainVars
  <1>9. MainHolds'
    BY <1>1 DEF StreamInv, MainHolds, mainVars
  <1>10. WorkerEnds'
    BY <1>4 DEF StreamInv, WorkerEnds
  <1>11. MainEnds'
    BY DEF StreamInv, MainEnds, IfActive, mainVars
  <1> QED
    BY <1>1, <1>3, <1>6, <1>7, <1>8, <1>9, <1>10, <1>11 DEF StreamInv

LEMMA ReceiveChunkKeeps ==
    ASSUME StreamInv, ReceiveChunk
    PROVE  StreamInv'
  BY BeginsToPush DEF ReceiveChunk, UnchangedByWorker

LEMMA ReceiveEndKeeps ==
    ASSUME StreamInv, ReceiveEnd
    PROVE  StreamInv'
  BY BeginsToPush DEF ReceiveEnd, UnchangedByWorker

LEMMA PushWaitsKeeps ==
    ASSUME StreamInv, PushWaits
    PROVE  StreamInv'
  <1>1. QueueInv /\ ReadThread \in Producers
    BY StreamAssumption DEF StreamInv
  <1>2. \/ LinkEvent(ReadThread) \/ WaitDone(ReadThread) \/ WaitAborted(ReadThread)
        \/ WaitSleep(ReadThread) \/ WaitWakes(ReadThread)
    BY DEF PushWaits
  <1>3. QueueInv'
    BY <1>1, <1>2, LinkEventKeeps, WaitDoneKeeps, WaitAbortedKeeps, WaitSleepKeeps,
       WaitWakesKeeps
  <1>4. UNCHANGED queue
    BY <1>2 DEF LinkEvent, WaitDone, WaitAborted, WaitSleep, WaitWakes
  <1>5. UNCHANGED <<workerVars, mainVars, bTerminate, bAbort>>
    BY DEF PushWaits, UnchangedByWorker
  <1>6. StreamTypeOK'
    BY <1>3, <1>5 DEF StreamInv, StreamTypeOK, QueueInv, workerVars, mainVars
  <1> QED
    BY <1>3, <1>4, <1>5, <1>6, NeitherMoves

(* The entry goes to the end of the queue: the chunk follows the others,   *)
(* and nothing follows the last entry.                                     *)
LEMMA PushEntryKeeps ==
    ASSUME StreamInv, PushEntry
    PROVE  StreamInv'
  <1>1. /\ worker = "push" /\ Push(ReadThread, hold, FALSE)
        /\ queue' = Append(queue, hold) /\ hold' = Nothing
        /\ worker' = IF hold = Last THEN "close" ELSE "recv"
        /\ UNCHANGED <<status, length, received, bWorkerDone, Error, mainVars,
                       bTerminate, bAbort>>
    BY DEF PushEntry, Push, UnchangedByWorker
  <1>2. /\ hold \in {received, Last} /\ ~LastOut /\ (hold # Last => received > 0)
        /\ received \in 0 .. NumChunks /\ NumChunks \in Nat /\ queue \in Seq(Items)
    BY <1>1, StreamAssumption DEF StreamInv, WorkerHolds, StreamTypeOK, QueueTypeOK
  <1>3. hold \in Items /\ Items = 0 .. NumChunks /\ ReadThread \in Producers
    BY <1>2, StreamAssumption DEF Last
  <1>4. QueueInv'
    BY <1>1, <1>3, PushKeeps DEF StreamInv
  <1>5. worker' \in {"close", "recv"} /\ worker' # "push"
    BY <1>1
  <1>6. StreamTypeOK'
    BY <1>1, <1>2, <1>4, <1>5 DEF StreamInv, StreamTypeOK, QueueInv, mainVars, Nothing
  <1>7. /\ Len(queue) \in Nat /\ Len(queue') = Len(queue) + 1 /\ queue' # << >>
        /\ queue'[Len(queue) + 1] = hold
        /\ \A i \in 1 .. Len(queue) : queue'[i] = queue[i]
    BY <1>1, <1>2, <1>3
  <1>8. ~LastIn /\ Chunks = Len(queue) /\ bDone = FALSE /\ entry # Last
    BY <1>2 DEF LastOut, Chunks, StreamInv, StreamTypeOK
  <1>9. LastIn' <=> hold = Last
    <2>1. queue'[Len(queue')] = hold
      BY <1>7
    <2> QED
      BY <1>7, <2>1 DEF LastIn
  <1>10. Chunks' = IF hold = Last THEN Chunks ELSE Chunks + 1
    BY <1>7, <1>8, <1>9 DEF Chunks
  <1>11. Pushed \in Nat /\ Pushed' = IF hold = Last THEN Pushed ELSE Pushed + 1
    BY <1>1, <1>2, <1>5 DEF Pushed
  <1>12. (LastOut' <=> hold = Last) /\ InHand' = InHand
    BY <1>1, <1>8, <1>9 DEF LastOut, InHand, mainVars
  <1>13. WorkerHolds'
    BY <1>1, <1>5, <1>12 DEF WorkerHolds
  <1>14. QueueRuns'
    <2> SUFFICES ASSUME NEW i \in 1 .. Chunks'
                 PROVE  queue'[i] = (Pushed' - Chunks') + i
      BY DEF QueueRuns
    <2>1. CASE i \in 1 .. Chunks
      <3>1. queue[i] = (Pushed - Chunks) + i
        BY <2>1 DEF StreamInv, QueueRuns
      <3>2. Pushed' - Chunks' = Pushed - Chunks
        BY <1>7, <1>8, <1>10, <1>11
      <3> QED
        BY <1>7, <1>8, <2>1, <3>1, <3>2
    <2>2. CASE i \notin 1 .. Chunks
      <3>1. hold # Last /\ i = Len(queue) + 1
        BY <1>7, <1>8, <1>10, <2>2
      <3>2. hold = received /\ Pushed' = received
        BY <1>1, <1>2, <1>5, <3>1 DEF Pushed
      <3> QED
        BY <1>2, <1>7, <1>8, <1>10, <3>1, <3>2
    <2> QED
      BY <2>1, <2>2
  <1>15. Pushed' - Chunks' = Pushed - Chunks
    BY <1>7, <1>8, <1>10, <1>11
  <1>16. WrittenRuns'
    BY <1>1, <1>12, <1>15 DEF StreamInv, WrittenRuns, mainVars
  <1>17. MainHolds'
    BY <1>1, <1>8 DEF StreamInv, MainHolds, mainVars
  <1>18. WorkerEnds'
    BY <1>1, <1>5 DEF StreamInv, WorkerEnds
  <1>19. MainEnds'
    BY <1>1, <1>5 DEF StreamInv, MainEnds, IfActive, mainVars
  <1> QED
    BY <1>4, <1>6, <1>13, <1>14, <1>16, <1>17, <1>18, <1>19 DEF StreamInv

-----------------------------------------------------------------------------
(* The calling thread.                                                     *)

(* The queue gives the entries up in the order they were pushed: the last  *)
(* entry when it is alone, else the chunk after the one written last.      *)
LEMMA MainPopKeeps ==
    ASSUME StreamInv, MainPop
    PROVE  StreamInv'
  <1>1. /\ main = "pop" /\ main' = "write" /\ Pop(TRUE) /\ queue # << >>
        /\ queue' = Tail(queue) /\ entry' = Head(queue)
        /\ UNCHANGED <<workerVars, written, bDone, dwMainThreadError, result,
                       bTerminate, bAbort>>
    BY DEF MainPop, Pop, UnchangedByMain
  <1>2. QueueInv'
    BY <1>1, PopKeeps DEF StreamInv
  <1>3. /\ queue \in Seq(Items) /\ Len(queue) \in Nat \ {0} /\ NumChunks \in Nat
        /\ Items = 0 .. NumChunks /\ received \in 0 .. NumChunks /\ Len(written) \in Nat
        /\ Last = 0 /\ Nothing = NumChunks + 1 /\ written \in Seq(1 .. NumChunks)
    BY <1>1, StreamAssumption DEF StreamInv, StreamTypeOK, QueueTypeOK, Last, Nothing
  <1>4. /\ entry' = queue[1] /\ entry' \in Items /\ Len(queue') = Len(queue) - 1
        /\ \A i \in 1 .. Len(queue) - 1 : queue'[i] = queue[i + 1]
    BY <1>1, <1>3
  <1>5. StreamTypeOK'
    BY <1>1, <1>2, <1>3, <1>4 DEF StreamInv, StreamTypeOK, QueueInv, workerVars
  <1>6. entry = Nothing /\ ~bDone /\ dwMainThreadError = "none"
    BY <1>1 DEF StreamInv, MainHolds, WrittenRuns
  <1>7. Pushed' = Pushed /\ InHand = 0 /\ Chunks \in Nat /\ Pushed \in Int
    BY <1>1, <1>3, <1>6 DEF Pushed, InHand, Chunks, workerVars
  <1>8. Len(written) = Pushed - Chunks
    BY <1>3, <1>6, <1>7 DEF StreamInv, WrittenRuns
  <1>9. entry' = Last => LastIn /\ Len(queue) = 1
    <2>1. SUFFICES ASSUME Chunks > 0
                   PROVE  entry' # Last
      BY <1>3, <1>4 DEF Chunks
    <2>2. queue[1] = (Pushed - Chunks) + 1
      BY <1>7, <2>1 DEF StreamInv, QueueRuns
    <2> QED
      BY <1>3, <1>4, <1>7, <1>8, <2>2
  <1>10. entry' # Last => (LastIn' <=> LastIn) /\ Chunks > 0 /\ Chunks' = Chunks - 1
    <2> SUFFICES ASSUME entry' # Last
                 PROVE  (LastIn' <=> LastIn) /\ Chunks > 0 /\ Chunks' = Chunks - 1
      OBVIOUS
    <2>1. CASE Len(queue) = 1
      <3>1. ~LastIn /\ queue' = << >>
        BY <1>1, <1>3, <1>4, <2>1 DEF LastIn
      <3> QED
        BY <1>4, <2>1, <3>1 DEF LastIn, Chunks
    <2>2. CASE Len(queue) > 1
      <3>1. /\ Len(queue') > 0 /\ Len(queue) - 1 \in 1 .. Len(queue) - 1
            /\ Len(queue) - 1 + 1 = Len(queue)
        BY <1>3, <1>4, <2>2
      <3>2. queue'[Len(queue')] = queue[Len(queue)]
        BY <1>4, <3>1
      <3>3. queue' # << >>
        BY <3>1
      <3>4. LastIn' <=> LastIn
        BY <1>1, <3>2, <3>3 DEF LastIn
      <3> QED
        BY <1>3, <1>4, <2>2, <3>4 DEF Chunks
    <2>3. Len(queue) = 1 \/ Len(queue) > 1
      <3>1. Len(queue) \in Nat \ {0}
        BY <1>3
      <3> QED
        BY <3>1
    <2> QED
      BY <2>1, <2>2, <2>3
  <1>11. entry' = Last => ~LastIn' /\ queue' = << >> /\ Chunks = 0 /\ Chunks' = 0
    <2> SUFFICES ASSUME entry' = Last
                 PROVE  ~LastIn' /\ queue' = << >> /\ Chunks = 0 /\ Chunks' = 0
      OBVIOUS
    <2>1. LastIn /\ Len(queue) = 1 /\ queue' = << >>
      BY <1>1, <1>3, <1>9, SMTT(30)
    <2>2. ~LastIn'
      BY <2>1 DEF LastIn
    <2> QED
      BY <2>1, <2>2, <1>4 DEF Chunks
  <1>12. entry' # Last => entry' = Len(written) + 1 /\ InHand' = 1
    <2> SUFFICES ASSUME entry' # Last
                 PROVE  entry' = Len(written) + 1 /\ InHand' = 1
      OBVIOUS
    <2>1. queue[1] = (Pushed - Chunks) + 1
      BY <1>7, <1>10 DEF StreamInv, QueueRuns
    <2> QED
      BY <1>3, <1>4, <1>7, <1>8, <2>1 DEF InHand
  <1>13. entry' = Last => InHand' = 0
    BY <1>3 DEF InHand
  <1>14. LastOut' <=> LastOut
    BY <1>1, <1>3, <1>6, <1>9, <1>10 DEF LastOut
  <1>15. WorkerHolds'
    BY <1>1, <1>14 DEF StreamInv, WorkerHolds, workerVars
  <1>16. QueueRuns'
    <2> SUFFICES ASSUME NEW i \in 1 .. Chunks'
                 PROVE  queue'[i] = (Pushed' - Chunks') + i
      BY DEF QueueRuns
    <2>1. entry' # Last
      BY <1>11
    <2>2. i \in Nat /\ i + 1 \in 1 .. Chunks /\ Chunks' = Chunks - 1 /\ i \in 1 .. Len(queue) - 1
      BY <1>3, <1>7, <1>10, <2>1 DEF Chunks
    <2>3. queue[i + 1] = (Pushed - Chunks) + (i + 1)
      BY <2>2 DEF StreamInv, QueueRuns
    <2> QED
      BY <1>4, <1>7, <2>2, <2>3
  <1>17. Len(written) + InHand' = Pushed' - Chunks'
    BY <1>3, <1>7, <1>8, <1>10, <1>11, <1>12, <1>13
  <1>18. WrittenRuns'
    BY <1>1, <1>3, <1>6, <1>7, <1>17 DEF StreamInv, WrittenRuns, InHand
  <1>19. MainHolds'
    BY <1>1, <1>3, <1>4, <1>6, <1>11, <1>12 DEF MainHolds
  <1>20. WorkerEnds'
    BY <1>1, <1>14 DEF StreamInv, WorkerEnds, workerVars
  <1>21. MainEnds'
    BY <1>1 DEF MainEnds
  <1> QED
    BY <1>2, <1>5, <1>15, <1>16, <1>18, <1>19, <1>20, <1>21 DEF StreamInv

(* The chunk in hand is the next of the file; the last entry ends it.      *)
LEMMA MainWriteKeeps ==
    ASSUME StreamInv, MainWrite
    PROVE  StreamInv'
  <1>1. /\ main = "write" /\ entry' = Nothing
        /\ entry = Last => main' = "exitflag" /\ bDone' = TRUE /\ written' = written
        /\ entry # Last => main' = "drain" /\ bDone' = bDone /\ written' = Append(written, entry)
        /\ UNCHANGED <<queueVars, workerVars, dwMainThreadError, result, bTerminate, bAbort>>
    BY DEF MainWrite, UnchangedByMain
  <1>2. /\ NumChunks \in Nat /\ Last = 0 /\ Nothing = NumChunks + 1
        /\ written \in Seq(1 .. NumChunks) /\ Len(written) \in Nat
        /\ entry \in 0 .. NumChunks /\ dwMainThreadError = "none"
    BY <1>1, StreamAssumption
       DEF StreamInv, StreamTypeOK, MainHolds, WrittenRuns, Last, Nothing
  <1>3. LastIn' = LastIn /\ Chunks' = Chunks /\ Pushed' = Pushed /\ QueueInv'
    BY <1>1, ChunksKept, QueueStutterKeeps DEF queueVars, workerVars, Pushed, StreamInv
  <1>4. entry # Last => /\ entry \in 1 .. NumChunks /\ entry = Len(written) + 1
                        /\ written' \in Seq(1 .. NumChunks)
                        /\ Len(written') = Len(written) + 1
                        /\ written'[Len(written) + 1] = entry
                        /\ \A i \in 1 .. Len(written) : written'[i] = written[i]
    <2> SUFFICES ASSUME entry # Last
                 PROVE  /\ entry \in 1 .. NumChunks /\ entry = Len(written) + 1
                        /\ written' \in Seq(1 .. NumChunks)
                        /\ Len(written') = Len(written) + 1
                        /\ written'[Len(written) + 1] = entry
                        /\ \A i \in 1 .. Len(written) : written'[i] = written[i]
      OBVIOUS
    <2>1. entry \in 1 .. NumChunks
      BY <1>2
    <2>2. entry = Len(written) + 1
      BY <2>1 DEF StreamInv, MainHolds
    <2>3. written' = Append(written, entry) /\ written \in Seq(1 .. NumChunks)
      BY <1>1, <1>2
    <2> QED
      BY <2>1, <2>2, <2>3
  <1>5. StreamTypeOK'
    <2>1. /\ entry' \in 0 .. Nothing /\ main' \in {"exitflag", "drain"}
          /\ written' \in Seq(1 .. NumChunks)
      BY <1>1, <1>2, <1>4
    <2>2. bDone' \in BOOLEAN
      BY <1>1 DEF StreamInv, StreamTypeOK
    <2> QED
      BY <1>1, <1>3, <2>1, <2>2 DEF StreamInv, StreamTypeOK, QueueInv, workerVars
  <1>6. InHand' = 0 /\ InHand = IF entry = Last THEN 0 ELSE 1
    BY <1>1, <1>2 DEF InHand
  <1>7. Len(written') + InHand' = Len(written) + InHand
    BY <1>1, <1>2, <1>4, <1>6
  <1>8. LastOut' <=> LastOut
    BY <1>1, <1>2, <1>3 DEF LastOut
  <1>9. WorkerHolds'
    BY <1>1, <1>8 DEF StreamInv, WorkerHolds, workerVars
  <1>10. QueueRuns'
    BY <1>1, <1>3 DEF StreamInv, QueueRuns, queueVars
  <1>11. \A i \in 1 .. Len(written') : written'[i] = i
    BY <1>1, <1>2, <1>4 DEF StreamInv, WrittenRuns
  <1>12. WrittenRuns'
    BY <1>1, <1>2, <1>3, <1>7, <1>11 DEF StreamInv, WrittenRuns
  <1>13. MainHolds'
    BY <1>1, <1>2 DEF StreamInv, MainHolds, queueVars
  <1>14. WorkerEnds'
    BY <1>1, <1>8 DEF StreamInv, WorkerEnds, workerVars
  <1>15. MainEnds'
    BY <1>1 DEF MainEnds
  <1> QED
    BY <1>3, <1>5, <1>9, <1>10, <1>12, <1>13, <1>14, <1>15 DEF StreamInv

(* A failed write drops the chunk, and the error is kept.                  *)
LEMMA MainWriteFailedKeeps ==
    ASSUME StreamInv, MainWriteFailed
    PROVE  StreamInv'
  <1>1. /\ main = "write" /\ main' = "exitflag" /\ entry # Last /\ entry' = Nothing
        /\ dwMainThreadError' = "disk"
        /\ UNCHANGED <<queueVars, workerVars, written, bDone, result, bTerminate, bAbort>>
    BY DEF MainWriteFailed, UnchangedByMain
  <1>2. /\ NumChunks \in Nat /\ Last = 0 /\ Nothing = NumChunks + 1
        /\ Len(written) \in Nat /\ Chunks \in Int /\ Pushed \in Int
        /\ entry \in 0 .. NumChunks
    BY <1>1, StreamAssumption
       DEF StreamInv, StreamTypeOK, QueueTypeOK, MainHolds, Last, Nothing, Chunks, Pushed
  <1>3. LastIn' = LastIn /\ Chunks' = Chunks /\ Pushed' = Pushed /\ QueueInv'
    BY <1>1, ChunksKept, QueueStutterKeeps DEF queueVars, workerVars, Pushed, StreamInv
  <1>4. StreamTypeOK'
    BY <1>1, <1>2, <1>3 DEF StreamInv, StreamTypeOK, QueueInv, workerVars, Errors
  <1>5. InHand' = 0 /\ InHand \in {0, 1}
    BY <1>1, <1>2 DEF InHand
  <1>6. LastOut' <=> LastOut
    BY <1>1, <1>2, <1>3 DEF LastOut
  <1>7. WorkerHolds'
    BY <1>1, <1>6 DEF StreamInv, WorkerHolds, workerVars
  <1>8. QueueRuns'
    BY <1>1, <1>3 DEF StreamInv, QueueRuns, queueVars
  <1>9. Len(written') + InHand' <= Pushed' - Chunks'
    BY <1>1, <1>2, <1>3, <1>5 DEF StreamInv, WrittenRuns
  <1>10. WrittenRuns'
    BY <1>1, <1>9 DEF StreamInv, WrittenRuns
  <1>11. MainHolds'
    BY <1>1, <1>2 DEF StreamInv, MainHolds, queueVars
  <1>12. WorkerEnds'
    BY <1>1, <1>6 DEF StreamInv, WorkerEnds, workerVars
  <1>13. MainEnds'
    BY <1>1 DEF MainEnds
  <1> QED
    BY <1>3, <1>4, <1>7, <1>8, <1>10, <1>11, <1>12, <1>13 DEF StreamInv

(* The event of the calling thread is not a producer's.                    *)
LEMMA MainWaitKeeps ==
    ASSUME StreamInv, MainWait
    PROVE  StreamInv'
  <1>1. /\ main = "wait" /\ signalled' = signalled \ {MsgEvent}
        /\ \/ main' = "kill" /\ dwMainThreadError' = "aborted"
           \/ main' = "drain" /\ dwMainThreadError' = dwMainThreadError
        /\ UNCHANGED <<queue, prod, linked, aborts, entry, written, bDone, result,
                       bTerminate, workerVars, bAbort>>
    BY DEF MainWait, Leave, UnchangedByMain
  <1>2. MsgEvent \notin Producers
    BY StreamAssumption, QueueAssumption
  <1>3. QueueInv'
    BY <1>1, <1>2 DEF StreamInv, QueueInv, QueueTypeOK, CommittedBound, Pushing,
                      LinkedWhileWaiting, NoLostWakeup
  <1>4. StreamTypeOK'
    BY <1>1, <1>3 DEF StreamInv, StreamTypeOK, QueueInv, workerVars, Errors
  <1>5. dwMainThreadError = "none"
    BY <1>1 DEF StreamInv, WrittenRuns
  <1>6. MainEnds'
    BY <1>1 DEF MainEnds
  <1> QED
    BY <1>1, <1>3, <1>4, <1>5, <1>6, MainMoves

LEMMA MainWaitFailedKeeps ==
    ASSUME StreamInv, MainWaitFailed
    PROVE  StreamInv'
  <1>1. /\ main = "wait" /\ main' = "kill" /\ dwMainThreadError' = "wait"
        /\ UNCHANGED <<queueVars, workerVars, entry, written, bDone, result,
                       bTerminate, bAbort>>
    BY DEF MainWaitFailed, Leave, UnchangedByMain
  <1>2. QueueInv'
    BY <1>1, QueueStutterKeeps DEF StreamInv
  <1>3. StreamTypeOK'
    BY <1>1, <1>2 DEF StreamInv, StreamTypeOK, QueueInv, workerVars, Errors
  <1>4. MainEnds'
    BY <1>1 DEF MainEnds
  <1>5. UNCHANGED queue
    BY <1>1 DEF queueVars
  <1> QED
    BY <1>1, <1>2, <1>3, <1>4, <1>5, MainMoves

LEMMA DrainTestKeeps ==
    ASSUME StreamInv, DrainTest
    PROVE  StreamInv'
  <1>1. /\ main = "drain" /\ main' \in {"exitflag", "pop"}
        /\ UNCHANGED <<queueVars, workerVars, entry, written, bDone, dwMainThreadError,
                       result, bTerminate, bAbort>>
    BY DEF DrainTest, UnchangedByMain
  <1>2. QueueInv' /\ UNCHANGED queue
    BY <1>1, QueueStutterKeeps DEF StreamInv, queueVars
  <1>3. StreamTypeOK'
    BY <1>1, <1>2 DEF StreamInv, StreamTypeOK, QueueInv, workerVars
  <1>4. dwMainThreadError = "none"
    BY <1>1 DEF StreamInv, WrittenRuns
  <1>5. MainEnds'
    BY <1>1 DEF MainEnds
  <1> QED
    BY <1>1, <1>2, <1>3, <1>4, <1>5, MainMoves

LEMMA ExitFlagTestKeeps ==
    ASSUME StreamInv, ExitFlagTest
    PROVE  StreamInv'
  <1>1. /\ main = "exitflag"
        /\ \/ main' = "kill" /\ dwMainThreadError' = "aborted"
           \/ main' = "kill" /\ dwMainThreadError # "none"
              /\ dwMainThreadError' = dwMainThreadError
           \/ main' = "done" /\ dwMainThreadError = "none"
              /\ dwMainThreadError' = dwMainThreadError
        /\ UNCHANGED <<queueVars, workerVars, entry, written, bDone, result,
                       bTerminate, bAbort>>
    BY DEF ExitFlagTest, Leave, UnchangedByMain
  <1>2. QueueInv' /\ UNCHANGED queue
    BY <1>1, QueueStutterKeeps DEF StreamInv, queueVars
  <1>3. StreamTypeOK'
    BY <1>1, <1>2 DEF StreamInv, StreamTypeOK, QueueInv, workerVars, Errors
  <1>4. MainEnds'
    BY <1>1 DEF MainEnds
  <1> QED
    BY <1>1, <1>2, <1>3, <1>4, MainMoves

LEMMA DoneTestKeeps ==
    ASSUME StreamInv, DoneTest
    PROVE  StreamInv'
  <1>1. /\ main = "done" /\ main' \in {"kill", "wait"}
        /\ main' = "kill" => bWorkerDone \/ Error # "none" \/ bDone
        /\ UNCHANGED <<queueVars, workerVars, entry, written, bDone, dwMainThreadError,
                       result, bTerminate, bAbort>>
    BY DEF DoneTest, UnchangedByMain
  <1>2. QueueInv' /\ UNCHANGED queue
    BY <1>1, QueueStutterKeeps DEF StreamInv, queueVars
  <1>3. StreamTypeOK'
    BY <1>1, <1>2 DEF StreamInv, StreamTypeOK, QueueInv, workerVars
  <1>4. dwMainThreadError = "none"
    BY <1>1 DEF StreamInv, WrittenRuns
  <1>5. MainEnds'
    BY <1>1 DEF MainEnds, workerVars
  <1> QED
    BY <1>1, <1>2, <1>3, <1>4, <1>5, MainMoves

LEMMA MainKillKeeps ==
    ASSUME StreamInv, MainKill
    PROVE  StreamInv'
  <1>1. /\ main = "kill" /\ main' = "join" /\ bTerminate' = TRUE
        /\ UNCHANGED <<queueVars, workerVars, entry, written, bDone, dwMainThreadError,
                       result, bAbort>>
    BY DEF MainKill, UnchangedByMain
  <1>2. QueueInv' /\ UNCHANGED queue
    BY <1>1, QueueStutterKeeps DEF StreamInv, queueVars
  <1>3. StreamTypeOK'
    BY <1>1, <1>2 DEF StreamInv, StreamTypeOK, QueueInv, workerVars
  <1>4. MainEnds'
    BY <1>1 DEF StreamInv, MainEnds, workerVars
  <1> QED
    BY <1>1, <1>2, <1>3, <1>4, MainMoves

(* KillThreadWait has returned: the worker's error, or the calling         *)
(* thread's.                                                               *)
LEMMA MainReturnsKeeps ==
    ASSUME StreamInv, MainReturns
    PROVE  StreamInv'
  <1>1. /\ main = "join" /\ main' = "returned" /\ ~IfActive
        /\ result' = IF dwMainThreadError = "none" \/ Error # "none"
                       THEN Error ELSE dwMainThreadError
        /\ UNCHANGED <<queueVars, workerVars, entry, written, bDone, dwMainThreadError,
                       bTerminate, bAbort>>
    BY DEF MainReturns, UnchangedByMain
  <1>2. QueueInv' /\ UNCHANGED queue
    BY <1>1, QueueStutterKeeps DEF StreamInv, queueVars
  <1>3. result' \in Errors
    BY <1>1 DEF StreamInv, StreamTypeOK
  <1>4. StreamTypeOK'
    BY <1>1, <1>2, <1>3 DEF StreamInv, StreamTypeOK, QueueInv, workerVars
  <1>5. MainEnds'
    BY <1>1 DEF StreamInv, MainEnds, IfActive, workerVars
  <1> QED
    BY <1>1, <1>2, <1>4, <1>5, MainMoves

(* The abort of the connection and AllTerminate() only set their flags.    *)
LEMMA OutsideKeeps ==
    ASSUME StreamInv, AbortRequested \/ AllTerminate
    PROVE  StreamInv'
  <1>1. /\ UNCHANGED <<queueVars, workerVars, mainVars>>
        /\ bAbort' \in BOOLEAN /\ bTerminate' \in BOOLEAN
    BY DEF AbortRequested, AllTerminate, StreamInv, StreamTypeOK
  <1>2. QueueInv' /\ UNCHANGED queue
    BY <1>1, QueueStutterKeeps DEF StreamInv, queueVars
  <1>3. StreamTypeOK'
    BY <1>1, <1>2 DEF StreamInv, StreamTypeOK, QueueInv, workerVars, mainVars
  <1> QED
    BY <1>1, <1>2, <1>3, NeitherMoves

-----------------------------------------------------------------------------
LEMMA InitStreamInv == StreamInit => StreamInv
  <1> SUFFICES ASSUME StreamInit
               PROVE  StreamInv
    OBVIOUS
  <1>1. QueueInv /\ queue = << >> /\ Len(queue) = 0
    BY InitQueueInv DEF StreamInit, QueueInit
  <1>2. NumChunks \in Nat /\ Last = 0 /\ Nothing = NumChunks + 1 /\ NoLength = NumChunks + 1
    BY StreamAssumption DEF Last, Nothing, NoLength
  <1>3. worker \in {"start", "failed"}
    BY DEF StreamInit
  <1>4. StreamTypeOK
    <2>1. /\ length \in 0 .. NoLength /\ received \in 0 .. NumChunks
          /\ hold \in 0 .. Nothing /\ entry \in 0 .. Nothing
          /\ written \in Seq(1 .. NumChunks)
      BY <1>2 DEF StreamInit
    <2>2. /\ {bTerminate, bWorkerDone, bDone, bAbort} \subseteq BOOLEAN
          /\ {Error, dwMainThreadError, result} \subseteq Errors
      BY DEF StreamInit, Errors
    <2> QED
      BY <1>1, <1>3, <2>1, <2>2 DEF StreamInit, StreamTypeOK, QueueInv
  <1>5. ~LastIn /\ Chunks = 0 /\ ~LastOut /\ Pushed = 0 /\ InHand = 0
    BY <1>1, <1>2, <1>3 DEF StreamInit, LastIn, Chunks, LastOut, Pushed, InHand
  <1>6. WorkerHolds /\ QueueRuns /\ MainHolds /\ WorkerEnds /\ MainEnds
    BY <1>1, <1>2, <1>3, <1>5
       DEF StreamInit, WorkerHolds, QueueRuns, MainHolds, WorkerEnds, MainEnds
  <1>7. written = << >> /\ Len(written) = 0 /\ dwMainThreadError = "none"
    BY DEF StreamInit
  <1>8. WrittenRuns
    BY <1>5, <1>7 DEF WrittenRuns
  <1> QED
    BY <1>1, <1>4, <1>6, <1>8 DEF StreamInv

LEMMA StreamNextKeeps == StreamInv /\ [StreamNext]_streamVars => StreamInv'
  <1> SUFFICES ASSUME StreamInv, [StreamNext]_streamVars
               PROVE  StreamInv'
    OBVIOUS
  <1>1. CASE WorkerStep
    BY <1>1, WorkerStartsKeeps, WorkerFailsKeeps, WorkerHangsKeeps, HeadersReceivedKeeps,
       ReceiveChunkKeeps,
       ReceiveEndKeeps, ReceiveErrorEndKeeps, PushWaitsKeeps, PushEntryKeeps,
       ReceiveCompleteKeeps, WorkerExitsKeeps DEF WorkerStep
  <1>2. CASE MainStep
    BY <1>2, MainWaitKeeps, MainWaitFailedKeeps, DrainTestKeeps, MainPopKeeps,
       MainWriteKeeps, MainWriteFailedKeeps, ExitFlagTestKeeps, DoneTestKeeps,
       MainKillKeeps, MainReturnsKeeps DEF MainStep
  <1>3. CASE AbortRequested \/ AllTerminate
    BY <1>3, OutsideKeeps
  <1>4. CASE UNCHANGED streamVars
    <2>1. UNCHANGED <<queueVars, queue, workerVars, mainVars, bTerminate, bAbort>>
      BY <1>4 DEF streamVars, queueVars
    <2>2. QueueInv'
      BY <2>1, QueueStutterKeeps DEF StreamInv
    <2>3. StreamTypeOK'
      BY <2>1, <2>2 DEF StreamInv, StreamTypeOK, QueueInv, workerVars, mainVars
    <2> QED
      BY <2>1, <2>2, <2>3, NeitherMoves
  <1> QED
    BY <1>1, <1>2, <1>3, <1>4 DEF StreamNext

(* The inductive invariant of S3Read: what is received is written, in the  *)
(* queue between its two threads or in the hands of one of them.           *)
THEOREM StreamInductive == StreamSpec => []StreamInv
  BY InitStreamInv, StreamNextKeeps, PTL DEF StreamSpec

(* Both threads of S3Read keep the types of its state.                     *)
THEOREM StreamTypeCorrect == StreamSpec => []StreamTypeOK
  <1>1. StreamInv => StreamTypeOK
    BY DEF StreamInv
  <1> QED
    BY <1>1, StreamInductive, PTL

(* The queue between the two threads of S3Read stays within its bound, and *)
(* the worker never sleeps in WaitForQueue with room for its entry.        *)
THEOREM StreamQueueHolds == StreamSpec => [](QueueBound /\ NoLostWakeup)
  <1>1. StreamInv => QueueBound /\ NoLostWakeup
    <2> SUFFICES ASSUME StreamInv
                 PROVE  QueueBound /\ NoLostWakeup
      OBVIOUS
    <2> QED
      BY Numbers DEF StreamInv, QueueInv, CommittedBound, QueueBound
  <1> QED
    BY <1>1, StreamInductive, PTL

(* S3Read's success is real: good status, announced length, no error of    *)
(* either thread, and a file that is whole when the last entry was met.    *)
THEOREM SuccessIsRealHolds == StreamSpec => []SuccessIsReal
  <1>1. StreamInv => SuccessIsReal
    <2> SUFFICES ASSUME StreamInv, main = "returned", result = "none"
                 PROVE  /\ bWorkerDone /\ status = 200 /\ length \in {received, NoLength}
                        /\ dwMainThreadError = "none"
                        /\ bDone => written = AllReceived
      BY DEF SuccessIsReal
    <2>1. Error = "none" /\ dwMainThreadError = "none" /\ ~IfActive
      BY DEF StreamInv, MainEnds
    <2>2. bDone => worker = "exited"
      BY <2>1 DEF StreamInv, WorkerHolds, LastOut, IfActive
    <2>3. bWorkerDone
      BY <2>1, <2>2 DEF StreamInv, MainEnds, WorkerEnds, LastOut
    <2>4. status = 200 /\ length \in {received, NoLength}
      BY <2>1, <2>3 DEF StreamInv, WorkerEnds
    <2>5. bDone => written = AllReceived
      <3> SUFFICES ASSUME bDone
                   PROVE  written = AllReceived
        OBVIOUS
      <3>1. queue = << >> /\ entry = Nothing
        BY DEF StreamInv, MainHolds
      <3>2. NumChunks \in Nat /\ received \in Nat /\ written \in Seq(1 .. NumChunks)
        BY StreamAssumption DEF StreamInv, StreamTypeOK
      <3>3. Chunks = 0 /\ Pushed = received /\ InHand = 0
        BY <2>2, <3>1, <3>2 DEF Chunks, LastIn, Pushed, InHand, Nothing
      <3>4. Len(written) = received /\ \A i \in 1 .. Len(written) : written[i] = i
        BY <2>1, <3>2, <3>3 DEF StreamInv, WrittenRuns
      <3> QED
        BY <3>2, <3>4 DEF AllReceived
    <2> QED
      BY <2>1, <2>3, <2>4, <2>5
  <1> QED
    BY <1>1, StreamInductive, PTL

-----------------------------------------------------------------------------
(* The refinement of Transfer.                                             *)

(* One more chunk received extends what has been received.                 *)
LEMMA ReceivedGrows ==
    ASSUME received \in Nat, received' = received + 1
    PROVE  /\ AllReceived' # AllReceived
           /\ Download!IsPrefixOf(AllReceived, AllReceived')
  <1>1. /\ AllReceived \in Seq(Nat) /\ Len(AllReceived) = received
        /\ AllReceived' \in Seq(Nat) /\ Len(AllReceived') = received + 1
    BY DEF AllReceived
  <1>2. \A i \in 1 .. received : AllReceived[i] = i /\ AllReceived'[i] = i
    BY DEF AllReceived
  <1>3. AllReceived = SubSeq(AllReceived', 1, received)
    BY <1>1, <1>2
  <1> QED
    BY <1>1, <1>3 DEF Download!IsPrefixOf

(* What is written is the beginning of what has been received.             *)
LEMMA WrittenIsPrefix ==
    ASSUME StreamInv
    PROVE  Download!IsPrefixOf(written, AllReceived)
  <1>1. /\ received \in Nat /\ written \in Seq(Nat) /\ Len(written) \in Nat
        /\ Chunks \in Nat /\ InHand \in Nat /\ Pushed \in Int /\ Pushed <= received
    BY StreamAssumption
       DEF StreamInv, StreamTypeOK, QueueTypeOK, Chunks, LastIn, InHand, Pushed
  <1>2. Len(written) <= received /\ \A i \in 1 .. Len(written) : written[i] = i
    BY <1>1 DEF StreamInv, WrittenRuns
  <1>3. /\ AllReceived \in Seq(Nat) /\ Len(AllReceived) = received
        /\ \A i \in 1 .. received : AllReceived[i] = i
    BY <1>1 DEF AllReceived
  <1>4. written = SubSeq(AllReceived, 1, Len(written))
    BY <1>1, <1>2, <1>3
  <1> QED
    BY <1>2, <1>3, <1>4 DEF Download!IsPrefixOf

(* A step that neither receives, writes nor returns.                       *)
LEMMA StreamStutters ==
    ASSUME UNCHANGED <<received, written, result>>,
           main = "returned" <=> main' = "returned"
    PROVE  UNCHANGED Download!transferVars
  BY DEF Download!transferVars, AllReceived

LEMMA WorkerRefines ==
    ASSUME StreamInv, WorkerStep
    PROVE  [Download!TransferNext]_Download!transferVars
  <1>1. CASE ReceiveChunk
    <2>1. received \in Nat /\ received' = received + 1 /\ main # "returned"
          /\ UNCHANGED mainVars
      BY <1>1, StreamAssumption
         DEF ReceiveChunk, UnchangedByWorker, StreamInv, StreamTypeOK, MainEnds, IfActive
    <2>2. Download!Take
      BY <2>1, ReceivedGrows DEF Download!Take, mainVars
    <2> QED
      BY <2>2 DEF Download!TransferNext
  <1>2. CASE ~ReceiveChunk
    <2>1. UNCHANGED <<received, mainVars>>
      BY <1>2 DEF WorkerStep, WorkerStarts, WorkerFails, WorkerHangs, HeadersReceived, ReceiveEnd,
         ReceiveErrorEnd, PushWaits, PushEntry, ReceiveComplete, WorkerExits,
         UnchangedByWorker, workerVars
    <2>2. UNCHANGED <<received, written, result, main>>
      BY <2>1 DEF mainVars
    <2>3. UNCHANGED Download!transferVars
      BY <2>2, StreamStutters
    <2> QED
      BY <2>3
  <1> QED
    BY <1>1, <1>2

LEMMA MainRefines ==
    ASSUME StreamInv, StreamInv', MainStep
    PROVE  [Download!TransferNext]_Download!transferVars
  <1>1. UNCHANGED received
    BY DEF MainStep, MainWait, MainWaitFailed, DrainTest, MainPop, MainWrite,
       MainWriteFailed, ExitFlagTest, DoneTest, MainKill, MainReturns, UnchangedByMain,
       workerVars
  <1>2. AllReceived' = AllReceived
    BY <1>1 DEF AllReceived
  <1>3. CASE MainWrite /\ entry # Last
    <2>1. /\ main = "write" /\ main' = "drain" /\ written' = Append(written, entry)
          /\ UNCHANGED result
      BY <1>3 DEF MainWrite
    <2>2. entry \in Items /\ Items = Last .. NumChunks /\ written \in Seq(Items)
      BY <2>1, StreamAssumption DEF StreamInv, StreamTypeOK, MainHolds, Last
    <2>3. /\ Len(written) \in Nat /\ Len(written') = Len(written) + 1
          /\ written' \in Seq(Items)
          /\ \A i \in 1 .. Len(written) : written'[i] = written[i]
      BY <2>1, <2>2
    <2>4. written' # written /\ written = SubSeq(written', 1, Len(written))
      BY <2>2, <2>3
    <2>5. Download!IsPrefixOf(written, written')
      BY <2>3, <2>4 DEF Download!IsPrefixOf
    <2>6. Download!IsPrefixOf(written', AllReceived)
      <3>1. Download!IsPrefixOf(written, AllReceived)'
        BY WrittenIsPrefix, PTL
      <3> QED
        BY <1>2, <3>1 DEF Download!IsPrefixOf
    <2>7. Download!Write
      BY <1>2, <2>1, <2>4, <2>5, <2>6 DEF Download!Write
    <2> QED
      BY <2>7 DEF Download!TransferNext
  <1>4. CASE MainReturns
    <2>1. main # "returned" /\ main' = "returned" /\ UNCHANGED written
      BY <1>4 DEF MainReturns
    <2>2. Download!End
      BY <1>2, <2>1 DEF Download!End
    <2> QED
      BY <2>2 DEF Download!TransferNext
  <1>5. CASE ~(MainWrite /\ entry # Last) /\ ~MainReturns
    <2>1. UNCHANGED <<written, result>> /\ main # "returned" /\ main' # "returned"
      BY <1>5 DEF MainStep, MainWait, MainWaitFailed, DrainTest, MainPop, MainWrite,
         MainWriteFailed, ExitFlagTest, DoneTest, MainKill, Leave
    <2> QED
      BY <1>1, <2>1, StreamStutters
  <1> QED
    BY <1>3, <1>4, <1>5

LEMMA StreamStepRefines ==
    StreamInv /\ StreamInv' /\ [StreamNext]_streamVars
        => [Download!TransferNext]_Download!transferVars
  <1> SUFFICES ASSUME StreamInv, StreamInv', [StreamNext]_streamVars
               PROVE  [Download!TransferNext]_Download!transferVars
    OBVIOUS
  <1>1. CASE WorkerStep
    BY <1>1, WorkerRefines
  <1>2. CASE MainStep
    BY <1>2, MainRefines
  <1>3. CASE AbortRequested \/ AllTerminate \/ UNCHANGED streamVars
    <2>1. UNCHANGED <<received, mainVars>>
      BY <1>3 DEF AbortRequested, AllTerminate, streamVars, workerVars
    <2>2. UNCHANGED <<received, written, result, main>>
      BY <2>1 DEF mainVars
    <2>3. UNCHANGED Download!transferVars
      BY <2>2, StreamStutters
    <2> QED
      BY <2>3
  <1> QED
    BY <1>1, <1>2, <1>3 DEF StreamNext

LEMMA StreamInitRefines == StreamInit => Download!TransferInit
  BY DEF StreamInit, Download!TransferInit, AllReceived

(* S3Read implements Transfer: the file gets the chunks received, in       *)
(* order, none lost or doubled, whatever fails, and nothing once it has    *)
(* returned.                                                               *)
THEOREM DownloadRefines == StreamSpec => DownloadsInOrder
  <1>1. StreamInit /\ [][StreamNext]_streamVars => []StreamInv
    BY StreamInductive DEF StreamSpec
  <1> QED
    BY <1>1, StreamStepRefines, StreamInitRefines, PTL
       DEF StreamSpec, DownloadsInOrder, Download!TransferSpec

=============================================================================
