------------------------------ MODULE MultiPart -----------------------------
(***************************************************************************)
(* DoS3MultiPartUpload (FileSupport.cpp) and the four requests it makes    *)
(* (S3MultiPartInitiate, -Upload, -Complete, -Abort in ECSConnection.cpp): *)
(* the file is cut into parts, the calling thread reads it and feeds the   *)
(* queue of every part that is being uploaded, the threads of a pool       *)
(* upload the parts, and a part that fails is tried again.                 *)
(*                                                                         *)
(* Record i of the file is the number i; sizes and offsets are in records. *)
(* The pool is reduced to what this code sees of it: a first-in first-out  *)
(* queue of messages that keeps a message until its thread has come back   *)
(* from DoProcess and taken it off.                                        *)
(***************************************************************************)
EXTENDS Integers, Sequences, FiniteSets

CONSTANTS Cases,           \* sizes of the file and of the pool: pairs
          PartSize,        \* dwPartSize
          MinPartSize,     \* five megabytes
          MaxParts,        \* dwMaxParts
          Ahead,           \* messages in the pool beyond its threads (4)
          MaxQueueSize,    \* dwMaxQueueSize
          MaxRetries,      \* dwMaxRetries
          FileMayShrink    \* whether the file may be truncated meanwhile

ASSUME MultiPartAssumption ==
    /\ Cases \subseteq Nat \X (Nat \ {0})
    /\ {PartSize, MinPartSize, MaxQueueSize, Ahead} \subseteq Nat \ {0}
    /\ MaxParts \in Nat \ {0, 1}
    /\ MaxRetries \in Nat
    /\ FileMayShrink \in BOOLEAN

VARIABLES size,            \* FileStat.cbSize
          dwMaxThreads,    \* the threads of the pool
          fileEnd,         \* where a Read ends now
          part,            \* S3PartList: a record for each part
          pending,         \* PendingList: messages [part, done, err]
          msgs,            \* the pool's messages up to bComplete: parts, oldest first
          worker,          \* the threads of the pool
          main,            \* where the calling thread is
          cur,             \* the part, or pending entry, it is looking at
          bDeleted,        \* bDeletedAtLeastOneEntry
          thrown,          \* whether an error was thrown
          bAbort,          \* what Conn.TestAbort() says
          upload,          \* the upload at the server
          stored,          \* the parts the server has
          lost,            \* the initiate or abort request itself failed
          result           \* what DoS3MultiPartUpload returned

partVars == <<part, pending, msgs>>
serverVars == <<upload, stored, lost>>
mainVars == <<main, cur, bDeleted, thrown, result>>
uploadVars == <<size, dwMaxThreads, fileEnd, partVars, worker, mainVars, bAbort, serverVars>>

MaxThreads == CHOOSE n \in {c[2] : c \in Cases} : \A c \in Cases : c[2] <= n

-----------------------------------------------------------------------------
(* ullPartLength: a longer part when there would be too many.              *)
PartLength(fileSize) ==
    IF fileSize \div PartSize > MaxParts THEN fileSize \div (MaxParts - 1) ELSE PartSize

(* Whether the file is uploaded in parts at all.                           *)
InParts(fileSize) ==
    /\ fileSize >= PartSize
    /\ PartLength(fileSize) >= MinPartSize
    /\ fileSize > PartLength(fileSize)

(* Seeded fault: the rest of the file has no part.                         *)
PartCountRounded(fileSize) == fileSize \div PartLength(fileSize)

(* The part list: parts of that length, and the rest of the file.          *)
PartCount(fileSize) ==
    (fileSize + PartLength(fileSize) - 1) \div PartLength(fileSize)

NewPart(base, length) ==
    [base |-> base, length |-> length, bInProcess |-> FALSE, bComplete |-> FALSE,
     retry |-> 0, cursor |-> 0, queue |-> << >>, sETag |-> FALSE]

S3PartList(fileSize) ==
    [p \in 1 .. PartCount(fileSize) |->
        LET base == (p - 1) * PartLength(fileSize)
            rest == fileSize - base
        IN  NewPart(base, IF rest < PartLength(fileSize) THEN rest ELSE PartLength(fileSize))]

Workers == 1 .. dwMaxThreads

Idle == [pc |-> "idle", part |-> 0, data |-> << >>, err |-> FALSE]

UploadInit ==
    /\ \E c \in Cases : size = c[1] /\ dwMaxThreads = c[2]
    /\ fileEnd = size
    /\ part = IF InParts(size) THEN S3PartList(size) ELSE << >>
    /\ pending = << >> /\ msgs = << >>
    /\ worker = [w \in Workers |-> Idle]
    /\ main = IF InParts(size) THEN "initiate" ELSE "returned"
    /\ cur = 1 /\ bDeleted = FALSE /\ thrown = FALSE /\ bAbort = FALSE
    /\ upload = "none" /\ stored = [p \in DOMAIN part |-> << >>] /\ lost = FALSE
    /\ result = IF InParts(size) THEN "none" ELSE "declined"

MultiPartTypeOK ==
    /\ <<size, dwMaxThreads>> \in Cases /\ fileEnd \in 0 .. size
    /\ \A p \in DOMAIN part : part[p].queue \in Seq([rec : Nat, bLast : BOOLEAN])
    /\ pending \in Seq([part : DOMAIN part, done : BOOLEAN, err : BOOLEAN])
    /\ msgs \in Seq(DOMAIN part)
    /\ main \in {"initiate", "dispatch", "wait", "harvest", "feed", "complete",
                 "abort", "terminate", "returned", "hung"}
    /\ upload \in {"none", "open", "completed", "aborted"}
    /\ result \in {"none", "declined", "success", "failed"}

-----------------------------------------------------------------------------
(* The calling thread.                                                     *)

UnchangedByMain == UNCHANGED <<size, dwMaxThreads, fileEnd, bAbort>>

Throw == main' = "abort" /\ thrown' = TRUE /\ UNCHANGED <<cur, bDeleted, result>>

(* The request is answered, or fails: then no abort is tried, although the *)
(* server may have begun the upload before the answer was lost.  Or it     *)
(* never returns: its set-up fails in a state of the connection that no    *)
(* callback has used yet (WaitForCallbackDone).                            *)
S3MultiPartInitiate ==
    /\ main = "initiate"
    /\ \/ upload' = "open" /\ main' = "dispatch" /\ UNCHANGED <<thrown, result, lost>>
       \/ /\ main' = "terminate" /\ thrown' = TRUE /\ result' = "failed"
          /\ upload' \in {"none", "open"}
          /\ lost' = TRUE
       \/ main' = "hung" /\ UNCHANGED <<upload, thrown, result, lost>>
    /\ UNCHANGED <<partVars, worker, cur, bDeleted, stored>>
    /\ UnchangedByMain

(* Seeded fault: the file is not positioned at the part.                   *)
EntriesUnseeked(p, from, n) ==
    [i \in 1 .. n |-> [rec |-> from + i, bLast |-> from + i = part[p].length]]

(* Records [from, from + n) of the file as stream entries of a part; a     *)
(* read beyond the end of a file that has shrunk is an empty entry (0).    *)
Entries(p, from, n) ==
    [i \in 1 .. n |->
        LET rec == part[p].base + from + i IN
        [rec |-> IF rec <= fileEnd THEN rec ELSE 0,
         bLast |-> rec <= fileEnd /\ from + i = part[p].length]]

Read(entries) == Cardinality({i \in DOMAIN entries : entries[i].rec # 0})

Least(m, n) == IF m < n THEN m ELSE n

(* Seeded fault: a part that is in process is taken again.                 *)
ReadyAlways(p) == ~part[p].bComplete

Ready(p) == ~part[p].bComplete /\ ~part[p].bInProcess

(* GetMsgQueueCount: the messages, and those on their way out.             *)
MsgQueueCount == Len(msgs) + Cardinality({w \in Workers : worker[w].pc = "leave"})

(* The part list is walked; an entry is given to the pool, with the first  *)
(* records of its data, unless the pool has enough.                        *)
DispatchPart ==
    /\ main = "dispatch" /\ cur \in DOMAIN part
    /\ IF ~Ready(cur)
         THEN cur' = cur + 1 /\ UNCHANGED <<main, thrown, bDeleted, result, partVars>>
       ELSE IF MsgQueueCount >= dwMaxThreads + Ahead
         THEN /\ cur' = Len(part) + 1
              /\ UNCHANGED <<main, thrown, bDeleted, result, partVars>>
       ELSE IF bAbort THEN Throw /\ UNCHANGED partVars
       ELSE LET first == Entries(cur, 0, Least(MaxQueueSize, part[cur].length)) IN
            /\ part' = [part EXCEPT ![cur].bInProcess = TRUE, ![cur].queue = first,
                                    ![cur].cursor = Read(first)]
            /\ pending' = Append(pending, [part |-> cur, done |-> FALSE, err |-> FALSE])
            /\ msgs' = Append(msgs, cur)
            /\ cur' = cur + 1
            /\ UNCHANGED <<main, thrown, bDeleted, result>>
    /\ UNCHANGED <<worker, serverVars>>
    /\ UnchangedByMain

(* Seek or Read fails while a part is started or fed.                      *)
ReadFails ==
    /\ \/ main = "dispatch" /\ cur \in DOMAIN part /\ Ready(cur)
       \/ main = "feed"
    /\ Throw
    /\ UNCHANGED <<partVars, worker, serverVars>>
    /\ UnchangedByMain

DispatchEnds ==
    /\ main = "dispatch" /\ cur > Len(part)
    /\ main' = IF \A p \in DOMAIN part : part[p].bComplete THEN "complete" ELSE "wait"
    /\ UNCHANGED <<partVars, worker, cur, bDeleted, thrown, result, serverVars>>
    /\ UnchangedByMain

(* The wait for the events of the pending entries ends, after five seconds *)
(* at the latest.                                                          *)
WaitEvents ==
    /\ main = "wait"
    /\ IF bAbort THEN Throw
       ELSE main' = "harvest" /\ cur' = 1 /\ bDeleted' = FALSE /\ UNCHANGED <<thrown, result>>
    /\ UNCHANGED <<partVars, worker, serverVars>>
    /\ UnchangedByMain

Without(seq, i) == SubSeq(seq, 1, i - 1) \o SubSeq(seq, i + 1, Len(seq))

RetriesLeft(p) == part[p].retry < MaxRetries

(* Seeded fault: the retry is not counted.                                 *)
ResetPartUncounted(p) ==
    [part EXCEPT ![p].bInProcess = FALSE, ![p].queue = << >>, ![p].cursor = 0]

ResetPart(p) ==
    [part EXCEPT ![p].bInProcess = FALSE, ![p].retry = @ + 1,
                 ![p].queue = << >>, ![p].cursor = 0]

(* A pending entry, under csPendingList: complete with an error, it is     *)
(* reset to be tried again or the error thrown; complete with success, its *)
(* part is complete; otherwise its queue is fed, without the lock.         *)
Harvest ==
    /\ main = "harvest" /\ cur \in DOMAIN pending
    /\ LET m == pending[cur]  p == m.part IN
       IF ~m.done
         THEN main' = "feed" /\ UNCHANGED <<cur, bDeleted, thrown, result, partVars>>
       ELSE IF m.err /\ ~RetriesLeft(p) THEN Throw /\ UNCHANGED partVars
       ELSE /\ part' = IF m.err THEN ResetPart(p)
                         ELSE [part EXCEPT ![p].bComplete = TRUE]
            /\ pending' = Without(pending, cur)
            /\ bDeleted' = TRUE
            /\ UNCHANGED <<main, cur, thrown, result, msgs>>
    /\ UNCHANGED <<worker, serverVars>>
    /\ UnchangedByMain

HarvestEnds ==
    /\ main = "harvest" /\ cur > Len(pending)
    /\ main' = IF bDeleted THEN "dispatch" ELSE "wait"
    /\ cur' = 1
    /\ UNCHANGED <<partVars, worker, bDeleted, thrown, result, serverVars>>
    /\ UnchangedByMain

(* A record is read and pushed while there is room in the queue and data   *)
(* left in the part.                                                       *)
Feed ==
    /\ main = "feed"
    /\ LET p == pending[cur].part
           new == Entries(p, part[p].cursor, 1)
       IN  IF Len(part[p].queue) < MaxQueueSize /\ part[p].cursor < part[p].length
             THEN /\ part' = [part EXCEPT ![p].queue = @ \o new, ![p].cursor = @ + Read(new)]
                  /\ UNCHANGED <<main, cur>>
             ELSE main' = "harvest" /\ cur' = cur + 1 /\ UNCHANGED part
    /\ UNCHANGED <<pending, msgs, worker, bDeleted, thrown, result, serverVars>>
    /\ UnchangedByMain

(* An error comes with a status, or with a status of success and an error  *)
(* in the body, or the answer is lost after the server has acted.          *)
S3MultiPartComplete ==
    /\ main = "complete"
    /\ \/ /\ upload' = "completed"
          /\ main' = "terminate" /\ result' = "success" /\ UNCHANGED thrown
       \/ /\ upload' \in {"open", "completed"}
          /\ main' = "abort" /\ thrown' = TRUE /\ UNCHANGED result
    /\ UNCHANGED <<partVars, worker, cur, bDeleted, stored, lost>>
    /\ UnchangedByMain

(* Seeded fault: the shutdown check stays on during the abort request.     *)
AbortRequestMadeChecked == main = "abort" /\ ~bAbort

(* With CheckShutdown(false) the request is made although the caller is    *)
(* being ended.                                                            *)
AbortRequestMade == main = "abort"

(* catch: the upload is aborted; an error of that request is not looked at.*)
S3MultiPartAbort ==
    /\ main = "abort"
    /\ main' = "terminate" /\ result' = "failed"
    /\ IF AbortRequestMade
         THEN \/ upload' = (IF upload = "open" THEN "aborted" ELSE upload) /\ UNCHANGED lost
              \/ upload' = upload /\ lost' = TRUE
         ELSE UNCHANGED <<upload, lost>>
    /\ UNCHANGED <<partVars, worker, cur, bDeleted, thrown, stored>>
    /\ UnchangedByMain

(* ~CMPUPool: the pool is terminated; messages not begun are dropped.      *)
Terminate ==
    /\ main = "terminate"
    /\ \A w \in Workers : worker[w].pc = "idle"
    /\ main' = "returned" /\ msgs' = << >>
    /\ UNCHANGED <<part, pending, worker, cur, bDeleted, thrown, result, serverVars>>
    /\ UnchangedByMain

-----------------------------------------------------------------------------
(* A thread of the pool.                                                   *)

UnchangedByWorker == UNCHANGED <<size, dwMaxThreads, fileEnd, mainVars, bAbort>>

(* The thread has a message whose bComplete is not set.                    *)
Uploads(w) == worker[w].pc \notin {"idle", "leave"}

Begun == {worker[w].part : w \in {v \in Workers : Uploads(v)}}

(* The oldest message nobody works on.  Terminate has bDisable set.  The   *)
(* thread may be a new one, its connection state one that no callback has  *)
(* used: a request whose set-up fails there never returns.                 *)
WorkerTakes(w) ==
    /\ worker[w].pc = "idle" /\ main # "terminate"
    /\ \E i \in DOMAIN msgs :
         /\ msgs[i] \notin Begun
         /\ \A j \in 1 .. i - 1 : msgs[j] \in Begun
         /\ \E pc \in {"send", "hung"} :
              worker' = [worker EXCEPT ![w] = [Idle EXCEPT !.pc = pc, !.part = msgs[i]]]
         /\ part' = [part EXCEPT ![msgs[i]].sETag = FALSE]
    /\ UNCHANGED <<pending, msgs, serverVars>>
    /\ UnchangedByWorker

(* S3MultiPartUpload sends the front of the part's queue, up to bLast.     *)
WorkerSends(w) ==
    /\ worker[w].pc = "send"
    /\ LET p == worker[w].part  e == Head(part[p].queue) IN
       /\ part[p].queue # << >>
       /\ part' = [part EXCEPT ![p].queue = Tail(@)]
       /\ worker' = [worker EXCEPT
                       ![w].data = IF e.rec = 0 THEN @ ELSE Append(@, e.rec),
                       ![w].pc = IF e.bLast THEN "answer" ELSE "send"]
    /\ UNCHANGED <<pending, msgs, serverVars>>
    /\ UnchangedByWorker

(* The server has all of the part, or refuses it (an upload that is        *)
(* aborted, an answer without an ETag ...); a lost connection, a timeout   *)
(* or the end of the thread fails it at any time.                          *)
WorkerAnswered(w) ==
    /\ worker[w].pc = "answer" /\ upload = "open"
    /\ LET p == worker[w].part IN
       /\ Len(worker[w].data) = part[p].length
       /\ stored' = [stored EXCEPT ![p] = worker[w].data]
       /\ part' = [part EXCEPT ![p].sETag = TRUE]
    /\ worker' = [worker EXCEPT ![w].pc = "done"]
    /\ UNCHANGED <<pending, msgs, upload, lost>>
    /\ UnchangedByWorker

WorkerFails(w) ==
    /\ worker[w].pc \in {"send", "answer"}
    /\ worker' = [worker EXCEPT ![w].pc = "done", ![w].err = TRUE]
    /\ UNCHANGED <<partVars, serverVars>>
    /\ UnchangedByWorker

(* bComplete and the event, under csPendingList ...                        *)
WorkerDone(w) ==
    /\ worker[w].pc = "done"
    /\ LET p == worker[w].part IN
       /\ pending' = [i \in DOMAIN pending |->
                        IF pending[i].part = p /\ ~pending[i].done
                          THEN [pending[i] EXCEPT !.done = TRUE, !.err = worker[w].err]
                          ELSE pending[i]]
       /\ \E i \in DOMAIN msgs : msgs[i] = p /\ msgs' = Without(msgs, i)
    /\ worker' = [worker EXCEPT ![w] = [Idle EXCEPT !.pc = "leave"]]
    /\ UNCHANGED <<part, serverVars>>
    /\ UnchangedByWorker

(* ... and the message leaves the pool after DoProcess has returned, when  *)
(* the part may be with the pool again.                                    *)
WorkerLeaves(w) ==
    /\ worker[w].pc = "leave"
    /\ worker' = [worker EXCEPT ![w] = Idle]
    /\ UNCHANGED <<partVars, serverVars>>
    /\ UnchangedByWorker

AbortRequested ==
    /\ ~bAbort /\ main \in {"dispatch", "wait", "harvest", "feed"}
    /\ bAbort' = TRUE
    /\ UNCHANGED <<size, dwMaxThreads, fileEnd, partVars, worker, mainVars, serverVars>>

(* Someone truncates the file.                                             *)
FileShrinks ==
    /\ FileMayShrink /\ fileEnd = size /\ main = "feed"
    /\ fileEnd' = size - 1
    /\ UNCHANGED <<size, dwMaxThreads, partVars, worker, mainVars, bAbort, serverVars>>

-----------------------------------------------------------------------------
MainStep ==
    \/ S3MultiPartInitiate
    \/ DispatchPart
    \/ ReadFails
    \/ DispatchEnds
    \/ WaitEvents
    \/ Harvest
    \/ HarvestEnds
    \/ Feed
    \/ S3MultiPartComplete
    \/ S3MultiPartAbort
    \/ Terminate

WorkerStep(w) ==
    \/ WorkerTakes(w)
    \/ WorkerSends(w)
    \/ WorkerAnswered(w)
    \/ WorkerFails(w)
    \/ WorkerDone(w)
    \/ WorkerLeaves(w)

UploadNext ==
    \/ MainStep
    \/ \E w \in Workers : WorkerStep(w)
    \/ AbortRequested
    \/ FileShrinks

UploadSpec == UploadInit /\ [][UploadNext]_uploadVars

(* The calling thread's wait is timed, and so are the waits of an upload   *)
(* request that was set up (WaitComplete, WaitStreamSend): each thread     *)
(* takes its next step, a worker without data by its timeout.  A thread    *)
(* that hangs in a request has no next step.                               *)
FairUploadSpec ==
    /\ UploadSpec
    /\ WF_uploadVars(MainStep)
    /\ \A w \in 1 .. MaxThreads : WF_uploadVars(w <= dwMaxThreads /\ WorkerStep(w))

-----------------------------------------------------------------------------
(* The object the server puts together, one part behind the other, is the  *)
(* file of the size it had when the list was made: every record is in it,  *)
(* once and in order, whatever was fed, popped, failed and sent again      *)
(* meanwhile, and every part has the ETag the request names.               *)
ObjectIntact ==
    upload = "completed" =>
        /\ \A r \in 1 .. size : \E p \in DOMAIN part : \E i \in DOMAIN stored[p] : stored[p][i] = r
        /\ \A p \in DOMAIN part : \A i \in DOMAIN stored[p] : stored[p][i] \in 1 .. size
        /\ \A p, q \in DOMAIN part : \A i \in DOMAIN stored[p], j \in DOMAIN stored[q] :
             p < q \/ (p = q /\ i < j) => stored[p][i] < stored[q][j]
        /\ \A p \in DOMAIN part : part[p].sETag

(* A part has one upload at a time, and its queue one reader, while the    *)
(* calling thread resets the part, gives it out again and feeds it beside  *)
(* the threads: no two threads are in the request of one part, the part of *)
(* each is in process and not complete, and no message that waits is for   *)
(* the part of another, although a message that is complete may still be   *)
(* in the pool then.                                                       *)
OneUploadPerPart ==
    /\ \A v, w \in Workers :
         v # w /\ Uploads(v) /\ Uploads(w) => worker[v].part # worker[w].part
    /\ \A w \in Workers : Uploads(w) =>
         part[worker[w].part].bInProcess /\ ~part[worker[w].part].bComplete
    /\ \A i, j \in DOMAIN msgs : i # j => msgs[i] # msgs[j]

(* The upload that was begun at the server is closed, completed when       *)
(* success is returned and aborted (or completed, when only the answer was *)
(* lost) when an error is, unless the very request to begin or to abort it *)
(* has failed.                                                             *)
UploadClosed ==
    main = "returned" =>
        /\ upload = "open" => lost
        /\ result = "success" <=> upload = "completed" /\ ~thrown

(* A request that never returns: the calling thread's first, or the first  *)
(* of a thread of the pool, which ~CMPUPool then waits for.                *)
Hung == main = "hung" \/ \E w \in Workers : worker[w].pc = "hung"

(* The upload comes to an end, with retries, aborts and failures of every  *)
(* step, unless the file was truncated under it, or a request that could   *)
(* not be set up hangs.                                                    *)
UploadReturns == <>(main = "returned" \/ fileEnd < size \/ Hung)
=============================================================================
