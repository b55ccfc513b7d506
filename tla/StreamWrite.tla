----------------------------- MODULE StreamWrite ----------------------------
(***************************************************************************)
(* S3Write (FileSupport.cpp): the calling thread reads a file and pushes   *)
(* it, buffer by buffer, on a bounded CSharedQueue; a worker thread makes  *)
(* the PUT request (Create, SendRequestInternal in ECSConnection.cpp) and  *)
(* sends the entries of the queue as its body, as they are or gathered     *)
(* into the signed chunks of signature version 4.                          *)
(*                                                                         *)
(* A record of the file is a number, an entry of the queue has up to       *)
(* BufSize of them.  The life of the worker thread is that of              *)
(* WorkerThread, reduced to what S3Write sees of it, as in StreamRead.     *)
(***************************************************************************)
EXTENDS SharedQueue

CONSTANTS Caller,          \* the calling thread: the one producer
          SendEvent,       \* MsgEvent of SendRequestInternal
          FileSizes,       \* sizes of the file
          BufSize,         \* dwBufSize
          ChunkSize,       \* uS3AuthV4ChunkSize
          MaxWriteRequest, \* dwMaxWriteRequest
          MaxChanges       \* bound on the changes made to the file meanwhile

ASSUME StreamWriteAssumption ==
    /\ FileSizes \subseteq Nat
    /\ {BufSize, ChunkSize, MaxWriteRequest} \subseteq Nat \ {0}
    /\ MaxChanges \in Nat
    /\ Producers = {Caller} /\ Readers = {SendEvent}

VARIABLES file,            \* what the file holds now
          changes,         \* how often it has been changed
          FileSize,        \* what Stat said
          hashed,          \* what bChecksum's MD5 was made of
          taken,           \* what has been read from it: liOffset is its length
          main,            \* where the calling thread is
          rec,             \* WriteRec: the entry being pushed
          bDone,
          dwMainError,     \* the error it has thrown
          worker,          \* where the worker is
          bS3AuthV4,
          sent,            \* ullCurDataSent: of the entry in front
          chunk,           \* S3AuthV4SendBuf
          body,            \* what has been sent
          object,          \* what the server has stored
          Error,           \* WriteThread.Error
          evWriteComplete, bWorkerDone, bTerminate,
          bAbort,          \* what Conn.TestAbort() says to the calling thread
          result           \* what S3Write returned

fileVars == <<file, changes>>
mainVars == <<FileSize, hashed, taken, main, rec, bDone, dwMainError, result>>
sendVars == <<worker, sent, chunk, body, object>>
doneVars == <<Error, evWriteComplete, bWorkerDone>>
writeVars == <<queueVars, fileVars, mainVars, sendVars, doneVars,
               bS3AuthV4, bTerminate, bAbort>>

None == << -1 >>           \* no object, no checksum

Entries == [data : Seq(Nat), bLast : BOOLEAN]

NoRec == [data |-> << >>, bLast |-> FALSE]

WriteInit ==
    /\ QueueInit
    /\ \E n \in FileSizes : file = [i \in 1 .. n |-> i]
    /\ changes = 0 /\ FileSize = 0 /\ hashed = None /\ taken = << >>
    /\ main = "stat" /\ rec = NoRec /\ bDone = FALSE /\ dwMainError = "none"
    /\ worker = "unborn" /\ bS3AuthV4 \in BOOLEAN
    /\ sent = 0 /\ chunk = << >> /\ body = << >> /\ object = None
    /\ Error = "none" /\ evWriteComplete = FALSE /\ bWorkerDone = FALSE
    /\ bTerminate = FALSE /\ bAbort = FALSE /\ result = "none"

WriteTypeOK ==
    /\ main \in {"stat", "hash", "create", "seek", "loop", "read", "push",
                 "wait", "size", "kill", "join", "returned"}
    /\ worker \in {"unborn", "failed", "start", "request", "hung", "send", "pop", "last",
                   "response", "event", "done", "ended", "exited"}
    /\ {Error, dwMainError, result} \subseteq
         {"none", "aborted", "comm", "http", "length", "wait", "disk"}
    /\ {bDone, evWriteComplete, bWorkerDone, bTerminate, bAbort} \subseteq BOOLEAN
    /\ bS3AuthV4 \in BOOLEAN
    /\ {FileSize, sent, changes} \subseteq Nat
    /\ {file, taken, chunk, body} \subseteq Seq(Nat)
    /\ {hashed, object} \subseteq Seq(Nat) \cup {None}
    /\ rec \in Entries /\ queue \in Seq(Entries)

-----------------------------------------------------------------------------
(* The calling thread.                                                     *)

UnchangedByMain == UNCHANGED <<fileVars, sendVars, doneVars, bS3AuthV4, bAbort>>

Throw(error) == main' = "kill" /\ dwMainError' = error

(* An error before the worker exists is returned at once.                  *)
ReturnEarly(error) == main' = "returned" /\ result' = error /\ UNCHANGED worker

StatFile ==
    /\ main = "stat"
    /\ \/ /\ FileSize' = Len(file) /\ main' \in {"hash", "create"}
          /\ UNCHANGED <<worker, result>>
       \/ ReturnEarly("disk") /\ UNCHANGED FileSize
    /\ UNCHANGED <<queueVars, fileVars, hashed, taken, rec, bDone, dwMainError, sent,
                   chunk, body, object, doneVars, bS3AuthV4, bTerminate, bAbort>>

(* bChecksum: the whole file is read for its hash, with tests for an abort.*)
CalcUploadChecksum ==
    /\ main = "hash"
    /\ \/ hashed' = file /\ main' = "create" /\ UNCHANGED <<worker, result>>
       \/ ReturnEarly(IF bAbort THEN "aborted" ELSE "disk") /\ UNCHANGED hashed
    /\ UNCHANGED <<queueVars, fileVars, FileSize, taken, rec, bDone, dwMainError, sent,
                   chunk, body, object, doneVars, bS3AuthV4, bTerminate, bAbort>>

(* CreateThread, whose result is not looked at, and StartWork.             *)
CreateThread ==
    /\ main = "create"
    /\ worker' \in {"start", "failed"}
    /\ main' = "seek"
    /\ UNCHANGED <<queueVars, fileVars, FileSize, hashed, taken, rec, bDone, dwMainError,
                   result, sent, chunk, body, object, doneVars, bS3AuthV4, bTerminate, bAbort>>

SeekFile ==
    /\ main = "seek"
    /\ \/ main' = "loop" /\ UNCHANGED dwMainError
       \/ Throw("disk")
    /\ UNCHANGED <<queueVars, FileSize, hashed, taken, rec, bDone, result, bTerminate>>
    /\ UnchangedByMain

(* while (!bDone): left when the worker is done or the caller to end.      *)
LoopTest ==
    /\ main = "loop"
    /\ main' = IF bDone \/ bWorkerDone \/ bAbort THEN "wait" ELSE "read"
    /\ UNCHANGED <<queueVars, FileSize, hashed, taken, rec, bDone, dwMainError, result, bTerminate>>
    /\ UnchangedByMain

Least(m, n) == IF m < n THEN m ELSE n

(* A Read of less than the buffer may say S_FALSE; either that or no data  *)
(* at all makes the last entry.                                            *)
ReadFile ==
    /\ main = "read"
    /\ LET data == SubSeq(file, Len(taken) + 1, Least(Len(taken) + BufSize, Len(file))) IN
       /\ \E sFalse \in BOOLEAN :
            /\ sFalse => Len(data) < BufSize
            /\ LET last == sFalse \/ data = << >> IN
               /\ rec' = [data |-> data, bLast |-> last]
               /\ bDone' = last
       /\ taken' = taken \o data
    /\ BeginPush(Caller)
    /\ main' = "push"
    /\ UNCHANGED <<FileSize, hashed, dwMainError, result, bTerminate>>
    /\ UnchangedByMain

ReadFileFails ==
    /\ main = "read"
    /\ Throw("disk")
    /\ UNCHANGED <<queueVars, FileSize, hashed, taken, rec, bDone, result, bTerminate>>
    /\ UnchangedByMain

(* Seeded fault: only the exit flag is tested.                             *)
TestShutdownExitFlag == bTerminate

(* TestShutdownWriteThread.                                                *)
TestShutdownWriteThread == bWorkerDone \/ bTerminate

(* push_back waits in WaitForQueue.                                        *)
PushWaits ==
    /\ main = "push"
    /\ \/ LinkEvent(Caller)
       \/ WaitDone(Caller)
       \/ TestShutdownWriteThread /\ WaitAborted(Caller)
       \/ ~TestShutdownWriteThread /\ WaitSleep(Caller)
       \/ WaitWakes(Caller)
    /\ UNCHANGED <<mainVars, bTerminate>>
    /\ UnchangedByMain

PushEntry ==
    /\ main = "push"
    /\ Push(Caller, rec, FALSE)
    /\ rec' = NoRec
    /\ main' = "loop"
    /\ UNCHANGED <<FileSize, hashed, taken, bDone, dwMainError, result, bTerminate>>
    /\ UnchangedByMain

(* The wait for the worker: bWorkerDone, its event, or every two seconds   *)
(* the abort test.                                                         *)
MainWait ==
    /\ main = "wait"
    /\ IF bWorkerDone \/ evWriteComplete THEN main' = "size" /\ UNCHANGED dwMainError
       ELSE bAbort /\ Throw("aborted")
    /\ UNCHANGED <<queueVars, FileSize, hashed, taken, rec, bDone, result, bTerminate>>
    /\ UnchangedByMain

MainWaitFailed ==
    /\ main = "wait" /\ ~bWorkerDone
    /\ Throw("wait")
    /\ UNCHANGED <<queueVars, FileSize, hashed, taken, rec, bDone, result, bTerminate>>
    /\ UnchangedByMain

(* Seeded fault: the size is not compared.                                 *)
SizeTestNever ==
    /\ main = "size"
    /\ main' = "kill" /\ UNCHANGED dwMainError
    /\ UNCHANGED <<queueVars, FileSize, hashed, taken, rec, bDone, result, bTerminate>>
    /\ UnchangedByMain

(* FileSize against liOffset.                                              *)
SizeTest ==
    /\ main = "size"
    /\ IF FileSize # Len(taken) THEN Throw("length")
       ELSE main' = "kill" /\ UNCHANGED dwMainError
    /\ UNCHANGED <<queueVars, FileSize, hashed, taken, rec, bDone, result, bTerminate>>
    /\ UnchangedByMain

(* KillThreadWait.                                                         *)
MainKill ==
    /\ main = "kill"
    /\ bTerminate' = TRUE
    /\ main' = "join"
    /\ UNCHANGED <<queueVars, FileSize, hashed, taken, rec, bDone, dwMainError, result>>
    /\ UnchangedByMain

MainReturns ==
    /\ main = "join"
    /\ worker \in {"failed", "exited"}
    /\ result' = IF Error # "none" THEN Error ELSE dwMainError
    /\ main' = "returned"
    /\ UNCHANGED <<queueVars, FileSize, hashed, taken, rec, bDone, dwMainError, bTerminate>>
    /\ UnchangedByMain

-----------------------------------------------------------------------------
(* The worker thread.  Its TestAbort() is TestShutdownWriteThread.         *)

UnchangedByWorker == UNCHANGED <<fileVars, mainVars, bS3AuthV4, bTerminate, bAbort>>

(* ThreadProc: a kill before the first wait ends the thread, a later one   *)
(* wakes it all the same.                                                  *)
WorkerStarts ==
    /\ worker = "start"
    /\ worker' \in IF bTerminate THEN {"request", "exited"} ELSE {"request"}
    /\ UNCHANGED <<queueVars, sent, chunk, body, object, doneVars>>
    /\ UnchangedByWorker

(* WinHttpSendRequest with the length, and MsgEvent linked to the queue.   *)
SendHeaders ==
    /\ worker = "request" /\ ~bTerminate
    /\ worker' = "send"
    /\ UNCHANGED <<queueVars, sent, chunk, body, object, doneVars>>
    /\ UnchangedByWorker

CreateReturns(error) == worker' = "event" /\ Error' = error

(* The request fails once opened, or any of its waits fails, times out or  *)
(* is aborted; a stream is not sent again.                                 *)
WorkerFails ==
    /\ worker \in {"request", "send", "last", "response"}
    /\ CreateReturns(IF bTerminate THEN "aborted" ELSE "comm")
    /\ UNCHANGED <<queueVars, sent, chunk, body, object, evWriteComplete, bWorkerDone>>
    /\ UnchangedByWorker

(* A request that fails before it has been opened: the worker is a new     *)
(* thread, so its state is new and its callback event was never set, and   *)
(* CleanupCurState waits for that event without a time-out.                *)
WorkerHangs ==
    /\ worker = "request"
    /\ worker' = "hung"
    /\ UNCHANGED <<queueVars, sent, chunk, body, object, doneVars>>
    /\ UnchangedByWorker

Front == Head(queue).data

(* Seeded fault: a chunk that is full takes the rest of the entry along.   *)
SendPieceV4Skips ==
    /\ worker = "send" /\ bS3AuthV4 /\ queue # << >>
    /\ LET n == Least(Len(Front) - sent, ChunkSize - Len(chunk))
           buf == chunk \o SubSeq(Front, sent + 1, sent + n)
       IN  /\ IF Len(buf) = ChunkSize
                THEN body' = body \o buf /\ chunk' = << >> /\ sent' = Len(Front)
                ELSE body' = body /\ chunk' = buf /\ sent' = sent + n
           /\ worker' = IF sent' >= Len(Front) THEN "pop" ELSE "send"
    /\ UNCHANGED <<queueVars, object, doneVars>>
    /\ UnchangedByWorker

(* The front entry is gathered into the chunk; a full chunk is signed and  *)
(* sent.  The entry is popped when all of it has been taken.               *)
SendPieceV4 ==
    /\ worker = "send" /\ bS3AuthV4 /\ queue # << >>
    /\ LET n == Least(Len(Front) - sent, ChunkSize - Len(chunk))
           buf == chunk \o SubSeq(Front, sent + 1, sent + n)
       IN  /\ IF Len(buf) = ChunkSize
                THEN body' = body \o buf /\ chunk' = << >>
                ELSE body' = body /\ chunk' = buf
           /\ sent' = sent + n
           /\ worker' = IF sent + n >= Len(Front) THEN "pop" ELSE "send"
    /\ UNCHANGED <<queueVars, object, doneVars>>
    /\ UnchangedByWorker

(* Signature version 2: pieces of at most dwMaxWriteRequest.               *)
SendPiece ==
    /\ worker = "send" /\ ~bS3AuthV4 /\ queue # << >>
    /\ LET n == Least(Len(Front) - sent, MaxWriteRequest) IN
       /\ body' = body \o SubSeq(Front, sent + 1, sent + n)
       /\ sent' = sent + n
       /\ worker' = IF sent + n >= Len(Front) THEN "pop" ELSE "send"
    /\ UNCHANGED <<queueVars, chunk, object, doneVars>>
    /\ UnchangedByWorker

(* Under the queue's write lock.                                           *)
PopEntry ==
    /\ worker = "pop"
    /\ Pop(TRUE)
    /\ sent' = 0
    /\ worker' = IF Head(queue).bLast THEN "last" ELSE "send"
    /\ UNCHANGED <<chunk, body, object, doneVars>>
    /\ UnchangedByWorker

(* After bLast: the rest of the chunk and the empty chunk that ends it.    *)
SendLast ==
    /\ worker = "last"
    /\ body' = body \o chunk
    /\ chunk' = << >>
    /\ worker' = "response"
    /\ UNCHANGED <<queueVars, sent, object, doneVars>>
    /\ UnchangedByWorker

(* The server stores a body that has the length of the request and the     *)
(* checksum, if one was sent, or refuses it; the answer may get lost.      *)
ServerAnswers ==
    /\ worker = "response"
    /\ LET received == SubSeq(body, 1, Least(Len(body), FileSize)) IN
       \/ /\ Len(body) >= FileSize /\ hashed \in {None, received}
          /\ object' = received
          /\ \E error \in {"none", "comm"} : CreateReturns(error)
       \/ CreateReturns("http") /\ UNCHANGED object
    /\ UNCHANGED <<queueVars, sent, chunk, body, evWriteComplete, bWorkerDone>>
    /\ UnchangedByWorker

(* DoWork: evWriteComplete is set, and after it bWorkerDone.               *)
SetWriteComplete ==
    /\ worker = "event"
    /\ evWriteComplete' = TRUE
    /\ worker' = "done"
    /\ UNCHANGED <<queueVars, sent, chunk, body, object, Error, bWorkerDone>>
    /\ UnchangedByWorker

SetWorkerDone ==
    /\ worker = "done"
    /\ bWorkerDone' = TRUE
    /\ worker' = "ended"
    /\ UNCHANGED <<queueVars, sent, chunk, body, object, Error, evWriteComplete>>
    /\ UnchangedByWorker

WorkerExits ==
    /\ worker = "ended" /\ bTerminate
    /\ worker' = "exited"
    /\ UNCHANGED <<queueVars, sent, chunk, body, object, doneVars>>
    /\ UnchangedByWorker

-----------------------------------------------------------------------------
(* From outside: the file is appended to, truncated or overwritten; the    *)
(* caller is to end; AllTerminate() kills the worker thread.               *)
FileChanges ==
    /\ changes < MaxChanges
    /\ changes' = changes + 1
    /\ file' \in {Append(file, 0)}
                   \cup (IF file = << >> THEN {}
                         ELSE {SubSeq(file, 1, Len(file) - 1), [file EXCEPT ![1] = 0]})
    /\ UNCHANGED <<queueVars, mainVars, sendVars, doneVars, bS3AuthV4, bTerminate, bAbort>>

AbortRequested ==
    /\ ~bAbort /\ main # "returned"
    /\ bAbort' = TRUE
    /\ UNCHANGED <<queueVars, fileVars, mainVars, sendVars, doneVars, bS3AuthV4, bTerminate>>

AllTerminate ==
    /\ worker \notin {"unborn", "failed", "exited"}
    /\ bTerminate' = TRUE
    /\ UNCHANGED <<queueVars, fileVars, mainVars, sendVars, doneVars, bS3AuthV4, bAbort>>

WriteMain ==
    \/ StatFile \/ CalcUploadChecksum \/ CreateThread \/ SeekFile
    \/ LoopTest \/ ReadFile \/ ReadFileFails \/ PushWaits \/ PushEntry
    \/ MainWait \/ MainWaitFailed \/ SizeTest \/ MainKill \/ MainReturns

WriteWorker ==
    \/ WorkerStarts \/ SendHeaders \/ WorkerFails \/ WorkerHangs
    \/ SendPieceV4 \/ SendPiece \/ PopEntry \/ SendLast
    \/ ServerAnswers \/ SetWriteComplete \/ SetWorkerDone \/ WorkerExits

WriteNext == WriteMain \/ WriteWorker \/ FileChanges \/ AbortRequested \/ AllTerminate

WriteSpec == WriteInit /\ [][WriteNext]_writeVars

(* Each thread always takes its next step: the waits are timed, but for    *)
(* that of a worker that hangs, which has no step.                         *)
FairWriteSpec == WriteSpec /\ WF_writeVars(WriteMain) /\ WF_writeVars(WriteWorker)

-----------------------------------------------------------------------------
(* What S3Write promises: the records read are sent in order, none lost or *)
(* doubled, whatever the sizes of buffers, chunks and writes, and success  *)
(* means that all of them were.                                            *)
Upload == INSTANCE Transfer
    WITH MayStopShort <- FALSE, source <- taken, dest <- body,
         outcome <- IF main # "returned" THEN "running"
                    ELSE IF result = "none" THEN "success" ELSE "failed"

UploadsInOrder == Upload!TransferSpec

(* Success means that the server has the file: all that was read, of the   *)
(* size the file had at the beginning, and what was hashed if there was a  *)
(* checksum, whoever appended to, truncated or overwrote the file.         *)
SuccessMeansStored ==
    main = "returned" /\ result = "none" =>
        /\ object = taken
        /\ Len(object) = FileSize
        /\ hashed \in {None, object}

(* S3Write returns, whichever thread fails or is aborted, if its worker    *)
(* ever gets to work and can open its request.  Without a thread, or with  *)
(* one that AllTerminate ended before, nothing but an abort ends the wait  *)
(* for evWriteComplete; a worker that hangs in CleanupCurState keeps       *)
(* KillThreadWait waiting whatever is aborted.                             *)
S3WriteReturns ==
    <>(main = "returned" \/ worker = "hung"
         \/ (worker \in {"failed", "exited"} /\ ~bWorkerDone))
=============================================================================
