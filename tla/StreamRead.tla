----------------------------- MODULE StreamRead -----------------------------
(***************************************************************************)
(* S3Read (FileSupport.cpp): a worker thread receives an object from the   *)
(* server and pushes it, chunk by chunk, on a bounded CSharedQueue; the    *)
(* calling thread pops the chunks and writes them to the file stream.      *)
(*                                                                         *)
(* Chunk i of the response is the number i, and the empty entry with bLast *)
(* set is Last.  The life of the worker thread is that of WorkerThread,    *)
(* reduced to what S3Read sees of it: KillThread sets bTerminate, and      *)
(* KillThreadWait returns when the thread no longer runs DoWork.           *)
(***************************************************************************)
EXTENDS SharedQueue

CONSTANTS ReadThread,      \* the worker: the one producer
          MsgEvent,        \* the event the calling thread waits on
          NumChunks,       \* bound on the chunks of a response
          CreateMayFail    \* whether CreateThread may fail

Last == 0
NoLength == NumChunks + 1  \* a response without a length header
Nothing == NumChunks + 1   \* no entry in hand

ASSUME StreamAssumption ==
    /\ NumChunks \in Nat \ {0}
    /\ CreateMayFail \in BOOLEAN
    /\ Producers = {ReadThread} /\ Readers = {MsgEvent}
    /\ Items = Last .. NumChunks

VARIABLES worker,          \* where the worker is in ThreadProc, Read, SendRequestInternal
          status,          \* the HTTP status of the response
          length,          \* its length (Content-Length, Content-Range), in chunks
          received,        \* chunks read from the server
          hold,            \* RcvBuf: the entry the worker is pushing
          bTerminate, bWorkerDone,
          Error,           \* ReadThread.Error
          main,            \* where the calling thread is
          entry,           \* StreamData: the entry it has popped
          written,         \* what it has written to the stream
          bDone,
          dwMainThreadError,
          bAbort,          \* what Conn.TestAbort() says to the calling thread
          result           \* what S3Read returned

workerVars == <<worker, status, length, received, hold, bWorkerDone, Error>>
mainVars == <<main, entry, written, bDone, dwMainThreadError, result>>
streamVars == <<queueVars, workerVars, mainVars, bTerminate, bAbort>>

Errors == {"none", "aborted", "comm", "http", "length", "wait", "disk"}

StreamTypeOK ==
    /\ QueueTypeOK
    /\ worker \in {"failed", "start", "request", "hung", "recv", "push", "close", "done", "exited"}
    /\ status \in {200, 300, 400}
    /\ length \in 0 .. NoLength
    /\ received \in 0 .. NumChunks
    /\ hold \in 0 .. Nothing
    /\ {bTerminate, bWorkerDone, bDone, bAbort} \subseteq BOOLEAN
    /\ {Error, dwMainThreadError, result} \subseteq Errors
    /\ main \in {"wait", "drain", "pop", "write", "exitflag", "done", "kill", "join", "returned"}
    /\ entry \in 0 .. Nothing
    /\ written \in Seq(1 .. NumChunks)

(* The queue is linked and the thread created and started.                 *)
StreamInit ==
    /\ QueueInit
    /\ worker \in IF CreateMayFail THEN {"start", "failed"} ELSE {"start"}
    /\ status = 200 /\ length = 0 /\ received = 0 /\ hold = Nothing
    /\ bTerminate = FALSE /\ bWorkerDone = FALSE /\ Error = "none"
    /\ main = "wait" /\ entry = Nothing /\ written = << >>
    /\ bDone = FALSE /\ dwMainThreadError = "none"
    /\ bAbort = FALSE /\ result = "none"

-----------------------------------------------------------------------------
(* The worker thread.  Its TestAbort() is TestShutdownThread: bTerminate.  *)

UnchangedByWorker == UNCHANGED <<mainVars, bTerminate, bAbort>>

(* ThreadProc: a kill before the first wait ends the thread, a later one   *)
(* wakes it all the same.                                                  *)
WorkerStarts ==
    /\ worker = "start"
    /\ worker' \in IF bTerminate THEN {"request", "exited"} ELSE {"request"}
    /\ UNCHANGED <<queueVars, status, length, received, hold, bWorkerDone, Error>>
    /\ UnchangedByWorker

(* Read returns and DoWork sets bWorkerDone.                               *)
ReadReturns(error) ==
    /\ worker' = "done"
    /\ Error' = error
    /\ bWorkerDone' = TRUE

(* A request that fails once it has been opened, or a wait of WaitComplete *)
(* that fails or is aborted: the error is thrown to Read's caller (a stream *)
(* is never retried).                                                      *)
WorkerFails ==
    /\ worker \in {"request", "recv"}
    /\ ReadReturns(IF bTerminate THEN "aborted" ELSE "comm")
    /\ UNCHANGED <<queueVars, status, length, received, hold>>
    /\ UnchangedByWorker

(* A request that fails before it has been opened: the worker is a new     *)
(* thread, so its state is new and its callback event was never set, and   *)
(* CleanupCurState waits for that event without a time-out.                *)
WorkerHangs ==
    /\ worker = "request"
    /\ worker' = "hung"
    /\ UNCHANGED <<queueVars, status, length, received, hold, bWorkerDone, Error>>
    /\ UnchangedByWorker

(* The headers of the response.                                            *)
HeadersReceived(s, len) ==
    /\ worker = "request"
    /\ ~bTerminate
    /\ status' = s
    /\ length' = len
    /\ worker' = "recv"
    /\ UNCHANGED <<queueVars, received, hold, bWorkerDone, Error>>
    /\ UnchangedByWorker

(* Data: a chunk of an error response is not pushed.                       *)
ReceiveChunk ==
    /\ worker = "recv"
    /\ ~bTerminate
    /\ status < 400
    /\ received < NumChunks
    /\ received' = received + 1
    /\ hold' = received + 1
    /\ BeginPush(ReadThread)
    /\ worker' = "push"
    /\ UNCHANGED <<status, length, bWorkerDone, Error>>
    /\ UnchangedByWorker

(* No more data: the empty last entry is pushed.                           *)
ReceiveEnd ==
    /\ worker = "recv"
    /\ ~bTerminate
    /\ status < 400
    /\ hold' = Last
    /\ BeginPush(ReadThread)
    /\ worker' = "push"
    /\ UNCHANGED <<status, length, received, bWorkerDone, Error>>
    /\ UnchangedByWorker

ReceiveErrorEnd ==
    /\ worker = "recv"
    /\ ~bTerminate
    /\ status >= 400
    /\ ReadReturns("http")
    /\ UNCHANGED <<queueVars, status, length, received, hold>>
    /\ UnchangedByWorker

(* WaitForQueue in push_back, with TestAbort() for the abort test.         *)
PushWaits ==
    /\ worker = "push"
    /\ \/ LinkEvent(ReadThread)
       \/ WaitDone(ReadThread)
       \/ bTerminate /\ WaitAborted(ReadThread)
       \/ ~bTerminate /\ WaitSleep(ReadThread)
       \/ WaitWakes(ReadThread)
    /\ UNCHANGED workerVars
    /\ UnchangedByWorker

PushEntry ==
    /\ worker = "push"
    /\ Push(ReadThread, hold, FALSE)
    /\ worker' = IF hold = Last THEN "close" ELSE "recv"
    /\ hold' = Nothing
    /\ UNCHANGED <<status, length, received, bWorkerDone, Error>>
    /\ UnchangedByWorker

(* Seeded fault: the length of the response is not checked.                *)
ReceiveCompleteAnyLength ==
    /\ worker = "close"
    /\ ReadReturns(IF status >= 300 THEN "http" ELSE "none")
    /\ UNCHANGED <<queueVars, status, length, received, hold>>
    /\ UnchangedByWorker

(* SendRequest refuses a status that is not 20x, Read a wrong size.        *)
ReceiveComplete ==
    /\ worker = "close"
    /\ ReadReturns(IF status >= 300 THEN "http"
                   ELSE IF length \notin {received, NoLength} THEN "length"
                   ELSE "none")
    /\ UNCHANGED <<queueVars, status, length, received, hold>>
    /\ UnchangedByWorker

WorkerExits ==
    /\ worker = "done"
    /\ bTerminate
    /\ worker' = "exited"
    /\ UNCHANGED <<queueVars, status, length, received, hold, bWorkerDone, Error>>
    /\ UnchangedByWorker

-----------------------------------------------------------------------------
(* The calling thread.                                                     *)

UnchangedByMain == UNCHANGED <<workerVars, bAbort>>

Leave(error) == main' = "kill" /\ dwMainThreadError' = error

(* The wait ends with the event or after two seconds; then TestAbort().    *)
MainWait ==
    /\ main = "wait"
    /\ signalled' = signalled \ {MsgEvent}
    /\ IF bAbort THEN Leave("aborted")
                 ELSE main' = "drain" /\ UNCHANGED dwMainThreadError
    /\ UNCHANGED <<queue, prod, linked, aborts, entry, written, bDone, result, bTerminate>>
    /\ UnchangedByMain

MainWaitFailed ==
    /\ main = "wait"
    /\ ~bAbort
    /\ Leave("wait")
    /\ UNCHANGED <<queueVars, entry, written, bDone, result, bTerminate>>
    /\ UnchangedByMain

(* while (!StreamData.empty())                                             *)
DrainTest ==
    /\ main = "drain"
    /\ main' = IF queue = << >> THEN "exitflag" ELSE "pop"
    /\ UNCHANGED <<queueVars, entry, written, bDone, dwMainThreadError, result, bTerminate>>
    /\ UnchangedByMain

MainPop ==
    /\ main = "pop"
    /\ Pop(TRUE)
    /\ entry' = Head(queue)
    /\ main' = "write"
    /\ UNCHANGED <<written, bDone, dwMainThreadError, result, bTerminate>>
    /\ UnchangedByMain

MainWrite ==
    /\ main = "write"
    /\ entry' = Nothing
    /\ IF entry = Last
         THEN main' = "exitflag" /\ bDone' = TRUE /\ UNCHANGED written
         ELSE main' = "drain" /\ written' = Append(written, entry) /\ UNCHANGED bDone
    /\ UNCHANGED <<queueVars, dwMainThreadError, result, bTerminate>>
    /\ UnchangedByMain

(* Seeded fault: the loop goes on after a failed write.                    *)
MainWriteSkips ==
    /\ main = "write"
    /\ entry # Last
    /\ entry' = Nothing
    /\ dwMainThreadError' = "disk"
    /\ main' = "drain"
    /\ UNCHANGED <<queueVars, written, bDone, result, bTerminate>>
    /\ UnchangedByMain

MainWriteFailed ==
    /\ main = "write"
    /\ entry # Last
    /\ entry' = Nothing
    /\ dwMainThreadError' = "disk"
    /\ main' = "exitflag"
    /\ UNCHANGED <<queueVars, written, bDone, result, bTerminate>>
    /\ UnchangedByMain

(* GetExitFlag() overrides an error of the write; then that error.         *)
ExitFlagTest ==
    /\ main = "exitflag"
    /\ \/ bTerminate /\ Leave("aborted")
       \/ ~bTerminate /\ dwMainThreadError # "none" /\ Leave(dwMainThreadError)
       \/ ~bTerminate /\ dwMainThreadError = "none" /\ main' = "done"
          /\ UNCHANGED dwMainThreadError
    /\ UNCHANGED <<queueVars, entry, written, bDone, result, bTerminate>>
    /\ UnchangedByMain

(* IfActive(): there is a thread and it has not ended.                     *)
IfActive == worker \notin {"failed", "exited"}

(* Seeded fault: bWorkerDone is not tested.                                *)
DoneTestLastOnly ==
    /\ main = "done"
    /\ main' = IF (~IfActive /\ Error # "none") \/ bDone THEN "kill" ELSE "wait"
    /\ UNCHANGED <<queueVars, entry, written, bDone, dwMainThreadError, result, bTerminate>>
    /\ UnchangedByMain

(* bWorkerDone, then a thread that ended with an error, then bDone.        *)
DoneTest ==
    /\ main = "done"
    /\ main' = IF bWorkerDone \/ (~IfActive /\ Error # "none") \/ bDone
                 THEN "kill" ELSE "wait"
    /\ UNCHANGED <<queueVars, entry, written, bDone, dwMainThreadError, result, bTerminate>>
    /\ UnchangedByMain

(* KillThreadWait.                                                         *)
MainKill ==
    /\ main = "kill"
    /\ bTerminate' = TRUE
    /\ main' = "join"
    /\ UNCHANGED <<queueVars, entry, written, bDone, dwMainThreadError, result>>
    /\ UnchangedByMain

MainReturns ==
    /\ main = "join"
    /\ ~IfActive
    /\ result' = IF dwMainThreadError = "none" \/ Error # "none"
                   THEN Error ELSE dwMainThreadError
    /\ main' = "returned"
    /\ UNCHANGED <<queueVars, entry, written, bDone, dwMainThreadError, bTerminate>>
    /\ UnchangedByMain

-----------------------------------------------------------------------------
(* From outside: the connection's abort test turns true for the calling    *)
(* thread; AllTerminate() kills the worker thread.                         *)
AbortRequested ==
    /\ ~bAbort
    /\ main # "returned"
    /\ bAbort' = TRUE
    /\ UNCHANGED <<queueVars, workerVars, mainVars, bTerminate>>

AllTerminate ==
    /\ IfActive
    /\ main # "returned"
    /\ bTerminate' = TRUE
    /\ UNCHANGED <<queueVars, workerVars, mainVars, bAbort>>

WorkerStep ==
    \/ WorkerStarts
    \/ WorkerFails
    \/ WorkerHangs
    \/ \E s \in {200, 300, 400}, len \in 0 .. NoLength : HeadersReceived(s, len)
    \/ ReceiveChunk
    \/ ReceiveEnd
    \/ ReceiveErrorEnd
    \/ PushWaits
    \/ PushEntry
    \/ ReceiveComplete
    \/ WorkerExits

MainStep ==
    \/ MainWait
    \/ MainWaitFailed
    \/ DrainTest
    \/ MainPop
    \/ MainWrite
    \/ MainWriteFailed
    \/ ExitFlagTest
    \/ DoneTest
    \/ MainKill
    \/ MainReturns

StreamNext == WorkerStep \/ MainStep \/ AbortRequested \/ AllTerminate

StreamSpec == StreamInit /\ [][StreamNext]_streamVars

(* The waits of the two threads are timed (MsgEvent two seconds,           *)
(* WaitForQueue one, WaitComplete by its timeouts), so each always takes   *)
(* its next step.  The wait of a worker that hangs is not: it has no step. *)
FairStreamSpec == StreamSpec /\ WF_streamVars(WorkerStep) /\ WF_streamVars(MainStep)

-----------------------------------------------------------------------------
AllReceived == [i \in 1 .. received |-> i]

(* What S3Read promises: the file gets the chunks received, in order, none *)
(* lost or doubled, whatever fails, and nothing once it has returned.      *)
Download == INSTANCE Transfer
    WITH MayStopShort <- TRUE, source <- AllReceived, dest <- written,
         outcome <- IF main # "returned" THEN "running"
                    ELSE IF result = "none" THEN "success" ELSE "failed"

DownloadsInOrder == Download!TransferSpec

(* S3Read returns success only if the transfer has ended with a good       *)
(* status and the announced length, and no step of either thread failed;   *)
(* when the calling thread has met the last entry, all is written too.     *)
SuccessIsReal ==
    main = "returned" /\ result = "none" =>
        /\ bWorkerDone
        /\ status = 200
        /\ length \in {received, NoLength}
        /\ dwMainThreadError = "none"
        /\ bDone => written = AllReceived

(* S3Read returns, whichever of the two threads fails or is aborted, if    *)
(* its worker thread could be created and its request could be opened.     *)
(* CreateThread's result is not looked at, and without a thread only an    *)
(* abort ends the wait for data; a worker that hangs in CleanupCurState    *)
(* keeps KillThreadWait waiting whatever is aborted.                       *)
S3ReadReturns == worker # "failed" ~> (main = "returned" \/ worker = "hung")

(* "the original thread will read the data off of the queue and write it   *)
(* to disk" (FileSupport.cpp): when S3Read returns success, all of it.     *)
SuccessMeansWritten ==
    main = "returned" /\ result = "none" => written = AllReceived
=============================================================================
