# A verification project for the ECS Object Client (Windows, C++)

TLA+ models of the ECS/S3 client library in `src/ECSUtil`: its locks, queues,
threads and pools, the transfers and requests built on them, and the operations
that take more than one request.  TLC checks them on small instances; TLAPS
checks theorems about the core for every instance.  `PROJECT.json` lists the
components, the runs, the mutants, the source lines behind every definition, the
findings, the hazards and the theorems.

## 1. The system

| Component | State | Operations | Interacts with |
|---|---|---|---|
| `CRWLock`, `CRWLockAcquire` (CRWLock.cpp) | an `SRWLOCK`; `Instances`, the acquire objects on it (`bLocked`, `bWrite`, thread) | constructor, `Lock`, `Unlock`, destructor | used by the queues, the pools and the connection |
| `CSharedQueue`, `CSharedQueueEvent` (CSharedQueue.h/.cpp) | a `std::list` under a `CRWLock`; `EventList` of linked events | push with a size limit, pop, clear, `Link`, `Unlink`, `TriggerEvent` | carries stream data between a file thread and a network thread, and the messages of the pools |
| `CSimpleWorkerThread` (SimpleWorkerThread.cpp) | `m_pWorkEvent`, `bTerminate`, `bRunning`, `hThread`, `pThread`, `TermEventList`, two critical sections | `CreateThread`, `StartWork`, `KillThread`, `KillThreadWait`, `AddTermEvent`, destructor; `ThreadProc` | base of the stream threads, the pool threads and the timers |
| `CThreadPool` (ThreadPool.h) | `Pool` of threads, `MsgQueue`, `FutureMsgQueue`, groups, limits | send (delayed, prioritised), search, kill, terminate, add and retire threads | multi-part upload |
| `SendRequest` and address selection (ECSConnection.cpp) | `IPListHost`, `BadIPMap`, `LoadBalMap`, `dwMaxRetryCount`; per request its list, index, `IPUsed` | `SetIPList`, `GetNextECSIP`, `TestAllIPBad`, `LogBadIPAddr`, the retry loop | every S3 operation; the map is shared by all connections |
| `SendRequestInternal`, `WaitComplete`, the WinHTTP callback | handles, callback context, received callbacks | prepare, send, receive, wait, abort, close | WinHTTP's threads |
| State map, sessions, throttle (ECSConnection.cpp) | per-thread states with reference counts; idle sessions; byte quotas per host | `GetStateBuf`, `GarbageCollect`, `AllocSession`, `KillHostSessions`, throttle timer | every request |
| Streamed transfers `S3Read`, `S3Write` (FileSupport.cpp) | a worker thread, a bounded queue, done flags, two error values | the calling thread's loop and the worker's `DoWork` | the queue, the worker thread, `SendRequestInternal`, the file stream |
| `DoS3MultiPartUpload` (FileSupport.cpp) | part list, pending list, `CMPUPool` | split, feed, retry, complete or abort | the pool, one queue for each part |
| Listings, deletes, copies (ECSConnection.cpp) | the context of a listing, `S3DeletePathList`, the parts of a copy | page loops, recursive delete in batches, copy + ACL + delete | `SendRequest`, other clients of the server |
| Administrative functions (ECSConnection.cpp) | `Port` of the connection object, the token of the thread's state | save the port, set it, send, set it back | every other request of the object |
| Other S3 requests, XML, signing | none beyond the request | build, send, parse | `SendRequest` |
| `CBuffer`, `UriUtils`, `fmtnum`, AES, logging, error tables, S3Test | values | conversions, wrappers | everything |

What is hard here: threads that share objects under locks they take
re-entrantly; members read without the lock that protects them; bounded queues
whose limit is tested before the lock is taken; aborts and kills that arrive at
any step; transfers split over two or more threads, any of which may fail;
callbacks of WinHTTP that come late; retries of requests that may already have
been answered; maps that overlapping requests fill together; operations of many
requests, each of which may fail before or after the server has acted, on objects
that other clients change.  `hazards` in `PROJECT.json` lists each of these at its
line, with the properties that are about it.

## 2. Modules

| Module | Models | Checked by | Proved in |
|---|---|---|---|
| `RWLock` | `CRWLockAcquire` on `CRWLock` | `MCLockOrder` | `ThreadingProofs` |
| `LockOrder` (extends `RWLock`) | the users' locking discipline | `MCLockOrder` | `ThreadingProofs` |
| `SharedQueue` | `CSharedQueue` with limit and events | `MCStreamRead`, `MCStreamWrite` | `StreamReadProofs` |
| `WorkerThread` | `CSimpleWorkerThread` | `MCWorkerThread` | `ThreadingProofs` |
| `Transfer` | what a streamed transfer promises (abstract) | by refinement | `StreamReadProofs`, `StreamWriteProofs` (that it is implemented) |
| `StreamRead` (extends `SharedQueue`, implements `Transfer`) | `S3Read`, the receive loop, `Read` | `MCStreamRead` | `StreamReadProofs` |
| `StreamWrite` (extends `SharedQueue`, implements `Transfer`) | `S3Write`, the send loop, `Create` | `MCStreamWrite` | `StreamWriteProofs` |
| `ThreadPool` | `CThreadPool`, `CThreadWork` | `MCThreadPool` | `ThreadPoolProofs` |
| `MultiPart` | `DoS3MultiPartUpload`, `CMPUPool`, the four multi-part requests | `MCMultiPart` | `MultiPartProofs` |
| `Failover` | `SendRequest` and the bad address map | `MCFailover` | `FailoverProofs` |
| `Connection` | `SendRequestInternal`, the WinHTTP callback, thread states, sessions, throttle | `MCConnection` | `ConnectionProofs` |
| `Listing` | the four listings | `MCOperations` | `OperationsProofs` |
| `BulkDelete` (extends `Listing`) | `DeleteS3` | `MCOperations` | `OperationsProofs` |
| `CopyObject` | `RenameS3`, `CopyS3`, `UpdateMetadata` | `MCOperations` | `OperationsProofs` |
| `Admin` | the administrative functions | `MCOperations` | `OperationsProofs` |
| `Operations` (extends the four) | one thread and its calls, other clients | `MCOperations` | `OperationsProofs` |

The `MC` modules give the constants their values.  Definitions marked "Seeded
fault" are wrong variants of the definition that follows them, one for each
property: put in its place, each makes TLC report that property violated
(`mutants` in `PROJECT.json`).  Every module has one type invariant; the type
invariants hold in the same instances and are not among the runs' properties.

**RWLock.**  `frames[t]` is the stack of `CRWLockAcquire` objects of thread `t`;
a lock is held re-entrantly when an older locked object of the same thread is on
it.  `Construct`, `Lock`, `Unlock` and `Destruct` are the public members;
`LockReentrant`, `LockNative` and `Acquired` are the rest of `Lock`, with the
wait inside `AcquireSRWLock...` a state of its own.  `excl` and `shar` are the
owners of the external `SRWLOCK`; its order among waiters is left open.

**LockOrder.**  The comment "always lock pool first, then msg if you need both
locked" as a rank on locks: a scoped acquisition is either of a lock the thread
holds in a compatible mode, or of one after all it holds.  `WaitsFor` includes
the readers that an `SRWLOCK` may hold back behind a waiting writer.

**SharedQueue.**  One step for each member under `rwlQueue`; a limited push is
`BeginPush` (the unlocked test), the loop of `WaitForQueue` and `Push`.  Triggers
use the size before a push or pop, and after a clear, as the code does.

**WorkerThread.**  One step for each member under `csWorkEvent`, except the last
critical section of `ThreadProc`, whose assignments `KillThreadWait` and
`IfActive` can see one by one because they read without the lock.  `destroyed`
follows the destructor through the members (`TermEventList` among them) to
`~CSimpleWorkerThreadEvents`, which takes the lock.

**Transfer.**  The promise of `S3Read` and `S3Write`: what one thread takes from
the source the other writes to the destination, in order, none lost or doubled,
until the transfer ends, once.  `MayStopShort` says whether success may leave
records unwritten; it is `FALSE` for `S3Write` and `TRUE` for `S3Read` (finding 1).

**StreamRead.**  The calling thread's loop, test by test, and the worker: the
headers, each chunk, the limited push with the worker's abort test, the last
entry, the error paths, and the checks of status and length that `SendRequest`
and `Read` make after the last entry was queued.  Chunk *i* is the number *i*,
so the file's content is a sequence that shows loss, repetition and reordering.
`AbortRequested` is the caller's abort, `AllTerminate` the kill from outside.
`WorkerThread` is reduced to what `S3Read` sees of it.

**StreamWrite.**  The calling thread stats the file, may hash it, reads and
pushes it; the worker makes the PUT and sends the entries, cut by the largest
write or gathered into the chunks of signature version 4.  `FileChanges` appends
to the file, truncates or overwrites it at any time.  The server stores the
object when it has as many records as were announced and the checksum fits.

**ThreadPool.**  A section under the `Pool` and `MsgQueue` locks is one step, and so is
every unlocked read.  One section waits under the `Pool` lock: the clear of the list at
the end of `KillThreadQueueSRW`, which is a section of its own after the test that no
thread is active (`AllStopped`, `ClearPool`); while it waits (`clearing`) nobody else
gets the lock (`PoolUnlocked`).  Only an insert at the front sets the events of the
threads, because it is `push_front`; one behind other entries is `std::list::insert`,
which triggers nothing.  As to the rest, the local variables a thread keeps across
sections are `loc[a]`, so that a limit computed before `DoProcess`, an entry's address
kept over it, or a due entry copied by two threads can be stale when used.  Time is an
action that makes entries due.  `Scenarios` says what is sent and what the owner does:
nothing, lower the maximum, kill messages and old threads, terminate, discard; or that
`DoProcess` refuses a message once.

**MultiPart.**  `S3PartList` is the division of the file, as a function of its size; the
calling thread dispatches parts, waits, harvests finished ones and feeds the queues of
the others; the threads of the pool send what is in the queue of their part.  The pool
is reduced to its queue and threads: `msgs` are the messages whose `bComplete` is not
set, and a thread that has set it (`WorkerDone`) leaves `DoProcess` and takes its
message off in a step of its own (`WorkerLeaves`), while the calling thread may already
have given the part to the pool again; such messages count in `MsgQueueCount`.  The
first request of a thread may hang (`hung`, see section 4).  `ObjectIntact` says of a
completed upload that the parts, in the order of their numbers, are the records of the
file from the first to the last, and that the server has each of them.  `lost` records
that the request to begin or to abort the upload itself failed, which no client can
repair.

**Failover.**  An attempt returns and is one step with the class of its outcome; the
classes are the ones the tests in `SendRequest`, `IfServerReached` and `IfMarkIPBad`
tell apart.  An entry of `BadIPMap` may be found too old whenever `GetNextECSIP` looks
(its age is not a variable).  The connection is initialised; all requests go to one
host.

**Connection.**  `req` is the thread in `SendRequestInternal`, `net` the request
handle inside WinHTTP (external: one pending command, callbacks that do not
overlap, `HANDLE_CLOSING` last), `state` the callback context, which is part of
the thread's entry in the state map and may be removed by `GarbageCollect` once no
reference is left.  The callback is two steps, because `lExitFlag` is set after
its lock.  The wait for `HANDLE_CLOSING` may time out or fail too (`WaitTimeout`): the
handle is then `abandoned`, the request returns, and the last callback finds its
context as it is by then, or gone (for which there is no step: what the callback does
there is undefined).  Of sessions, `ChangeSetting` stands for the setters that call
`KillHostSessions`, after they have changed the member, and `ChangeForNewSessions` for
`SetUserAgent`, `SetHttpsProtocol` and `SetGlobalHttpsProtocol`, which do not;
`invalidated` is the last change of the first kind.  The timer thread grants and caps
by the time since it last ran, which may be several cycles (`late`).  A body is a
buffer or a stream; the pieces of a stream that follow the taking of its last entry
(`tail`) are sent and not charged.  On an authorization round a stream that was sent has
no more data, and `WaitStreamSend` gives up; a round with an unused stream is not
represented.  `level`, `most`, `aborted` and `uncharged` are history variables: a leaky
bucket beside the quota, the most that was granted at once, the requests that were
aborted while the quota was overdrawn, and the pieces that were not charged.

**Listing, BulkDelete, CopyObject, Admin, Operations.**  `SendRequest` is one step here,
and may fail before or after the server has acted.  The server is external: keys in
order, answers of at most `MaxKeys` entries, a next marker as S3 defines it.  The
contexts of the XML callbacks are records that keep what an answer does not set, as in
the code.  `BulkDelete` has the recursion of `DeleteS3Internal` as a stack, and uses the
listing of `Listing` for the folders.  `CopyObject` has the content of an object as a
generation for each part, so that a copy torn between two writes can be seen.  Its
headers are what the writer gave, empty or not, metadata (`x-amz-meta-`) or not.
`RenameS3` puts together all headers of the `HEAD` answer and the caller's (`Merged`);
below 5 GB `CopyS3` sends of them what is metadata and not empty (`SentByPut`), above it
all of them with a content type of its own (`SentByInitiate`); whether a server accepts
`Content-Length` and the like there is left open, since every request may fail.  An ACL
is that of a generation, with owner and groups as the server made it (`Own`), or as
`WriteACL` writes it back: without owner, every grantee a canonical user (`AsUsers`).
`Ascending` and `Descending` put a set of keys in order by rank, in a form the provers
can reason about.  `Operations` lets a thread call one of them, while other clients
create, delete and write, and `GarbageCollect` drops a thread's token.

## 3. Runs

| Run | Instance | Properties | Distinct states |
|---|---|---|---|
| `lock_order` | 3 threads, the two locks, 3 objects each, symmetric | `NoDeadlock`, `MutualExclusion`, and no deadlock state | 18,848 |
| `worker_thread` | 2 callers, 2 starts for each thread | `AfterWaitNoWork`, `NoLostTermination`, `NotUsedWhenFreed`; `KilledThreadEnds`, `KillWaitReturns` | 9,042 |
| `stream_read` | 4 chunks, limit 1, every status and length, thread creation may fail | `QueueBound`, `NoLostWakeup`, `SuccessIsReal`; `DownloadsInOrder` (refinement), `S3ReadReturns` | 154,996 |
| `stream_write` | files of 0, 1 and 5 records, buffers of 2, chunks of 3, writes of 1 | `SuccessMeansStored`; `UploadsInOrder` (refinement), `S3WriteReturns` | 445,842 |
| `failover` | 1 thread, 2 address lists, all classes of outcomes, 4 attempts; 2 threads, 1 list | `NeverResent`, `AloneFindsAddress`, `SomeIPUsable`; `RequestEnds` | 304,396 |
| `thread_pool` | 3 thread entries, at most 2 threads, 3 kinds of messages, 11 scenarios | `GroupExclusion`, `NothingLost`, `ServiceThread`, `NoWorkAfterTerminate`; `MessageServiced`, `TerminateReturns` | 150,351 |
| `multi_part` | 4 files, 1 or 2 threads, 1 retry, queue of 1, 1 message beyond the threads | `ObjectIntact`, `OneUploadPerPart`, `UploadClosed`; `UploadReturns` | 742,025 |
| `connection` | 6 systems: all faults; shared sessions, both kinds of setters; shared throttle, upload; throttle, two downloads with aborts; throttle, streams and a late timer; small streams | `ContextAlive`, `AnswerIsWhole`, `SettingsTakeHold`, `ThrottleHolds`; `RequestReturns` | 517,187 |
| `operations` | 7 keys, 2 folders, 2 buckets, pages and batches of 2, 6 headers, 2 changes by others | `ListedOnce`, `FolderAfterContents`, `DeleteIsReal`, `CopyIsReal`, `PortKept`; `OperationReturns` | 81,017 |
| `stream_read_tail` | 2 chunks | `SuccessMeansWritten` is violated (finding 1) | |
| `listing_marker` | the listing of the whole bucket without delimiter | `ListedOnce` is violated (finding 2) | |
| `admin_port` | 2 threads | `PortKept` is violated (finding 3) | |

*Bounds.*  Three nested objects give the outer writer, an inner reader and a
further writer, which is every pair of modes below a third; three threads give
an owner, a waiting writer and a reader behind it.  A queue of limit one with
four chunks passes through empty, at the limit, over the limit and waiting, and
wraps round.  Buffers of 2, chunks of 3 and writes of 1 cut five records at
different places.  Four attempts reach the third timeout and one beyond it.  Two
overlapping requests on a list of two can mark all of it.  Three entries for at
most two threads let one be ending while two run, and be used again.  The files of
`multi_part` are below a part, of a part and a remainder, of three parts, and of
more parts than allowed.  Two requests of a thread find the state of the first, or
a new one; three pieces overdraw a quota of one, and a timer that is a cycle late grants
two at once.  A thread whose last handle still owes callbacks sends no other request
(`Begin`), a bound on how many abandoned handles there are.  One message beyond the
threads (`Ahead`; the code has four) lets parts wait in the pool, and old messages lie
beside new ones.  Three pages of two give a first,
a middle and a last page; six keys in batches of two separate a folder from its
contents.  `MaxDepth`, `MaxAborts`, `MaxStarts`, `NumChunks`, `MaxChanges`,
`MaxWrites`, `MaxAdminCalls`, `Threads` of the pool and the fields of `Scopes`
are bounds of the model only.

*Deadlock checking* is on for `lock_order` and off where the system may stop:
requests, transfers, objects and calls come to their end.

*Fairness.*  `WorkerThread`: the operating system runs the thread and `DoWork` returns
(weak fairness of `ThreadStep`); a caller in `KillThreadWait` gets the critical sections
it competes for (strong fairness of its steps, a Windows critical section being handed
to its waiters).  `StreamRead`, `StreamWrite`: every wait of both threads is timed (two
seconds on the events, one in `WaitForQueue`, the WinHTTP timeouts in `WaitComplete`),
but for `WaitForCallbackDone` after a set-up that failed, where the worker is `hung` and
has no next step; otherwise each thread always takes its next step (weak fairness).
`ThreadPool`: every pool thread is scheduled and wakes by its cycle time at the latest,
a send that has begun goes on, time passes; a thread that needs the `Pool` lock while
the owner waits under it (`clearing`) has no next step.  `MultiPart`: the wait of the
calling thread is five seconds, an upload without data times out; a thread that hangs in
its first request has no next step.  `Failover`: WinHTTP completes every attempt, if
only with a timeout; an attempt that hangs in `WaitForCallbackDone` is left out.
`Connection`: a request takes its next step, WinHTTP delivers every callback it owes,
the timer runs when its cycle is over, a setter that has begun ends.  `Operations`:
`SendRequest` returns, which is what `Failover` and `Connection` show but for the same
case.

## 4. What the runs found

1. *`S3Read` may lose the end of the object and return success*
   (FileSupport.cpp:263).  The queue is seen empty, the worker pushes the rest
   and sets `bWorkerDone`, and the loop ends on that flag.  `SuccessIsReal`
   states what does hold: when the last entry was met, everything was written.
2. *A listing without delimiter repeats its second page* (ECSConnection.cpp:3837).
   The last name becomes the marker only while `Context.sS3NextMarker` is empty,
   and the context is that of all pages.  Listings of up to two pages, paged ones
   (a context for each call) and those with a delimiter are not affected; those
   are what `operations` checks.
3. *Administrative calls of two threads exchange ports* (ECSConnection.cpp:5916).
   With one thread `PortKept` holds, except after a failure of the XML writer,
   which leaves the function past the line that sets the port back
   (ECSConnection.cpp:6167); the property excepts that exit.

Met while modelling; the models follow the code, and the properties state what
holds in spite of it:

* A callback may come after its request has returned: `CloseRequest` ignores the result
  of the wait for `HANDLE_CLOSING` (ECSConnection.cpp:1292); when that times out or
  fails, `lExitFlag` is still the one of the callback before, and the last callback runs
  in a context which `GarbageCollect` may have deleted.  `ContextAlive` excepts these
  handles (`abandoned`, `late`) and states what holds of all others.
* The end of a stream is not charged to the throttle (ECSConnection.cpp:2226): the loop
  breaks on the last entry before it comes to the quota, so that short streams are never
  charged.  `ThrottleHolds` is the bound with these pieces counted apart.
* A copy below 5 GB drops headers the caller gave (ECSConnection.cpp:4255), those that
  are empty or do not begin with `x-amz-meta-`, with success; a larger copy sends them.
  `CopyIsReal` states what holds of both: content and non-empty metadata.
* `StartWork` calls before the thread wakes are one run of `DoWork`
  (SimpleWorkerThread.cpp:151; SimpleWorkerThread.h:67 says each call is one).
* `KillThreadWait` may return while the thread is in its last critical section
  (SimpleWorkerThread.cpp:240), and the destructor destroys `TermEventList`
  meanwhile; the events' destructor waits for the lock (`NotUsedWhenFreed`).
* `S3Read` and `S3Write` ignore the result of `CreateThread` (FileSupport.cpp:208):
  without a thread only an abort ends them.  `S3ReadReturns` and `S3WriteReturns`
  except that case.  An error of the disk is replaced by the abort of the worker.
* The limit of a queue is tested with `>` and before the lock: `QueueBound` is the
  bound that holds.
* A request that fails at every address ends without the disconnect callback
  (ECSConnection.cpp:1592, against the comment at 1460), and one that fails and
  then succeeds at the same address marks it bad (1421).
* Two pool threads may send a due message of the future queue twice
  (ThreadPool.h:1226); after the maximum was lowered two threads may both end
  (ThreadPool.h:423), which is why `ServiceThread` and `MessageServiced` except a
  lowered maximum; `Terminate` starts threads again when it flushes the future
  queue (ThreadPool.h:961), and they find `bDisable` set (`NoWorkAfterTerminate`).
* `KillThreadQueueSRW` drops the lock between the test that no thread is active and
  the clear of the list (SimpleWorkerThread.h:308): a thread that a sender starts in
  between is destroyed under the `Pool` lock, which it needs to end, and neither
  `Terminate` nor anybody who needs the lock goes on.  `TerminateReturns` excepts
  exactly that.  A message that is inserted behind others wakes nobody
  (ThreadPool.h:1047); it is found when a thread comes round.
* `size / part > 1000` admits 1001 parts (FileSupport.cpp:675; `ObjectIntact` is about
  the coverage of the file, and not about the number of parts), and a file
  truncated during a multi-part upload makes the feeding loop read zero bytes for
  ever (FileSupport.cpp:770): `UploadReturns` excepts it.
* `WaitForCallbackDone` waits for a flag only a callback sets: a request whose
  set-up fails in a state that is new does not return (ECSConnection.cpp:2652).
  `RequestReturns` excepts exactly that.  The worker of a transfer and the threads of a
  multi-part upload are new, and so are their states: there the caller waits for a
  thread that never ends, in `KillThreadWait` or in `~CMPUPool`.  The models have the
  step (`WorkerHangs`, `hung`), and `S3ReadReturns`, `S3WriteReturns` and
  `UploadReturns` except it.  `Failover` and `Operations` assume that an attempt
  returns.
* A request that is aborted while it waits for the quota leaves the loop in debt
  (ECSConnection.cpp:2285), and the thread's next request sends a piece before it
  looks at the quota again: each abort adds a piece to what may be over the rate.
  `ThrottleHolds` counts them.  A timer thread that is late grants, and caps at, the
  rate for the time that has passed (454): a burst of that size.
* The session key has no port or proxy (ECSConnection.h:1180).  `SetSecret`, `SetUser`,
  `SetHost`, `SetIPList`, `SetSSL`, `SetPort` and `SetProxy` invalidate every session,
  those of other hosts too, and of these `SettingsTakeHold` holds.  `SetUserAgent`
  (2764), `SetHttpsProtocol` and `SetGlobalHttpsProtocol` (524) invalidate none,
  although `InitSession` uses what they set: requests after them may get a session that
  was opened before, and nothing is claimed of them.
* A multi-part upload may have a part in the pool twice: the message of an upload that
  has failed, on its way out, and the one that tries again (FileSupport.cpp:975).
  `OneUploadPerPart` says what holds: only one of them is being uploaded.
* A copy of 5 GB or more sends every header of the `HEAD` answer, `Content-Length`
  included, to `S3MultiPartInitiate` (2905, 5379).  `WriteACL` writes an empty owner
  and every grantee, groups too, as a canonical user (4546, 4572).
* A paged listing whose rest is deleted between two calls ends with "not found"
  (ECSConnection.cpp:3827).  A delete over two buckets fails or not depending on
  how the batches fall (3160).  A rename of an object to its own name deletes it,
  and a rename deletes what another client has written since the copy (2938).
  `UpdateMetadata` overwrites what another client wrote since it read (4353).

## 5. What is proved

For every set of threads, locks, producers, callers and every bound:

* `ThreadingProofs`, of `RWLock`: `MutualExclusion`, `NativeModeMatches` and
  `OnlyUpgradeSelfBlocks`, from the inductive invariant `IndInv`.  Mutual
  exclusion of the objects is not inductive by itself: it needs that the
  `SRWLOCK` is held in the mode the objects need (`NativeModeMatches`), which
  needs that a nested writer has a writer below it (`WritesOutermost`) so that
  the last object to unlock releases in the right mode, and that a thread inside
  `Lock` works on an unlocked object and found no compatible one (`InLockCode`).
* There too, of `LockOrder`: `NoDeadlock`, from `IndInv` and `AsksUpward`.  In a set
  of threads that all wait, take one whose lock has the highest rank; the thread it
  waits for holds that lock or waits for it as a writer, so it waits for a lock
  of higher rank, or for a holder that does.
* There too, of `WorkerThread`: `AfterWaitNoWork`, `EventWhileWaiting`,
  `NoLostTermination` and `NotUsedWhenFreed`, from `WorkerInv`: each member that
  is read without the lock shows the end only when `ThreadProc` has left its loop
  (`UnlockedReads`), and the lock is held exactly in the last critical section
  (`InsideLast`).
* `StreamReadProofs`, of `SharedQueue`: type correctness, `QueueBound` and
  `NoLostWakeup`, from `QueueInv`: the records queued and those whose push has passed
  the test stay within the bound together (`CommittedBound`), and a producer in the
  loop of `WaitForQueue` is linked (`LinkedWhileWaiting`).  Assumes finitely many
  producers.
* There too, of `StreamRead`: type correctness, `SuccessIsReal`, the queue's two
  invariants in the composition, and that every step of `S3Read` is a step of
  `Transfer` or a stutter (`DownloadRefines`), for every number of chunks, limit
  and number of aborts.  From `StreamInv`: what is written, popped, queued and held
  by the worker is, in this order, what was received; the last entry is queued
  once, by a worker that has nothing else to push; and `QueueInv`, whose steps are
  reused.
* `StreamWriteProofs`: type correctness, `SuccessMeansStored`, and that every step of
  `S3Write` is a step of `Transfer` or a stutter (`UploadRefines`), for every file,
  every change of it, and every size of buffers, chunks and writes.  From `WriteInv`:
  what was sent, gathered for the next chunk, queued and held lies, in this order and
  without gaps, in what was read (`InOrder`: there are offsets at which the entries of
  the queue begin, so that no sum over the queue is needed); nothing is read or pushed
  behind the last entry (`LastIsLast`); so a worker that has met it has sent
  everything, and an answer without error stands for a stored object (`Created`),
  which the comparison of the sizes makes the whole file (`Compared`).
* `FailoverProofs`: type correctness, `NeverResent`, `SomeIPUsable` and
  `AloneFindsAddress`, for every set of requests, address lists and limits.  From
  `FailoverInv`: `i` counts the attempts at each point of the loop, and while the
  request may be sent nothing it tried forbids a repetition (`Counted`,
  `MayRetry`); a request works on a list of the host, so that `TestAllIPBad` in
  `LogBadIPAddr` has looked at the list it marks (`ReqInv`); test connections
  lower the limit but not to zero (`RetriesLeft`).  `AloneFindsAddress` also needs
  that the search of `GetNextECSIP` goes round the whole list from wherever the
  load balancer starts (`GoodPlaceExists`).  Assumes lists that are not empty.
* `MultiPartProofs`: type correctness, `OneUploadPerPart`, `UploadClosed` and
  `ObjectIntact`, for every file, number of threads, of retries and limit.  From
  `UploadInv`: the parts lie behind one another and cover the file (`PartsLaidOut`,
  the arithmetic of the division rounded up); what a thread has sent of a part and
  what is in the part's queue are consecutive up to the cursor of the calling
  thread; a complete part is at the server as it lies in the file; the pending
  entries are of different parts, the messages that are not complete too, and a thread in
  a request has one of these messages to itself, whatever message it may still have to
  take off the pool when it is done; and an upload that was begun is known to the
  calling thread until it is completed or aborted.
* `ThreadPoolProofs`: type correctness, `GroupExclusion`, `NothingLost` and
  `NoWorkAfterTerminate`, for every set of threads, clients, messages and
  scenarios.  From `PoolInv`: addresses on `MsgQueue` are distinct (`DistinctAdr`);
  from `Pick` to `Finish` a thread is marked in use in the group of its message and
  its entry is on the queue, marked (`EntriesKept`), while nobody else has it
  (`EntriesApart`); the threads in use are in groups that run together
  (`GroupsTogether`), which `IfInGroup` tests for the one and not for the pairs;
  a message is erased from the future queue only when it has been on `MsgQueue`,
  and from there only when it was processed (`ErasedIsSafe`); and from the moment
  the list of threads is cleared those that are started later stay quiet (`Stopped`).
  Assumes finitely many thread entries and messages, and an owner that is neither
  a client nor a pool thread.
* `ConnectionProofs`: type correctness, `ContextAlive`, `AnswerIsWhole`,
  `SettingsTakeHold` and `ThrottleHolds`, for every number of threads, pieces, faults
  and settings, every rate and every delay of the timer; with the exceptions the
  properties state: a handle whose closing timed out, the setters that invalidate no
  session, the ends of streams.  The invariant says of each thread where its request is
  and what then holds of its state, its handle and its session: while a handle is open
  or a callback runs the state is alive and referenced (but not behind an abandoned
  one), a command is pending only while the request waits for it, and what the server
  has of the body is what was sent since the last resend.  A session in use belongs to
  one request; that a new one finds a key is counting (one more key than threads).  For
  the throttle, what has passed, without what was not charged, and what is left of the
  quota never exceed together the most that was granted at once, and the quota is
  overdrawn by no more than the requests that wait for it and those aborted before.
  Assumes finitely many threads.
* `OperationsProofs`, of `Admin`: `PortKept`, for any number of calls of one thread;
  finding 3 is what happens with two.
* There too, of `CopyObject`: `CopyIsReal`, for any number of parts and of writes by
  others and every set of headers.  The invariant follows what was read (headers, ACL,
  parts: `ReadSoFar`) and what was made of it (`MadeSoFar`), step by step.
* There too, of `Listing`: `ListedOnce`, for every bucket, size of pages and changes
  between them.  The marker divides the keys: what is listed is at or before it, and
  what stayed and is before it is listed (`ListedSoFar`).  The hypothesis `Askable`
  leaves out the listing of finding 2 and no other.
* There too, of `BulkDelete`: `DeleteIsReal` and `FolderAfterContents`, for every tree
  of folders and size of batch, with the same hypothesis, which the listings a delete
  makes fulfil.  Every object that is to be deleted is in the list or will be added by a
  frame of the recursion that is still open (`AllComing`); batches are taken from the
  end of the order, where the contents of a folder are.  Assumes finitely many keys, and
  that what is below a folder in a folder is below both, which prefixes are.

Only model-checked: the liveness properties and everything about fairness, which
is outside the proof system's reach; and `ServiceThread`, which is true of the
instances and not of every pool: the limit of the threads grows with the queue
(`QueueRangeMin` > 0), so when the queue shrinks several threads may find themselves
over it at once and all end, as after a lowered maximum; a minimum above the maximum
keeps no thread either, nor does a pool whose threads cannot be started.

## 6. Not modelled, and the plan

Not modelled for good: signing, XML text, string conversions, hashing, logging,
error tables, wrappers of system calls, the sample program (text and system calls
without control of their own); the S3 functions that are one request each
(buckets, versioning, lifecycle, replication, object lock, service information);
`CSimpleRWLock`, which is an `SRWLOCK` and no more.

Left out of modelled components: the waits of a pool other than for its locks, in
`LockOrder` (`WaitsFor` counts locks only; `ThreadPool` has the one wait under a lock);
`WaitForWorkFinished` and the read-only searches
of the pool; queues destroyed with linked events, and events linked to several
queues; the sets of all threads and `KillThreadQueue`; the checksum of a part;
version ids of a delete; several hosts in one map of sessions, addresses or
throttles.

Next: the queue's two invariants in the composition with `StreamWrite`, as
`StreamReadProofs` has them; a condition on the limits of the pool under which
`ServiceThread` holds for every number of threads.
