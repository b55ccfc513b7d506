-------------------------- MODULE MultiPartProofs ---------------------------
(* Proofs about MultiPart, for files, parts and pools of any size and any  *)
(* number of retries: no part is uploaded twice at a time, the upload is   *)
(* closed, and the object is the file.                                     *)
EXTENDS MultiPart, FiniteSetTheorems, SequenceTheorems, TLAPS

-----------------------------------------------------------------------------
(* The inductive invariant.                                                *)

StreamEntry == [rec : Nat, bLast : BOOLEAN]

PartRecord ==
    [base : Nat, length : Nat, bInProcess : BOOLEAN, bComplete : BOOLEAN, retry : Nat,
     cursor : Nat, queue : Seq(StreamEntry), sETag : BOOLEAN]

WorkerRecord ==
    [pc : {"idle", "send", "answer", "done", "leave", "hung"}, part : Nat,
     data : Seq(Nat), err : BOOLEAN]

UploadTypeOK ==
    /\ MultiPartTypeOK
    /\ size \in Nat /\ dwMaxThreads \in Nat /\ fileEnd \in Nat
    /\ part \in [DOMAIN part -> PartRecord] /\ DOMAIN part \subseteq Nat
    /\ worker \in [Workers -> WorkerRecord]
    /\ stored \in [DOMAIN part -> Seq(Nat)]
    /\ {thrown, lost} \subseteq BOOLEAN
    /\ main = "feed" => cur \in DOMAIN pending
    /\ DOMAIN part # {} => size > 0

(* Every message that is not complete is of another part, which is in      *)
(* process.                                                                *)
MsgsApart ==
    /\ \A i, j \in DOMAIN msgs : i # j => msgs[i] # msgs[j]
    /\ \A i \in DOMAIN msgs : part[msgs[i]].bInProcess /\ ~part[msgs[i]].bComplete

(* A thread that uploads works on one of them, no two on the same.         *)
WorkersApart ==
    /\ \A w \in Workers : worker[w].pc \notin {"idle", "leave"} =>
         \E i \in DOMAIN msgs : msgs[i] = worker[w].part
    /\ \A v, w \in Workers :
         v # w /\ worker[v].pc \notin {"idle", "leave"} /\ worker[w].pc \notin {"idle", "leave"}
           => worker[v].part # worker[w].part

(* Every pending entry is of another part, which is in process; a complete *)
(* one has left the pool.                                                  *)
PendingApart ==
    /\ \A i, j \in DOMAIN pending : i # j => pending[i].part # pending[j].part
    /\ \A i \in DOMAIN pending : part[pending[i].part].bInProcess
    /\ \A i \in DOMAIN pending, j \in DOMAIN msgs : pending[i].done => pending[i].part # msgs[j]

(* Entry i of a queue: the i-th record behind first, or empty beyond n.    *)
Upto(n, first, i) == IF i <= n THEN first + i ELSE 0

(* What was sent of a part (d), and after it the records in its queue (q), *)
(* are consecutive from its base (b) and go up to its cursor (c); behind   *)
(* them there may be empty entries, when the file ends there.              *)
Run(b, c, q, d, end) ==
    /\ \A i \in 1 .. Len(d) : d[i] = b + i
    /\ Len(d) <= c
    /\ c <= Len(d) + Len(q)
    /\ \A i \in 1 .. Len(q) : q[i].rec = Upto(c - Len(d), b + Len(d), i)
    /\ c < Len(d) + Len(q) => b + c >= end

Runs(p, data) == Run(part[p].base, part[p].cursor, part[p].queue, data, fileEnd)

QueuesRun ==
    /\ \A w \in Workers : worker[w].pc \in {"send", "answer"} => Runs(worker[w].part, worker[w].data)
    /\ \A i \in DOMAIN msgs : msgs[i] \notin Begun => Runs(msgs[i], << >>)

(* The server has all of part p.                                           *)
HasWhole(data, r) == data = [i \in 1 .. r.length |-> r.base + i] /\ r.sETag

Intact(p) == HasWhole(stored[p], part[p])

(* A part that is complete, or about to be, is at the server.              *)
CompleteIntact ==
    /\ \A p \in DOMAIN part : part[p].bComplete => Intact(p)
    /\ \A i \in DOMAIN pending : pending[i].done /\ ~pending[i].err => Intact(pending[i].part)
    /\ \A w \in Workers : worker[w].pc = "done" /\ ~worker[w].err => Intact(worker[w].part)
    /\ main = "complete" \/ upload = "completed" => \A p \in DOMAIN part : part[p].bComplete

(* The upload at the server, as the calling thread knows it.               *)
UploadKnown ==
    /\ main = "initiate" => upload = "none" /\ ~thrown /\ result = "none"
    /\ main \in {"dispatch", "wait", "harvest", "feed", "complete"}
         => upload = "open" /\ ~thrown /\ result = "none"
    /\ main = "abort" => upload \in {"open", "completed"} /\ thrown /\ result = "none"
    /\ main \in {"terminate", "returned"} =>
         /\ upload = "open" => lost
         /\ result = "success" <=> upload = "completed" /\ ~thrown

UploadInv ==
    /\ UploadTypeOK /\ MsgsApart /\ WorkersApart /\ PendingApart /\ QueuesRun
    /\ CompleteIntact /\ UploadKnown
-----------------------------------------------------------------------------
(* The operators.                                                          *)

(* A sequence without its entry i.                                         *)
LEMMA WithoutProperties ==
    ASSUME NEW S, NEW s \in Seq(S), NEW i \in 1 .. Len(s)
    PROVE  /\ Without(s, i) \in Seq(S)
           /\ Len(Without(s, i)) = Len(s) - 1
           /\ \A j \in 1 .. Len(s) - 1 : Without(s, i)[j] = IF j < i THEN s[j] ELSE s[j + 1]
  <1> DEFINE a == SubSeq(s, 1, i - 1)
             b == SubSeq(s, i + 1, Len(s))
  <1>1. Len(s) \in Nat /\ i \in Nat /\ i >= 1 /\ i <= Len(s)
    OBVIOUS
  <1>2. /\ a \in Seq(S) /\ Len(a) = i - 1
        /\ \A j \in 1 .. i - 1 : a[j] = s[j]
    BY <1>1
  <1>3. /\ b \in Seq(S) /\ Len(b) = Len(s) - i
        /\ \A j \in 1 .. Len(s) - i : b[j] = s[i + j]
    BY <1>1
  <1>4. Without(s, i) = a \o b
    BY DEF Without
  <1> HIDE DEF a, b
  <1>5. /\ a \o b \in Seq(S) /\ Len(a \o b) = Len(a) + Len(b)
        /\ \A j \in 1 .. Len(a) + Len(b) :
             (a \o b)[j] = IF j <= Len(a) THEN a[j] ELSE b[j - Len(a)]
    BY <1>2, <1>3, ConcatProperties, Zenon
  <1>6. ASSUME NEW j \in 1 .. Len(s) - 1
        PROVE  (a \o b)[j] = IF j < i THEN s[j] ELSE s[j + 1]
    <2>1. CASE j < i
      BY <1>1, <1>2, <1>3, <1>5, <2>1
    <2>2. CASE ~(j < i)
      <3>1. j - Len(a) \in 1 .. Len(s) - i /\ i + (j - Len(a)) = j + 1
        BY <1>1, <1>2, <2>2
      <3>2. b[j - Len(a)] = s[j + 1]
        BY <1>3, <3>1
      <3>3. j \in 1 .. Len(a) + Len(b) /\ ~(j <= Len(a))
        BY <1>1, <1>2, <1>3, <2>2
      <3> QED
        BY <1>5, <2>2, <3>2, <3>3
    <2> QED
      BY <2>1, <2>2
  <1>7. Len(a \o b) = Len(s) - 1
    BY <1>1, <1>2, <1>3, <1>5
  <1> QED
    BY <1>4, <1>5, <1>6, <1>7

-----------------------------------------------------------------------------
(* The facts that every step starts from.                                  *)

LEMMA PartFacts ==
    ASSUME UploadInv, NEW p \in DOMAIN part
    PROVE  /\ part[p] \in PartRecord /\ stored[p] \in Seq(Nat)
           /\ part[p].base \in Nat /\ part[p].length \in Nat /\ part[p].cursor \in Nat
           /\ part[p].queue \in Seq(StreamEntry) /\ Len(part[p].queue) \in Nat
           /\ part[p].retry \in Nat
           /\ part[p].bInProcess \in BOOLEAN /\ part[p].bComplete \in BOOLEAN
           /\ part[p].sETag \in BOOLEAN
  <1>1. part[p] \in PartRecord /\ stored[p] \in Seq(Nat)
    BY DEF UploadInv, UploadTypeOK
  <1> QED
    BY <1>1 DEF PartRecord

LEMMA MsgFacts ==
    ASSUME UploadInv
    PROVE  /\ msgs \in Seq(DOMAIN part) /\ DOMAIN msgs = 1 .. Len(msgs) /\ Len(msgs) \in Nat
           /\ \A i \in DOMAIN msgs : msgs[i] \in DOMAIN part
  BY DEF UploadInv, UploadTypeOK, MultiPartTypeOK

LEMMA PendingFacts ==
    ASSUME UploadInv
    PROVE  /\ pending \in Seq([part : DOMAIN part, done : BOOLEAN, err : BOOLEAN])
           /\ DOMAIN pending = 1 .. Len(pending) /\ Len(pending) \in Nat
           /\ \A i \in DOMAIN pending :
                /\ pending[i] \in [part : DOMAIN part, done : BOOLEAN, err : BOOLEAN]
                /\ pending[i].part \in DOMAIN part
  <1> DEFINE Message == [part : DOMAIN part, done : BOOLEAN, err : BOOLEAN]
  <1>1. pending \in Seq(Message)
    BY DEF UploadInv, UploadTypeOK, MultiPartTypeOK
  <1>2. \A m \in Message : m.part \in DOMAIN part
    OBVIOUS
  <1> HIDE DEF Message
  <1>3. /\ DOMAIN pending = 1 .. Len(pending) /\ Len(pending) \in Nat
        /\ \A i \in DOMAIN pending : pending[i] \in Message
    BY <1>1
  <1> QED
    BY <1>1, <1>2, <1>3 DEF Message

LEMMA WorkerFacts ==
    ASSUME UploadInv, NEW w \in Workers
    PROVE  /\ worker[w] \in WorkerRecord /\ worker[w].data \in Seq(Nat)
           /\ Len(worker[w].data) \in Nat /\ worker[w].err \in BOOLEAN
           /\ worker[w].part \in Nat
           /\ worker[w].pc \in {"idle", "send", "answer", "done", "leave", "hung"}
           /\ worker[w].pc \notin {"idle", "leave"} => worker[w].part \in DOMAIN part
  <1>1. worker[w] \in WorkerRecord
    BY DEF UploadInv, UploadTypeOK
  <1>2. worker[w].pc \notin {"idle", "leave"} => \E i \in DOMAIN msgs : msgs[i] = worker[w].part
    BY DEF UploadInv, WorkersApart
  <1>3. worker[w].pc \notin {"idle", "leave"} => worker[w].part \in DOMAIN part
    BY <1>2, MsgFacts
  <1> QED
    BY <1>1, <1>3 DEF WorkerRecord

-----------------------------------------------------------------------------
(* Steps that leave the parts, the messages and the threads alone.         *)

LEMMA QuietKeeps ==
    ASSUME UploadInv, UNCHANGED <<size, dwMaxThreads, partVars, worker, stored>>,
           fileEnd' \in Nat, fileEnd' <= fileEnd,
           main' \in {"initiate", "dispatch", "wait", "harvest", "feed", "complete",
                      "abort", "terminate", "returned", "hung"},
           upload' \in {"none", "open", "completed", "aborted"},
           result' \in {"none", "declined", "success", "failed"},
           thrown' \in BOOLEAN, lost' \in BOOLEAN,
           main' = "feed" => cur' \in DOMAIN pending,
           main' = "complete" \/ upload' = "completed"
             => \A p \in DOMAIN part : part[p].bComplete,
           UploadKnown'
    PROVE  UploadInv'
  <1>1. UNCHANGED <<size, dwMaxThreads, part, pending, msgs, worker, stored, Workers, Begun>>
    BY DEF partVars, Workers, Begun, Uploads
  <1>2. UploadTypeOK'
    <2>1. fileEnd' \in 0 .. size
      BY DEF UploadInv, UploadTypeOK, MultiPartTypeOK
    <2>2. MultiPartTypeOK'
      BY <1>1, <2>1 DEF UploadInv, UploadTypeOK, MultiPartTypeOK
    <2> QED
      BY <1>1, <2>2 DEF UploadInv, UploadTypeOK
  <1>3. MsgsApart' /\ WorkersApart' /\ PendingApart'
    BY <1>1 DEF UploadInv, MsgsApart, WorkersApart, PendingApart
  <1>4. ASSUME NEW p \in DOMAIN part, NEW d \in Seq(Nat), Runs(p, d)
        PROVE  Runs(p, d)'
    <2>1. part[p] \in PartRecord /\ fileEnd \in Nat
      BY DEF UploadInv, UploadTypeOK
    <2>2. part[p].base \in Nat /\ part[p].cursor \in Nat
      BY <2>1 DEF PartRecord
    <2>3. Len(d) \in Nat /\ Len(part[p].queue) \in Nat
      BY PartFacts
    <2>4. part[p].base + part[p].cursor >= fileEnd => part[p].base + part[p].cursor >= fileEnd'
      BY <2>1, <2>2
    <2> QED
      BY <1>1, <1>4, <2>4 DEF Runs, Run
  <1>5. QueuesRun'
    <2>1. ASSUME NEW w \in Workers, worker[w].pc \in {"send", "answer"}
          PROVE  Runs(worker[w].part, worker[w].data)'
      <3>1. worker[w].data \in Seq(Nat) /\ worker[w].part \in DOMAIN part
        BY <2>1, WorkerFacts
      <3>2. Runs(worker[w].part, worker[w].data)
        BY <2>1 DEF UploadInv, QueuesRun
      <3> QED
        BY <1>1, <1>4, <3>1, <3>2
    <2>2. ASSUME NEW i \in DOMAIN msgs, msgs[i] \notin Begun
          PROVE  Runs(msgs[i], << >>)'
      <3>1. msgs[i] \in DOMAIN part /\ << >> \in Seq(Nat)
        BY MsgFacts
      <3>2. Runs(msgs[i], << >>)
        BY <2>2 DEF UploadInv, QueuesRun
      <3> QED
        BY <1>1, <1>4, <3>1, <3>2
    <2> QED
      BY <1>1, <2>1, <2>2 DEF QueuesRun
  <1>6. \A p : Intact(p)' <=> Intact(p)
    BY <1>1 DEF Intact
  <1>7. CompleteIntact'
    BY <1>1, <1>6 DEF UploadInv, CompleteIntact
  <1> QED
    BY <1>2, <1>3, <1>5, <1>7 DEF UploadInv
(* What the calling thread knows at its places.                            *)
LEMMA MainFacts ==
    ASSUME UploadInv
    PROVE  /\ main \in {"initiate", "dispatch", "wait", "harvest", "feed", "complete",
                        "abort", "terminate", "returned", "hung"}
           /\ upload \in {"none", "open", "completed", "aborted"}
           /\ result \in {"none", "declined", "success", "failed"}
           /\ fileEnd \in Nat /\ fileEnd <= fileEnd
           /\ thrown \in BOOLEAN /\ lost \in BOOLEAN
  BY DEF UploadInv, UploadTypeOK, MultiPartTypeOK

LEMMA InitiateKeeps ==
    ASSUME UploadInv, S3MultiPartInitiate
    PROVE  UploadInv'
  <1>1. /\ main = "initiate"
        /\ \/ upload' = "open" /\ main' = "dispatch" /\ UNCHANGED <<thrown, result, lost>>
           \/ /\ main' = "terminate" /\ thrown' = TRUE /\ result' = "failed"
              /\ upload' \in {"none", "open"} /\ lost' = TRUE
           \/ main' = "hung" /\ UNCHANGED <<upload, thrown, result, lost>>
        /\ UNCHANGED <<size, dwMaxThreads, fileEnd, partVars, worker, stored>>
    BY DEF S3MultiPartInitiate, UnchangedByMain
  <1>2. UploadKnown'
    BY <1>1 DEF UploadInv, UploadKnown
  <1>3. upload' # "completed" /\ upload' \in {"none", "open"}
    BY <1>1 DEF UploadInv, UploadKnown
  <1> QED
    BY <1>1, <1>2, <1>3, MainFacts, QuietKeeps

(* An error that is thrown while the upload is open leads to its abort.    *)
LEMMA ThrowKeeps ==
    ASSUME UploadInv, main \in {"dispatch", "wait", "harvest", "feed"}, Throw,
           UNCHANGED <<partVars, worker, serverVars>>, UnchangedByMain
    PROVE  UploadInv'
  <1>1. /\ main' = "abort" /\ thrown' = TRUE
        /\ UNCHANGED <<size, dwMaxThreads, fileEnd, partVars, worker, stored, upload, lost,
                       result>>
    BY DEF Throw, UnchangedByMain, serverVars
  <1>2. UploadKnown' /\ upload = "open"
    BY <1>1 DEF UploadInv, UploadKnown
  <1> QED
    BY <1>1, <1>2, MainFacts, QuietKeeps

LEMMA ReadFailsKeeps ==
    ASSUME UploadInv, ReadFails
    PROVE  UploadInv'
  BY ThrowKeeps DEF ReadFails

(* The calling thread goes on with the upload open.                        *)
LEMMA MainGoesOn ==
    ASSUME UploadInv, main \in {"dispatch", "wait", "harvest", "feed"},
           main' \in {"dispatch", "wait", "harvest", "feed", "complete"},
           UNCHANGED <<partVars, worker, serverVars, thrown, result>>, UnchangedByMain,
           main' = "feed" => cur' \in DOMAIN pending,
           main' = "complete" => \A p \in DOMAIN part : part[p].bComplete
    PROVE  UploadInv'
  <1>1. UNCHANGED <<size, dwMaxThreads, fileEnd, partVars, worker, stored, upload, lost,
                    thrown, result>>
    BY DEF UnchangedByMain, serverVars
  <1>2. UploadKnown' /\ upload = "open"
    BY <1>1 DEF UploadInv, UploadKnown
  <1> QED
    BY <1>1, <1>2, MainFacts, QuietKeeps

LEMMA DispatchEndsKeeps ==
    ASSUME UploadInv, DispatchEnds
    PROVE  UploadInv'
  <1>1. /\ main = "dispatch" /\ main' \in {"complete", "wait"}
        /\ main' = "complete" => \A p \in DOMAIN part : part[p].bComplete
        /\ UNCHANGED <<partVars, worker, serverVars, thrown, result>> /\ UnchangedByMain
    BY DEF DispatchEnds
  <1> QED
    BY <1>1, MainGoesOn

LEMMA WaitEventsKeeps ==
    ASSUME UploadInv, WaitEvents
    PROVE  UploadInv'
  <1>1. /\ main = "wait" /\ UNCHANGED <<partVars, worker, serverVars>> /\ UnchangedByMain
        /\ \/ Throw
           \/ main' = "harvest" /\ UNCHANGED <<thrown, result>>
    BY DEF WaitEvents
  <1> QED
    BY <1>1, ThrowKeeps, MainGoesOn

LEMMA HarvestEndsKeeps ==
    ASSUME UploadInv, HarvestEnds
    PROVE  UploadInv'
  <1>1. /\ main = "harvest" /\ main' \in {"dispatch", "wait"}
        /\ UNCHANGED <<partVars, worker, serverVars, thrown, result>> /\ UnchangedByMain
    BY DEF HarvestEnds
  <1> QED
    BY <1>1, MainGoesOn

(* The server may have completed the upload although the request failed.   *)
LEMMA CompleteKeeps ==
    ASSUME UploadInv, S3MultiPartComplete
    PROVE  UploadInv'
  <1>1. /\ main = "complete"
        /\ \/ /\ upload' = "completed" /\ main' = "terminate" /\ result' = "success"
              /\ UNCHANGED thrown
           \/ /\ upload' \in {"open", "completed"} /\ main' = "abort" /\ thrown' = TRUE
              /\ UNCHANGED result
        /\ UNCHANGED <<size, dwMaxThreads, fileEnd, partVars, worker, stored, lost>>
    BY DEF S3MultiPartComplete, UnchangedByMain
  <1>2. UploadKnown'
    BY <1>1 DEF UploadInv, UploadKnown
  <1>3. \A p \in DOMAIN part : part[p].bComplete
    BY <1>1 DEF UploadInv, CompleteIntact
  <1> QED
    BY <1>1, <1>2, <1>3, MainFacts, QuietKeeps

LEMMA AbortKeeps ==
    ASSUME UploadInv, S3MultiPartAbort
    PROVE  UploadInv'
  <1>1. /\ main = "abort" /\ main' = "terminate" /\ result' = "failed"
        /\ \/ upload' = (IF upload = "open" THEN "aborted" ELSE upload) /\ lost' = lost
           \/ upload' = upload /\ lost' = TRUE
        /\ UNCHANGED <<size, dwMaxThreads, fileEnd, partVars, worker, stored, thrown>>
    BY DEF S3MultiPartAbort, AbortRequestMade, UnchangedByMain
  <1>2. upload \in {"open", "completed"} /\ upload' \in {"open", "completed", "aborted"} /\ thrown
        /\ (upload' = "completed" => upload = "completed")
        /\ (upload' = "open" => lost')
        /\ lost' \in BOOLEAN
    BY <1>1, MainFacts DEF UploadInv, UploadKnown
  <1>3. UploadKnown'
    BY <1>1, <1>2 DEF UploadKnown
  <1>4. upload' = "completed" => \A p \in DOMAIN part : part[p].bComplete
    BY <1>2 DEF UploadInv, CompleteIntact
  <1> QED
    BY <1>1, <1>2, <1>3, <1>4, MainFacts, QuietKeeps

LEMMA AbortRequestedKeeps ==
    ASSUME UploadInv, AbortRequested
    PROVE  UploadInv'
  <1>1. /\ main \in {"dispatch", "wait", "harvest", "feed"}
        /\ UNCHANGED <<size, dwMaxThreads, fileEnd, partVars, worker, main, cur, thrown,
                       result, upload, stored, lost>>
    BY DEF AbortRequested, mainVars, serverVars
  <1>2. UploadKnown' /\ upload = "open"
    BY <1>1 DEF UploadInv, UploadKnown
  <1>3. main = "feed" => cur \in DOMAIN pending
    BY DEF UploadInv, UploadTypeOK
  <1> QED
    BY <1>1, <1>2, <1>3, MainFacts, QuietKeeps

(* A file that shrinks only makes more of the coming reads empty.          *)
LEMMA FileShrinksKeeps ==
    ASSUME UploadInv, FileShrinks
    PROVE  UploadInv'
  <1>1. /\ main = "feed" /\ fileEnd = size /\ fileEnd' = size - 1
        /\ UNCHANGED <<size, dwMaxThreads, partVars, worker, main, cur, thrown, result,
                       upload, stored, lost>>
    BY DEF FileShrinks, mainVars, serverVars
  <1>2. UploadKnown' /\ upload = "open"
    BY <1>1 DEF UploadInv, UploadKnown
  <1>3. cur \in DOMAIN pending
    BY <1>1 DEF UploadInv, UploadTypeOK
  <1>4. DOMAIN part # {}
    BY <1>3, PendingFacts
  <1>5. size \in Nat /\ size > 0
    BY <1>4 DEF UploadInv, UploadTypeOK
  <1>6. fileEnd' \in Nat /\ fileEnd' <= fileEnd
    BY <1>1, <1>5
  <1> QED
    BY <1>1, <1>2, <1>3, <1>6, MainFacts, QuietKeeps
-----------------------------------------------------------------------------
(* Reading the file.                                                       *)

(* n entries of records from first on, empty ones beyond those that Read   *)
(* counts, and those only at the end of the file.                          *)
Consecutive(e, first, n) ==
    /\ e \in Seq(StreamEntry) /\ Len(e) = n
    /\ Read(e) \in Nat /\ Read(e) <= n
    /\ \A i \in 1 .. n : e[i].rec = Upto(Read(e), first, i)
    /\ Read(e) < n => first + Read(e) >= fileEnd
    /\ Read(e) > 0 => first + Read(e) <= fileEnd

LEMMA EntriesConsecutive ==
    ASSUME UploadInv, NEW p \in DOMAIN part, NEW from \in Nat, NEW n \in Nat,
           NEW first, first = part[p].base + from, NEW e, e = Entries(p, from, n)
    PROVE  Consecutive(e, first, n)
  <1> DEFINE room == IF fileEnd <= first THEN 0
                     ELSE IF fileEnd - first < n THEN fileEnd - first ELSE n
             rec(i) == IF first + i <= fileEnd THEN first + i ELSE 0
             last(i) == first + i <= fileEnd /\ from + i = part[p].length
  <1>1. part[p].base \in Nat /\ fileEnd \in Nat /\ first \in Nat
    BY PartFacts, MainFacts
  <1>2. e = [i \in 1 .. n |-> [rec |-> rec(i), bLast |-> last(i)]]
    BY DEF Entries
  <1>3. \A i \in 1 .. n : rec(i) \in Nat /\ last(i) \in BOOLEAN
    BY <1>1
  <1>4. room \in Nat /\ room <= n /\ (room < n => first + room >= fileEnd)
        /\ (room > 0 => first + room <= fileEnd)
    BY <1>1
  <1>5. \A i \in 1 .. n : /\ rec(i) = Upto(room, first, i)
                          /\ (rec(i) # 0 <=> i <= room)
    BY <1>1 DEF Upto
  <1> HIDE DEF room, rec, last
  <1>6. \A i \in 1 .. n : e[i] = [rec |-> rec(i), bLast |-> last(i)]
    BY <1>2
  <1>7. ASSUME NEW i \in 1 .. n
        PROVE  e[i] \in StreamEntry /\ e[i].rec = rec(i)
    <2>1. e[i] = [rec |-> rec(i), bLast |-> last(i)]
      BY <1>6
    <2>2. rec(i) \in Nat /\ last(i) \in BOOLEAN
      BY <1>3
    <2> QED
      BY <2>1, <2>2 DEF StreamEntry
  <1>8. DOMAIN e = 1 .. n
    BY <1>2
  <1>9. e \in Seq(StreamEntry) /\ Len(e) = n
    <2>1. e = [i \in 1 .. n |-> e[i]]
      BY <1>2, <1>6, <1>8
    <2>2. \A i \in 1 .. n : e[i] \in StreamEntry
      BY <1>7
    <2> HIDE DEF room, rec, last
    <2>3. e \in [1 .. n -> StreamEntry]
      BY <1>8, <2>1, <2>2, Zenon
    <2>4. Seq(StreamEntry) = UNION {[1 .. k -> StreamEntry] : k \in Nat}
      BY SeqDef
    <2>5. e \in Seq(StreamEntry)
      BY <2>3, <2>4, Zenon
    <2> QED
      BY <1>8, <2>5
  <1>10. {i \in DOMAIN e : e[i].rec # 0} = 1 .. room
    BY <1>4, <1>5, <1>7, <1>8
  <1>11. Cardinality(1 .. room) = room
    BY <1>4, FS_Interval
  <1>12. Read(e) = room
    BY <1>10, <1>11 DEF Read
  <1>13. \A i \in 1 .. n : e[i].rec = Upto(Read(e), first, i)
    BY <1>5, <1>7, <1>12
  <1> QED
    BY <1>4, <1>9, <1>12, <1>13 DEF Consecutive

-----------------------------------------------------------------------------
(* The parts and the messages.                                             *)

(* A step that changes only part p, and not where it lies in the file.     *)
OnlyPart(p) ==
    /\ DOMAIN part' = DOMAIN part /\ part' \in [DOMAIN part -> PartRecord]
    /\ \A r \in DOMAIN part : r # p => part'[r] = part[r]
    /\ part'[p].base = part[p].base /\ part'[p].length = part[p].length

(* The part that is given to the pool, with its first records.             *)
Gives(p, q, c) ==
    part' = [part EXCEPT ![p].bInProcess = TRUE, ![p].queue = q, ![p].cursor = c]

Given(p, q, c) ==
    /\ OnlyPart(p) /\ part'[p].bInProcess
    /\ part'[p].bComplete = part[p].bComplete /\ part'[p].sETag = part[p].sETag
    /\ part'[p].queue = q /\ part'[p].cursor = c

LEMMA GivePart ==
    ASSUME UploadInv, NEW p \in DOMAIN part, NEW q \in Seq(StreamEntry), NEW c \in Nat,
           Gives(p, q, c)
    PROVE  Given(p, q, c)
  <1>1. part \in [DOMAIN part -> PartRecord] /\ part[p] \in PartRecord
    BY PartFacts DEF UploadInv, UploadTypeOK
  <1>2. /\ DOMAIN part' = DOMAIN part
        /\ \A r \in DOMAIN part : r # p => part'[r] = part[r]
        /\ part'[p] = [part[p] EXCEPT !.bInProcess = TRUE, !.queue = q, !.cursor = c]
    BY <1>1 DEF Gives
  <1>3. /\ part'[p] \in PartRecord /\ part'[p].base = part[p].base
        /\ part'[p].length = part[p].length /\ part'[p].bInProcess
        /\ part'[p].bComplete = part[p].bComplete /\ part'[p].sETag = part[p].sETag
        /\ part'[p].queue = q /\ part'[p].cursor = c
    BY <1>1, <1>2 DEF PartRecord
  <1>4. part' \in [DOMAIN part -> PartRecord]
    <2>1. \A r \in DOMAIN part : part'[r] \in PartRecord
      BY <1>1, <1>2, <1>3
    <2>2. part' = [r \in DOMAIN part |-> part'[r]]
      BY <1>1 DEF Gives
    <2> QED
      BY <2>1, <2>2, Zenon
  <1> QED
    BY <1>2, <1>3, <1>4 DEF OnlyPart, Given

LEMMA FirstEntries ==
    ASSUME UploadInv, NEW p \in DOMAIN part, NEW n, n = Least(MaxQueueSize, part[p].length),
           NEW e, e = Entries(p, 0, n)
    PROVE  n \in Nat /\ Consecutive(e, part[p].base, n)
  <1>1. n \in Nat /\ part[p].base = part[p].base + 0 /\ 0 \in Nat
    BY PartFacts, MultiPartAssumption DEF Least
  <1> QED
    BY <1>1, EntriesConsecutive

LEMMA IntactFrame ==
    ASSUME NEW p, part'[p].base = part[p].base, part'[p].length = part[p].length,
           part'[p].sETag = part[p].sETag, stored'[p] = stored[p]
    PROVE  Intact(p)' <=> Intact(p)
  BY DEF Intact, HasWhole

LEMMA RunsFrame ==
    ASSUME NEW p, NEW d, part'[p].base = part[p].base, part'[p].queue = part[p].queue,
           part'[p].cursor = part[p].cursor, fileEnd' = fileEnd
    PROVE  Runs(p, d)' <=> Runs(p, d)
  BY DEF Runs

(* A part that is not in process is given to the pool.                     *)
LEMMA GiveKeeps ==
    ASSUME UploadInv, main = "dispatch", cur \in DOMAIN part, Ready(cur),
           NEW n \in Nat, NEW first, Consecutive(first, part[cur].base, n),
           Given(cur, first, Read(first)),
           pending' = Append(pending, [part |-> cur, done |-> FALSE, err |-> FALSE]),
           msgs' = Append(msgs, cur), cur' = cur + 1,
           UNCHANGED <<main, thrown, bDeleted, result, worker, serverVars>>, UnchangedByMain
    PROVE  UploadInv'
  <1> DEFINE Message == [part : DOMAIN part, done : BOOLEAN, err : BOOLEAN]
             new == [part |-> cur, done |-> FALSE, err |-> FALSE]
  <1>1. UNCHANGED <<size, dwMaxThreads, fileEnd, worker, stored, upload, lost, thrown, result,
                    Workers, Begun>>
    BY DEF UnchangedByMain, serverVars, Workers, Begun, Uploads
  <1>2. ~part[cur].bComplete /\ ~part[cur].bInProcess /\ upload = "open" /\ UploadKnown'
    BY <1>1 DEF Ready, UploadInv, UploadKnown
  <1>3. part[cur].base \in Nat
    BY PartFacts
  <1>5. /\ DOMAIN part' = DOMAIN part
        /\ \A p \in DOMAIN part : p # cur => part'[p] = part[p]
        /\ \A p \in DOMAIN part : part'[p] \in PartRecord
        /\ part' \in [DOMAIN part -> PartRecord]
        /\ part'[cur].base = part[cur].base /\ part'[cur].length = part[cur].length
        /\ part'[cur].bInProcess
        /\ part'[cur].bComplete = part[cur].bComplete /\ part'[cur].sETag = part[cur].sETag
        /\ part'[cur].queue = first /\ part'[cur].cursor = Read(first)
    BY DEF Given, OnlyPart
  <1>7. /\ msgs' \in Seq(DOMAIN part) /\ Len(msgs') = Len(msgs) + 1
        /\ msgs'[Len(msgs) + 1] = cur /\ \A i \in 1 .. Len(msgs) : msgs'[i] = msgs[i]
        /\ Len(msgs) \in Nat /\ DOMAIN msgs' = 1 .. Len(msgs) + 1
        /\ DOMAIN msgs = 1 .. Len(msgs)
    BY MsgFacts
  <1>8. /\ pending' \in Seq(Message) /\ Len(pending') = Len(pending) + 1
        /\ pending'[Len(pending) + 1] = new
        /\ \A i \in 1 .. Len(pending) : pending'[i] = pending[i]
        /\ Len(pending) \in Nat /\ DOMAIN pending' = 1 .. Len(pending) + 1
        /\ DOMAIN pending = 1 .. Len(pending)
    <2>1. pending \in Seq(Message) /\ new \in Message
      BY PendingFacts
    <2> HIDE DEF Message, new
    <2>2. pending' = Append(pending, new)
      BY DEF new
    <2> QED
      BY <2>1, <2>2
  <1>9. /\ \A i \in DOMAIN msgs : msgs[i] # cur
        /\ \A i \in DOMAIN pending : pending[i].part # cur
        /\ new.part = cur /\ ~new.done
    BY <1>2 DEF UploadInv, MsgsApart, PendingApart
  <1>10. UploadTypeOK'
    <2>1. \A p \in DOMAIN part : part'[p].queue \in Seq(StreamEntry)
      BY <1>5 DEF PartRecord
    <2> QED
      BY <1>1, <1>5, <1>7, <1>8, <2>1
         DEF UploadInv, UploadTypeOK, MultiPartTypeOK, StreamEntry
  <1> HIDE DEF new
  <1>11. MsgsApart'
    <2>1. \A i, j \in DOMAIN msgs' : i # j => msgs'[i] # msgs'[j]
      BY <1>7, <1>9 DEF UploadInv, MsgsApart
    <2>2. ASSUME NEW i \in DOMAIN msgs'
          PROVE  part'[msgs'[i]].bInProcess /\ ~part'[msgs'[i]].bComplete
      <3>1. CASE i = Len(msgs) + 1
        BY <1>2, <1>5, <1>7, <3>1
      <3>2. CASE i \in DOMAIN msgs
        <4>1. msgs'[i] = msgs[i] /\ msgs[i] # cur /\ msgs[i] \in DOMAIN part
          BY <1>7, <1>9, <3>2, MsgFacts
        <4> QED
          BY <1>5, <3>2, <4>1 DEF UploadInv, MsgsApart
      <3> QED
        BY <1>7, <3>1, <3>2
    <2> QED
      BY <2>1, <2>2 DEF MsgsApart
  <1>12. WorkersApart'
    BY <1>1, <1>7 DEF UploadInv, WorkersApart
  <1>13. PendingApart'
    <2>1. \A i, j \in DOMAIN pending' : i # j => pending'[i].part # pending'[j].part
      BY <1>8, <1>9 DEF UploadInv, PendingApart
    <2>2. \A i \in DOMAIN pending' : part'[pending'[i].part].bInProcess
      BY <1>5, <1>8, <1>9, PendingFacts DEF UploadInv, PendingApart
    <2>3. \A i \in DOMAIN pending', j \in DOMAIN msgs' :
            pending'[i].done => pending'[i].part # msgs'[j]
      BY <1>7, <1>8, <1>9 DEF UploadInv, PendingApart
    <2> QED
      BY <2>1, <2>2, <2>3 DEF PendingApart
  <1>14. ASSUME NEW p \in DOMAIN part, NEW d, p # cur, Runs(p, d)
         PROVE  Runs(p, d)'
    <2>1. part'[p] = part[p] /\ fileEnd' = fileEnd
      BY <1>1, <1>5, <1>14
    <2> QED
      BY <2>1, <1>14 DEF Runs
  <1>15. ASSUME NEW p \in DOMAIN part, p = cur
         PROVE  Runs(p, << >>)'
    <2>1. Len(<< >>) = 0 /\ Read(first) - 0 = Read(first) /\ part[cur].base + 0 = part[cur].base
      BY <1>3 DEF Consecutive
    <2> QED
      BY <1>1, <1>3, <1>5, <1>15, <2>1 DEF Runs, Run, Consecutive
  <1>16. QueuesRun'
    <2>1. ASSUME NEW w \in Workers, worker[w].pc \in {"send", "answer"}
          PROVE  Runs(worker[w].part, worker[w].data)'
      <3>1. worker[w].part # cur /\ worker[w].part \in DOMAIN part
        BY <2>1, <1>9, MsgFacts DEF UploadInv, WorkersApart
      <3>2. Runs(worker[w].part, worker[w].data)
        BY <2>1 DEF UploadInv, QueuesRun
      <3> QED
        BY <1>1, <1>14, <3>1, <3>2
    <2>2. ASSUME NEW i \in DOMAIN msgs', NEW p, p = msgs'[i], p \notin Begun
          PROVE  Runs(p, << >>)'
      <3>1. CASE i \in DOMAIN msgs
        <4>1. p = msgs[i] /\ p # cur /\ p \in DOMAIN part
          BY <1>7, <1>9, <2>2, <3>1, MsgFacts
        <4>2. Runs(p, << >>)
          BY <2>2, <3>1, <4>1 DEF UploadInv, QueuesRun
        <4> QED
          BY <1>14, <4>1, <4>2
      <3>2. CASE i = Len(msgs) + 1
        BY <1>7, <1>15, <2>2, <3>2
      <3> QED
        BY <1>7, <3>1, <3>2
    <2> QED
      BY <1>1, <2>1, <2>2 DEF QueuesRun, Runs
  <1>17. ASSUME NEW p \in DOMAIN part
         PROVE  Intact(p)' <=> Intact(p)
    <2>1. /\ part'[p].base = part[p].base /\ part'[p].length = part[p].length
          /\ part'[p].sETag = part[p].sETag /\ stored' = stored
      BY <1>1, <1>5
    <2> QED
      BY <2>1, IntactFrame
  <1>18. CompleteIntact'
    <2>1. ASSUME NEW p \in DOMAIN part, part'[p].bComplete
          PROVE  Intact(p)'
      BY <1>5, <1>17, <2>1 DEF UploadInv, CompleteIntact
    <2>2. ASSUME NEW i \in DOMAIN pending', NEW p, p = pending'[i].part,
                 pending'[i].done, ~pending'[i].err
          PROVE  Intact(p)'
      <3>1. i \in DOMAIN pending /\ pending'[i] = pending[i]
        BY <1>8, <1>9, <2>2
      <3>2. p \in DOMAIN part /\ Intact(p)
        BY <2>2, <3>1, PendingFacts DEF UploadInv, CompleteIntact
      <3> QED
        BY <1>17, <3>2
    <2>3. ASSUME NEW w \in Workers, NEW p, p = worker[w].part,
                 worker[w].pc = "done", ~worker[w].err
          PROVE  Intact(p)'
      <3>1. p \in DOMAIN part /\ Intact(p)
        BY <2>3, WorkerFacts DEF UploadInv, CompleteIntact
      <3> QED
        BY <1>17, <3>1
    <2>4. ~(main' = "complete" \/ upload' = "completed")
      BY <1>1, <1>2
    <2> QED
      BY <1>1, <1>5, <2>1, <2>2, <2>3, <2>4 DEF CompleteIntact, Intact
  <1> QED
    BY <1>2, <1>10, <1>11, <1>12, <1>13, <1>16, <1>18 DEF UploadInv

LEMMA DispatchPartKeeps ==
    ASSUME UploadInv, DispatchPart
    PROVE  UploadInv'
  <1> DEFINE n == Least(MaxQueueSize, part[cur].length)
             first == Entries(cur, 0, n)
  <1>1. main = "dispatch" /\ cur \in DOMAIN part /\ UNCHANGED <<worker, serverVars>>
        /\ UnchangedByMain
    BY DEF DispatchPart
  <1>2. \/ UNCHANGED <<main, thrown, bDeleted, result, partVars>>
        \/ Throw /\ UNCHANGED partVars
        \/ /\ Ready(cur)
           /\ part' = [part EXCEPT ![cur].bInProcess = TRUE, ![cur].queue = first,
                                   ![cur].cursor = Read(first)]
           /\ pending' = Append(pending, [part |-> cur, done |-> FALSE, err |-> FALSE])
           /\ msgs' = Append(msgs, cur)
           /\ cur' = cur + 1
           /\ UNCHANGED <<main, thrown, bDeleted, result>>
    BY DEF DispatchPart
  <1>3. CASE UNCHANGED <<main, thrown, bDeleted, result, partVars>>
    BY <1>1, <1>3, MainGoesOn
  <1>4. CASE Throw /\ UNCHANGED partVars
    BY <1>1, <1>4, ThrowKeeps
  <1>5. CASE /\ Ready(cur)
             /\ part' = [part EXCEPT ![cur].bInProcess = TRUE, ![cur].queue = first,
                                     ![cur].cursor = Read(first)]
             /\ pending' = Append(pending, [part |-> cur, done |-> FALSE, err |-> FALSE])
             /\ msgs' = Append(msgs, cur)
             /\ cur' = cur + 1
             /\ UNCHANGED <<main, thrown, bDeleted, result>>
    <2>1. n \in Nat /\ Consecutive(first, part[cur].base, n)
      BY <1>1, FirstEntries
    <2> HIDE DEF n, first
    <2>2. first \in Seq(StreamEntry) /\ Read(first) \in Nat
      BY <2>1 DEF Consecutive
    <2>3. Gives(cur, first, Read(first))
      BY <1>5 DEF Gives
    <2>4. Given(cur, first, Read(first))
      BY <1>1, <2>2, <2>3, GivePart, Zenon
    <2> QED
      BY <1>1, <1>5, <2>1, <2>4, GiveKeeps
  <1> QED
    BY <1>2, <1>3, <1>4, <1>5

-----------------------------------------------------------------------------
(* The pending entries are harvested.                                      *)

LeftOf(rest, k) ==
    /\ rest \in Seq([part : DOMAIN part, done : BOOLEAN, err : BOOLEAN])
    /\ \A i \in DOMAIN rest : \E j \in DOMAIN pending : j # k /\ rest[i] = pending[j]
    /\ \A i, j \in DOMAIN rest : i # j => rest[i].part # rest[j].part
    /\ \A i \in DOMAIN rest : rest[i].part # pending[k].part

LEMMA PendingWithout ==
    ASSUME UploadInv, NEW k \in DOMAIN pending, NEW rest, rest = Without(pending, k)
    PROVE  LeftOf(rest, k)
  <1> DEFINE Message == [part : DOMAIN part, done : BOOLEAN, err : BOOLEAN]
             from(i) == IF i < k THEN i ELSE i + 1
  <1>1. /\ pending \in Seq(Message) /\ DOMAIN pending = 1 .. Len(pending)
        /\ Len(pending) \in Nat /\ k \in 1 .. Len(pending)
    BY PendingFacts
  <1> HIDE DEF Message
  <1>2. /\ rest \in Seq(Message) /\ Len(rest) = Len(pending) - 1
        /\ \A j \in 1 .. Len(pending) - 1 :
             rest[j] = IF j < k THEN pending[j] ELSE pending[j + 1]
    BY <1>1, WithoutProperties
  <1>3. DOMAIN rest = 1 .. Len(pending) - 1
    BY <1>1, <1>2
  <1>4. ASSUME NEW i \in DOMAIN rest
        PROVE  from(i) \in DOMAIN pending /\ from(i) # k /\ rest[i] = pending[from(i)]
    BY <1>1, <1>2, <1>3
  <1>5. \A i, j \in DOMAIN rest : i # j => from(i) # from(j)
    BY <1>1, <1>3
  <1>6. \A i, j \in DOMAIN pending : i # j => pending[i].part # pending[j].part
    BY DEF UploadInv, PendingApart
  <1> HIDE DEF from
  <1>7. \A i, j \in DOMAIN rest : i # j => rest[i].part # rest[j].part
    BY <1>4, <1>5, <1>6
  <1>8. \A i \in DOMAIN rest : rest[i].part # pending[k].part
    BY <1>4, <1>6
  <1>9. \A i \in DOMAIN rest : \E j \in DOMAIN pending : j # k /\ rest[i] = pending[j]
    BY <1>4
  <1> QED
    BY <1>2, <1>7, <1>8, <1>9 DEF Message, LeftOf

(* An entry that is complete leaves the list, its part, which is not in    *)
(* the pool, is complete or to be taken again.                             *)
LEMMA HarvestedKeeps ==
    ASSUME UploadInv, main = "harvest", cur \in DOMAIN pending, NEW p, p = pending[cur].part,
           pending[cur].done, OnlyPart(p), part'[p].sETag = part[p].sETag,
           part'[p].bComplete => part[p].bComplete \/ ~pending[cur].err,
           pending' = Without(pending, cur),
           UNCHANGED <<main, cur, thrown, result, msgs, worker, serverVars>>, UnchangedByMain
    PROVE  UploadInv'
  <1>1. UNCHANGED <<size, dwMaxThreads, fileEnd, worker, stored, upload, lost, thrown, result,
                    msgs, main, Workers, Begun>>
    BY DEF UnchangedByMain, serverVars, Workers, Begun, Uploads
  <1>2. upload = "open" /\ UploadKnown'
    BY <1>1 DEF UploadInv, UploadKnown
  <1>3. /\ p \in DOMAIN part
        /\ \A j \in DOMAIN msgs : msgs[j] # p
    BY PendingFacts DEF UploadInv, PendingApart
  <1>4. /\ DOMAIN part' = DOMAIN part
        /\ \A r \in DOMAIN part : r # p => part'[r] = part[r]
        /\ \A r \in DOMAIN part : part'[r] \in PartRecord
        /\ part' \in [DOMAIN part -> PartRecord]
        /\ part'[p].base = part[p].base /\ part'[p].length = part[p].length
    BY DEF OnlyPart
  <1>5. /\ pending' \in Seq([part : DOMAIN part, done : BOOLEAN, err : BOOLEAN])
        /\ \A i \in DOMAIN pending' :
             \E j \in DOMAIN pending : j # cur /\ pending'[i] = pending[j]
        /\ \A i, j \in DOMAIN pending' : i # j => pending'[i].part # pending'[j].part
        /\ \A i \in DOMAIN pending' : pending'[i].part # p
    <2>1. LeftOf(pending', cur)
      BY PendingWithout, Zenon
    <2> QED
      BY <2>1 DEF LeftOf
  <1>6. UploadTypeOK'
    <2>1. \A r \in DOMAIN part : part'[r].queue \in Seq(StreamEntry)
      BY <1>4 DEF PartRecord
    <2> QED
      BY <1>1, <1>4, <1>5, <2>1
         DEF UploadInv, UploadTypeOK, MultiPartTypeOK, StreamEntry
  <1>7. MsgsApart' /\ WorkersApart'
    BY <1>1, <1>3, <1>4, MsgFacts DEF UploadInv, MsgsApart, WorkersApart
  <1>8. PendingApart'
    <2>1. ASSUME NEW i \in DOMAIN pending'
          PROVE  /\ part'[pending'[i].part].bInProcess
                 /\ \A j \in DOMAIN msgs : pending'[i].done => pending'[i].part # msgs[j]
      <3>1. PICK j \in DOMAIN pending : pending'[i] = pending[j]
        BY <1>5
      <3>2. pending[j].part \in DOMAIN part /\ pending[j].part # p
        BY <1>5, <3>1, PendingFacts
      <3> QED
        BY <1>4, <3>1, <3>2 DEF UploadInv, PendingApart
    <2> QED
      BY <1>1, <1>5, <2>1 DEF PendingApart
  <1>9. QueuesRun'
    <2>1. ASSUME NEW r \in DOMAIN part, NEW d, r # p, Runs(r, d)
          PROVE  Runs(r, d)'
      BY <1>1, <1>4, <2>1, RunsFrame
    <2>2. ASSUME NEW w \in Workers, worker[w].pc \in {"send", "answer"}
          PROVE  Runs(worker[w].part, worker[w].data)'
      <3>1. worker[w].part # p /\ worker[w].part \in DOMAIN part
        BY <2>2, <1>3, MsgFacts DEF UploadInv, WorkersApart
      <3>2. Runs(worker[w].part, worker[w].data)
        BY <2>2 DEF UploadInv, QueuesRun
      <3> QED
        BY <1>1, <2>1, <3>1, <3>2
    <2>3. ASSUME NEW i \in DOMAIN msgs, msgs[i] \notin Begun
          PROVE  Runs(msgs[i], << >>)'
      <3>1. msgs[i] # p /\ msgs[i] \in DOMAIN part
        BY <1>3, MsgFacts
      <3>2. Runs(msgs[i], << >>)
        BY <2>3 DEF UploadInv, QueuesRun
      <3> QED
        BY <1>1, <2>1, <3>1, <3>2
    <2> QED
      BY <1>1, <2>2, <2>3 DEF QueuesRun
  <1>10. CompleteIntact'
    <2>1. ASSUME NEW r \in DOMAIN part
          PROVE  Intact(r)' <=> Intact(r)
      BY <1>1, <1>4, IntactFrame
    <2>2. ASSUME NEW r \in DOMAIN part, part'[r].bComplete
          PROVE  Intact(r)'
      BY <1>4, <2>1, <2>2 DEF UploadInv, CompleteIntact
    <2>3. ASSUME NEW i \in DOMAIN pending', NEW r, r = pending'[i].part,
                 pending'[i].done, ~pending'[i].err
          PROVE  Intact(r)'
      <3>1. PICK j \in DOMAIN pending : pending'[i] = pending[j]
        BY <1>5
      <3>2. r \in DOMAIN part /\ Intact(r)
        BY <2>3, <3>1, PendingFacts DEF UploadInv, CompleteIntact
      <3> QED
        BY <2>1, <3>2
    <2>4. ASSUME NEW w \in Workers, NEW r, r = worker[w].part,
                 worker[w].pc = "done", ~worker[w].err
          PROVE  Intact(r)'
      BY <2>1, <2>4, WorkerFacts DEF UploadInv, CompleteIntact
    <2>5. ~(main' = "complete" \/ upload' = "completed")
      BY <1>1, <1>2
    <2> QED
      BY <1>1, <1>4, <2>2, <2>3, <2>4, <2>5 DEF CompleteIntact, Intact
  <1> QED
    BY <1>2, <1>6, <1>7, <1>8, <1>9, <1>10 DEF UploadInv
LEMMA OnlyPartChanges ==
    ASSUME UploadInv, NEW p \in DOMAIN part, NEW r \in PartRecord,
           r.base = part[p].base, r.length = part[p].length, part' = [part EXCEPT ![p] = r]
    PROVE  OnlyPart(p) /\ part'[p] = r
  <1>1. part \in [DOMAIN part -> PartRecord]
    BY DEF UploadInv, UploadTypeOK
  <1>2. /\ DOMAIN part' = DOMAIN part /\ part'[p] = r
        /\ \A q \in DOMAIN part : q # p => part'[q] = part[q]
    BY <1>1
  <1>3. part' \in [DOMAIN part -> PartRecord]
    BY <1>1
  <1> QED
    BY <1>2, <1>3 DEF OnlyPart

LEMMA ResetRecord ==
    ASSUME NEW s \in PartRecord, NEW r,
           r = [s EXCEPT !.bInProcess = FALSE, !.retry = s.retry + 1, !.queue = << >>,
                         !.cursor = 0]
    PROVE  /\ r \in PartRecord /\ r.base = s.base /\ r.length = s.length
           /\ r.sETag = s.sETag /\ r.bComplete = s.bComplete
  <1>1. << >> \in Seq(StreamEntry) /\ s.retry + 1 \in Nat /\ 0 \in Nat
    BY DEF PartRecord
  <1> QED
    BY <1>1 DEF PartRecord

LEMMA HarvestKeeps ==
    ASSUME UploadInv, Harvest
    PROVE  UploadInv'
  <1> DEFINE p == pending[cur].part
  <1>1. /\ main = "harvest" /\ cur \in DOMAIN pending
        /\ UNCHANGED <<worker, serverVars>> /\ UnchangedByMain
    BY DEF Harvest
  <1>2. p \in DOMAIN part /\ part[p] \in PartRecord
    BY <1>1, PendingFacts, PartFacts
  <1>3. \/ main' = "feed" /\ UNCHANGED <<cur, bDeleted, thrown, result, partVars>>
        \/ Throw /\ UNCHANGED partVars
        \/ /\ pending[cur].done
           /\ part' = IF pending[cur].err THEN ResetPart(p)
                        ELSE [part EXCEPT ![p].bComplete = TRUE]
           /\ pending' = Without(pending, cur)
           /\ UNCHANGED <<main, cur, thrown, result, msgs>>
    BY DEF Harvest
  <1>4. CASE main' = "feed" /\ UNCHANGED <<cur, bDeleted, thrown, result, partVars>>
    BY <1>1, <1>4, MainGoesOn
  <1>5. CASE Throw /\ UNCHANGED partVars
    BY <1>1, <1>5, ThrowKeeps
  <1>6. CASE /\ pending[cur].done
             /\ part' = IF pending[cur].err THEN ResetPart(p)
                          ELSE [part EXCEPT ![p].bComplete = TRUE]
             /\ pending' = Without(pending, cur)
             /\ UNCHANGED <<main, cur, thrown, result, msgs>>
    <2>1. CASE pending[cur].err
      <3> DEFINE r == [part[p] EXCEPT !.bInProcess = FALSE, !.retry = part[p].retry + 1,
                                      !.queue = << >>, !.cursor = 0]
      <3>1. part' = [part EXCEPT ![p] = r]
        BY <1>2, <1>6, <2>1 DEF ResetPart
      <3>2. /\ r \in PartRecord /\ r.base = part[p].base /\ r.length = part[p].length
            /\ r.sETag = part[p].sETag /\ r.bComplete = part[p].bComplete
        BY <1>2, ResetRecord
      <3> HIDE DEF r
      <3>3. OnlyPart(p) /\ part'[p] = r
        BY <1>2, <3>1, <3>2, OnlyPartChanges
      <3>4. part'[p].sETag = part[p].sETag /\ part'[p].bComplete = part[p].bComplete
        BY <3>2, <3>3
      <3> QED
        BY <1>1, <1>6, <3>3, <3>4, HarvestedKeeps
    <2>2. CASE ~pending[cur].err
      <3> DEFINE r == [part[p] EXCEPT !.bComplete = TRUE]
      <3>1. part' = [part EXCEPT ![p] = r]
        BY <1>2, <1>6, <2>2
      <3>2. /\ r \in PartRecord /\ r.base = part[p].base /\ r.length = part[p].length
            /\ r.sETag = part[p].sETag
        BY <1>2 DEF PartRecord
      <3> HIDE DEF r
      <3>3. OnlyPart(p) /\ part'[p] = r
        BY <1>2, <3>1, <3>2, OnlyPartChanges
      <3>4. part'[p].sETag = part[p].sETag
        BY <3>2, <3>3
      <3> QED
        BY <1>1, <1>6, <2>2, <3>3, <3>4, HarvestedKeeps
    <2> QED
      BY <2>1, <2>2
  <1> QED
    BY <1>3, <1>4, <1>5, <1>6

-----------------------------------------------------------------------------
(* The queues are fed.                                                     *)

LEMMA OneMore ==
    ASSUME NEW S, NEW q \in Seq(S), NEW e \in Seq(S), Len(e) = 1
    PROVE  /\ Len(q \o e) = Len(q) + 1 /\ (q \o e)[Len(q) + 1] = e[1]
           /\ \A i \in 1 .. Len(q) : (q \o e)[i] = q[i]
           /\ q \o e \in Seq(S)
  <1>1. /\ Len(q \o e) = Len(q) + Len(e) /\ q \o e \in Seq(S)
        /\ \A i \in 1 .. Len(q) + Len(e) :
             (q \o e)[i] = IF i <= Len(q) THEN q[i] ELSE e[i - Len(q)]
    BY ConcatProperties, Zenon
  <1>2. Len(q) \in Nat
    OBVIOUS
  <1>3. (q \o e)[Len(q) + 1] = e[1]
    <2>1. Len(q) + 1 \in 1 .. Len(q) + Len(e) /\ ~(Len(q) + 1 <= Len(q))
          /\ (Len(q) + 1) - Len(q) = 1
      BY <1>2
    <2> QED
      BY <1>1, <2>1
  <1>4. \A i \in 1 .. Len(q) : i \in 1 .. Len(q) + Len(e) /\ i <= Len(q)
    BY <1>2
  <1> QED
    BY <1>1, <1>3, <1>4

(* A record behind the others, or an empty entry when there is none left:  *)
(* the queue still runs, whatever was sent of it.                          *)
LEMMA PushRuns ==
    ASSUME UploadInv, NEW p \in DOMAIN part, NEW d \in Seq(Nat), Runs(p, d),
           NEW new, Consecutive(new, part[p].base + part[p].cursor, 1),
           part'[p].base = part[p].base, part'[p].queue = part[p].queue \o new,
           part'[p].cursor = part[p].cursor + Read(new), fileEnd' = fileEnd
    PROVE  Runs(p, d)'
  <1> DEFINE q == part[p].queue
             c == part[p].cursor
             b == part[p].base
             x == Read(new)
             l == Len(d)
             k == Len(q)
  <1>1. /\ b \in Nat /\ c \in Nat /\ l \in Nat /\ k \in Nat /\ fileEnd \in Nat
        /\ q \in Seq(StreamEntry)
    BY PartFacts, MainFacts
  <1>2. /\ new \in Seq(StreamEntry) /\ Len(new) = 1 /\ x \in 0 .. 1
        /\ new[1].rec = Upto(x, b + c, 1)
        /\ (x < 1 => b + c + x >= fileEnd) /\ (x > 0 => b + c + x <= fileEnd)
    BY DEF Consecutive
  <1>3. /\ Len(q \o new) = k + 1 /\ (q \o new)[k + 1] = new[1]
        /\ \A i \in 1 .. k : (q \o new)[i] = q[i]
    BY <1>1, <1>2, OneMore, ZenonT(40)
  <1>4. /\ \A i \in 1 .. l : d[i] = b + i
        /\ l <= c /\ c <= l + k
        /\ \A i \in 1 .. k : q[i].rec = Upto(c - l, b + l, i)
        /\ c < l + k => b + c >= fileEnd
    BY DEF Runs, Run
  <1>5. part'[p].queue = q \o new /\ part'[p].cursor = c + x /\ part'[p].base = b
    OBVIOUS
  <1> HIDE DEF q, c, b, x, l, k
  <1>6. x = 1 => c = l + k
    BY <1>1, <1>2, <1>4
  <1>7. l <= c + x /\ c + x <= l + (k + 1) /\ (c + x < l + (k + 1) => b + (c + x) >= fileEnd)
    BY <1>1, <1>2, <1>4, <1>6
  <1>8. ASSUME NEW i \in 1 .. k + 1
        PROVE  (q \o new)[i].rec = Upto((c + x) - l, b + l, i)
    <2>1. CASE i \in 1 .. k
      <3>1. (q \o new)[i].rec = Upto(c - l, b + l, i)
        BY <1>3, <1>4, <2>1
      <3>2. i <= c - l <=> i <= (c + x) - l
        BY <1>1, <1>2, <1>6, <2>1
      <3> QED
        BY <3>1, <3>2 DEF Upto
    <2>2. CASE i = k + 1
      <3>1. (q \o new)[i].rec = Upto(x, b + c, 1)
        BY <1>2, <1>3, <2>2
      <3>2. CASE x = 1
        BY <1>1, <1>6, <2>2, <3>1, <3>2 DEF Upto
      <3>3. CASE x = 0
        <4>1. ~(1 <= x) /\ ~(i <= (c + x) - l)
          BY <1>1, <1>4, <2>2, <3>3
        <4> QED
          BY <3>1, <4>1 DEF Upto
      <3>4. x = 0 \/ x = 1
        BY <1>2
      <3> QED
        BY <3>2, <3>3, <3>4
    <2>3. i \in 1 .. k \/ i = k + 1
      BY <1>1
    <2> QED
      BY <2>1, <2>2, <2>3
  <1>9. Len(d) = l
    BY DEF l
  <1> QED
    BY <1>3, <1>4, <1>5, <1>7, <1>8, <1>9 DEF Runs, Run

LEMMA PushKeeps ==
    ASSUME UploadInv, main = "feed", NEW p \in DOMAIN part, OnlyPart(p),
           part'[p].sETag = part[p].sETag, part'[p].bComplete = part[p].bComplete,
           part'[p].bInProcess = part[p].bInProcess,
           \A d \in Seq(Nat) : Runs(p, d) => Runs(p, d)',
           UNCHANGED <<main, cur, pending, msgs, worker, thrown, result, serverVars>>,
           UnchangedByMain
    PROVE  UploadInv'
  <1>1. UNCHANGED <<size, dwMaxThreads, fileEnd, worker, stored, upload, lost, thrown, result,
                    pending, msgs, main, cur, Workers, Begun>>
    BY DEF UnchangedByMain, serverVars, Workers, Begun, Uploads
  <1>2. upload = "open" /\ UploadKnown'
    BY <1>1 DEF UploadInv, UploadKnown
  <1>4. /\ DOMAIN part' = DOMAIN part
        /\ \A r \in DOMAIN part : r # p => part'[r] = part[r]
        /\ \A r \in DOMAIN part : part'[r] \in PartRecord
        /\ part' \in [DOMAIN part -> PartRecord]
        /\ part'[p].base = part[p].base /\ part'[p].length = part[p].length
    BY DEF OnlyPart
  <1>5. \A r \in DOMAIN part : /\ part'[r].bComplete = part[r].bComplete
                               /\ part'[r].bInProcess = part[r].bInProcess
    BY <1>4
  <1>6. UploadTypeOK'
    <2>1. \A r \in DOMAIN part : part'[r].queue \in Seq(StreamEntry)
      BY <1>4 DEF PartRecord
    <2> QED
      BY <1>1, <1>4, <2>1
         DEF UploadInv, UploadTypeOK, MultiPartTypeOK, StreamEntry
  <1>7. MsgsApart' /\ WorkersApart'
    BY <1>1, <1>5, MsgFacts DEF UploadInv, MsgsApart, WorkersApart
  <1>8. PendingApart'
    BY <1>1, <1>5, PendingFacts DEF UploadInv, PendingApart
  <1>9. QueuesRun'
    <2>1. ASSUME NEW r \in DOMAIN part, NEW d \in Seq(Nat), Runs(r, d)
          PROVE  Runs(r, d)'
      <3>1. CASE r = p
        BY <2>1, <3>1
      <3>2. CASE r # p
        BY <1>1, <1>4, <2>1, <3>2, RunsFrame
      <3> QED
        BY <3>1, <3>2
    <2>2. ASSUME NEW w \in Workers, worker[w].pc \in {"send", "answer"}
          PROVE  Runs(worker[w].part, worker[w].data)'
      <3>1. worker[w].part \in DOMAIN part /\ worker[w].data \in Seq(Nat)
        BY <2>2, WorkerFacts
      <3>2. Runs(worker[w].part, worker[w].data)
        BY <2>2 DEF UploadInv, QueuesRun
      <3> QED
        BY <1>1, <2>1, <3>1, <3>2
    <2>3. ASSUME NEW i \in DOMAIN msgs, msgs[i] \notin Begun
          PROVE  Runs(msgs[i], << >>)'
      <3>1. msgs[i] \in DOMAIN part /\ << >> \in Seq(Nat)
        BY MsgFacts
      <3>2. Runs(msgs[i], << >>)
        BY <2>3 DEF UploadInv, QueuesRun
      <3> QED
        BY <1>1, <2>1, <3>1, <3>2
    <2> QED
      BY <1>1, <2>2, <2>3 DEF QueuesRun
  <1>10. CompleteIntact'
    <2>1. ASSUME NEW r \in DOMAIN part
          PROVE  Intact(r)' <=> Intact(r)
      BY <1>1, <1>4, IntactFrame
    <2>2. ~(main' = "complete" \/ upload' = "completed")
      BY <1>1, <1>2
    <2>3. ASSUME NEW r \in DOMAIN part, part'[r].bComplete
          PROVE  Intact(r)'
      BY <1>5, <2>1, <2>3 DEF UploadInv, CompleteIntact
    <2>4. ASSUME NEW i \in DOMAIN pending, pending[i].done, ~pending[i].err
          PROVE  Intact(pending[i].part)'
      BY <1>1, <2>1, <2>4, PendingFacts DEF UploadInv, CompleteIntact
    <2>5. ASSUME NEW w \in Workers, worker[w].pc = "done", ~worker[w].err
          PROVE  Intact(worker[w].part)'
      BY <1>1, <2>1, <2>5, WorkerFacts DEF UploadInv, CompleteIntact
    <2> QED
      BY <1>1, <1>4, <2>2, <2>3, <2>4, <2>5 DEF CompleteIntact
  <1> QED
    BY <1>2, <1>6, <1>7, <1>8, <1>9, <1>10 DEF UploadInv
Pushed(s, q, c) == [s EXCEPT !.queue = q, !.cursor = c]

LEMMA PushRecord ==
    ASSUME NEW s \in PartRecord, NEW q \in Seq(StreamEntry), NEW c \in Nat, NEW r,
           r = Pushed(s, q, c)
    PROVE  /\ r \in PartRecord /\ r.base = s.base /\ r.length = s.length
           /\ r.sETag = s.sETag /\ r.bComplete = s.bComplete /\ r.bInProcess = s.bInProcess
           /\ r.queue = q /\ r.cursor = c
  BY DEF PartRecord, Pushed

LEMMA FeedKeeps ==
    ASSUME UploadInv, Feed
    PROVE  UploadInv'
  <1> SUFFICES ASSUME NEW p, p = pending[cur].part
               PROVE  UploadInv'
    OBVIOUS
  <1> DEFINE new == Entries(p, part[p].cursor, 1)
             q == part[p].queue \o new
             c == part[p].cursor + Read(new)
             r == Pushed(part[p], q, c)
  <1>1. /\ main = "feed" /\ cur \in DOMAIN pending /\ UnchangedByMain
        /\ UNCHANGED <<pending, msgs, worker, bDeleted, thrown, result, serverVars>>
    BY DEF Feed, UploadInv, UploadTypeOK
  <1>2. p \in DOMAIN part
    BY <1>1, PendingFacts
  <1>3. CASE UNCHANGED part /\ main' = "harvest"
    BY <1>1, <1>3, MainGoesOn DEF partVars
  <1>4. CASE /\ part' = [part EXCEPT ![p].queue = @ \o new, ![p].cursor = @ + Read(new)]
             /\ UNCHANGED <<main, cur>>
    <2>1. part' = [part EXCEPT ![p] = r]
      BY <1>2, <1>4 DEF Pushed
    <2>2. /\ part[p] \in PartRecord /\ part[p].cursor \in Nat /\ part[p].base \in Nat
          /\ part[p].queue \in Seq(StreamEntry)
      BY <1>2, PartFacts
    <2>3. Consecutive(new, part[p].base + part[p].cursor, 1)
      <3>1. 1 \in Nat /\ p \in DOMAIN part
        BY <1>2
      <3> QED
        BY <2>2, <3>1, EntriesConsecutive
    <2> HIDE DEF new
    <2>4. new \in Seq(StreamEntry) /\ Len(new) = 1 /\ Read(new) \in Nat
      BY <2>3 DEF Consecutive
    <2>5. q \in Seq(StreamEntry) /\ c \in Nat
      BY <2>2, <2>4, OneMore
    <2> HIDE DEF q, c
    <2>6. /\ r \in PartRecord /\ r.base = part[p].base /\ r.length = part[p].length
          /\ r.sETag = part[p].sETag /\ r.bComplete = part[p].bComplete
          /\ r.bInProcess = part[p].bInProcess /\ r.queue = q /\ r.cursor = c
      BY <2>2, <2>5, PushRecord, SMTT(30)
    <2> HIDE DEF r
    <2>7. OnlyPart(p) /\ part'[p] = r
      BY <1>2, <2>1, <2>6, OnlyPartChanges
    <2>8. fileEnd' = fileEnd
      BY <1>1 DEF UnchangedByMain
    <2>9. /\ part'[p].base = part[p].base /\ part'[p].queue = part[p].queue \o new
          /\ part'[p].cursor = part[p].cursor + Read(new)
      BY <2>6, <2>7 DEF q, c
    <2>10. ASSUME NEW d \in Seq(Nat), Runs(p, d)
           PROVE  Runs(p, d)'
      BY <1>2, <2>3, <2>8, <2>9, <2>10, PushRuns, Zenon
    <2>11. /\ part'[p].sETag = part[p].sETag /\ part'[p].bComplete = part[p].bComplete
           /\ part'[p].bInProcess = part[p].bInProcess
      BY <2>6, <2>7
    <2>12. UNCHANGED <<main, cur, pending, msgs, worker, thrown, result, serverVars>>
      BY <1>1, <1>4
    <2> QED
      BY <1>1, <1>2, <2>7, <2>10, <2>11, <2>12, PushKeeps, Zenon
  <1> QED
    BY <1>3, <1>4 DEF Feed

(* The pool is terminated when no thread works any more.                   *)
LEMMA TerminateKeeps ==
    ASSUME UploadInv, Terminate
    PROVE  UploadInv'
  <1>1. /\ main = "terminate" /\ main' = "returned" /\ msgs' = << >>
        /\ \A w \in Workers : worker[w].pc = "idle"
        /\ UNCHANGED <<size, dwMaxThreads, fileEnd, part, pending, worker, thrown, result,
                       upload, stored, lost, Workers>>
    BY DEF Terminate, UnchangedByMain, serverVars, Workers
  <1>2. msgs' \in Seq(DOMAIN part) /\ DOMAIN msgs' = {}
    BY <1>1
  <1>3. UploadTypeOK'
    BY <1>1, <1>2 DEF UploadInv, UploadTypeOK, MultiPartTypeOK
  <1>4. MsgsApart' /\ WorkersApart' /\ PendingApart' /\ QueuesRun'
    BY <1>1, <1>2 DEF UploadInv, MsgsApart, WorkersApart, PendingApart, QueuesRun
  <1>5. \A p : Intact(p)' <=> Intact(p)
    BY <1>1 DEF Intact
  <1>6. CompleteIntact'
    BY <1>1, <1>5 DEF UploadInv, CompleteIntact
  <1>7. UploadKnown'
    BY <1>1 DEF UploadInv, UploadKnown
  <1> QED
    BY <1>3, <1>4, <1>6, <1>7 DEF UploadInv
-----------------------------------------------------------------------------
(* The threads of the pool.                                                *)

(* A step of thread w, which has (or takes) part p and nobody else has: it *)
(* touches nothing of the other parts, and part p is neither complete nor  *)
(* about to be.                                                            *)
LEMMA WorkerKeeps ==
    ASSUME UploadInv, NEW w \in Workers, NEW p \in DOMAIN part, NEW v \in WorkerRecord,
           v.pc \notin {"idle", "leave"}, v.part = p, worker' = [worker EXCEPT ![w] = v],
           OnlyPart(p), part'[p].bComplete = part[p].bComplete,
           part'[p].bInProcess = part[p].bInProcess,
           \A u \in Workers : u # w /\ worker[u].pc \notin {"idle", "leave"} => worker[u].part # p,
           worker[w].pc \notin {"idle", "leave"} => worker[w].part = p,
           NEW k \in DOMAIN msgs, msgs[k] = p,
           stored' \in [DOMAIN part -> Seq(Nat)],
           \A r \in DOMAIN part : r # p => stored'[r] = stored[r],
           v.pc \in {"send", "answer"} => Runs(p, v.data)',
           v.pc = "done" /\ ~v.err => Intact(p)',
           UNCHANGED <<pending, msgs, upload, lost>>, UnchangedByWorker
    PROVE  UploadInv'
  <1>1. UNCHANGED <<size, dwMaxThreads, fileEnd, upload, lost, thrown, result, pending, msgs,
                    main, cur, Workers>>
    BY DEF UnchangedByWorker, mainVars, Workers
  <1>2. /\ worker \in [Workers -> WorkerRecord] /\ worker' \in [Workers -> WorkerRecord]
        /\ worker'[w] = v /\ \A u \in Workers : u # w => worker'[u] = worker[u]
    BY DEF UploadInv, UploadTypeOK
  <1>3. /\ DOMAIN part' = DOMAIN part
        /\ \A r \in DOMAIN part : r # p => part'[r] = part[r]
        /\ \A r \in DOMAIN part : part'[r] \in PartRecord
        /\ part' \in [DOMAIN part -> PartRecord]
        /\ part'[p].base = part[p].base /\ part'[p].length = part[p].length
    BY DEF OnlyPart
  <1>4. \A r \in DOMAIN part : /\ part'[r].bComplete = part[r].bComplete
                               /\ part'[r].bInProcess = part[r].bInProcess
    BY <1>3
  <1>5. /\ ~part[p].bComplete
        /\ \A i \in DOMAIN pending : pending[i].done => pending[i].part # p
    BY DEF UploadInv, MsgsApart, PendingApart
  <1>6. UploadTypeOK'
    <2>1. \A r \in DOMAIN part : part'[r].queue \in Seq(StreamEntry)
      BY <1>3 DEF PartRecord
    <2> QED
      BY <1>1, <1>2, <1>3, <2>1
         DEF UploadInv, UploadTypeOK, MultiPartTypeOK, StreamEntry
  <1>7. MsgsApart'
    <2>1. ASSUME NEW i \in DOMAIN msgs
          PROVE  part'[msgs[i]].bInProcess /\ ~part'[msgs[i]].bComplete
      <3>1. msgs[i] \in DOMAIN part /\ part[msgs[i]].bInProcess /\ ~part[msgs[i]].bComplete
        BY MsgFacts DEF UploadInv, MsgsApart
      <3> QED
        BY <1>4, <3>1
    <2>2. \A i, j \in DOMAIN msgs : i # j => msgs[i] # msgs[j]
      BY DEF UploadInv, MsgsApart
    <2> QED
      BY <1>1, <2>1, <2>2 DEF MsgsApart
  <1>8. WorkersApart'
    <2>1. \A u \in Workers : worker'[u].pc \notin {"idle", "leave"} =>
            \E i \in DOMAIN msgs : msgs[i] = worker'[u].part
      BY <1>2 DEF UploadInv, WorkersApart
    <2>2. \A t, u \in Workers :
            t # u /\ worker'[t].pc \notin {"idle", "leave"} /\ worker'[u].pc \notin {"idle", "leave"}
              => worker'[t].part # worker'[u].part
      BY <1>2 DEF UploadInv, WorkersApart
    <2> QED
      BY <1>1, <2>1, <2>2 DEF WorkersApart
  <1>9. PendingApart'
    <2>1. ASSUME NEW i \in DOMAIN pending
          PROVE  part'[pending[i].part].bInProcess
      <3>1. pending[i].part \in DOMAIN part /\ part[pending[i].part].bInProcess
        BY PendingFacts DEF UploadInv, PendingApart
      <3> QED
        BY <1>4, <3>1
    <2>2. /\ \A i, j \in DOMAIN pending : i # j => pending[i].part # pending[j].part
          /\ \A i \in DOMAIN pending, j \in DOMAIN msgs :
               pending[i].done => pending[i].part # msgs[j]
      BY DEF UploadInv, PendingApart
    <2> QED
      BY <1>1, <2>1, <2>2 DEF PendingApart
  <1>10. p \in Begun' /\ Begun \subseteq Begun'
    <2>1. \A u \in Workers : worker'[u].pc \notin {"idle", "leave"} => worker'[u].part \in Begun'
      BY <1>1 DEF Begun, Uploads
    <2>2. ASSUME NEW u \in Workers, worker[u].pc \notin {"idle", "leave"}
          PROVE  worker[u].part \in Begun'
      <3>1. CASE u = w
        BY <1>2, <2>1, <2>2, <3>1
      <3>2. CASE u # w
        BY <1>2, <2>1, <2>2, <3>2
      <3> QED
        BY <3>1, <3>2
    <2>3. p \in Begun'
      BY <1>2, <2>1
    <2>4. Begun \subseteq Begun'
      <3>1. ASSUME NEW r \in Begun
            PROVE  r \in Begun'
        <4>1. PICK u \in Workers : worker[u].pc \notin {"idle", "leave"} /\ r = worker[u].part
          BY <3>1 DEF Begun, Uploads
        <4> QED
          BY <2>2, <4>1
      <3> QED
        BY <3>1
    <2> QED
      BY <2>3, <2>4
  <1>11. QueuesRun'
    <2>1. ASSUME NEW r \in DOMAIN part, NEW d, r # p, Runs(r, d)
          PROVE  Runs(r, d)'
      BY <1>1, <1>3, <2>1, RunsFrame
    <2>2. ASSUME NEW u \in Workers, worker'[u].pc \in {"send", "answer"},
                 NEW r, r = worker'[u].part, NEW d, d = worker'[u].data
          PROVE  Runs(r, d)'
      <3>1. CASE u = w
        BY <1>2, <2>2, <3>1
      <3>2. CASE u # w
        <4>1. /\ worker'[u] = worker[u] /\ r = worker[u].part /\ d = worker[u].data
              /\ worker[u].pc \notin {"idle", "leave"}
          BY <1>2, <2>2, <3>2
        <4>2. r \in DOMAIN part /\ r # p
          BY <3>2, <4>1, WorkerFacts
        <4>3. Runs(r, d)
          BY <2>2, <4>1 DEF UploadInv, QueuesRun
        <4> QED
          BY <2>1, <4>2, <4>3
      <3> QED
        BY <3>1, <3>2
    <2>3. ASSUME NEW i \in DOMAIN msgs, msgs[i] \notin Begun'
          PROVE  Runs(msgs[i], << >>)'
      <3>1. msgs[i] \in DOMAIN part /\ msgs[i] # p /\ msgs[i] \notin Begun
        BY <1>10, <2>3, MsgFacts
      <3>2. Runs(msgs[i], << >>)
        BY <3>1 DEF UploadInv, QueuesRun
      <3> QED
        BY <1>1, <2>1, <3>1, <3>2
    <2> QED
      BY <1>1, <2>2, <2>3 DEF QueuesRun, Runs
  <1>12. CompleteIntact'
    <2>1. ASSUME NEW r \in DOMAIN part, r # p
          PROVE  Intact(r)' <=> Intact(r)
      BY <1>3, <2>1, IntactFrame
    <2>2. ASSUME NEW r \in DOMAIN part, part'[r].bComplete
          PROVE  Intact(r)'
      BY <1>4, <1>5, <2>1, <2>2 DEF UploadInv, CompleteIntact
    <2>3. ASSUME NEW i \in DOMAIN pending, pending[i].done, ~pending[i].err
          PROVE  Intact(pending[i].part)'
      BY <1>1, <1>5, <2>1, <2>3, PendingFacts DEF UploadInv, CompleteIntact
    <2>4. ASSUME NEW u \in Workers, NEW r, r = worker'[u].part,
                 worker'[u].pc = "done", ~worker'[u].err
          PROVE  Intact(r)'
      <3>1. CASE u = w
        BY <1>2, <2>4, <3>1
      <3>2. CASE u # w
        <4>1. worker'[u] = worker[u]
          BY <1>2, <3>2
        <4>2. r \in DOMAIN part /\ r # p /\ Intact(r)
          BY <2>4, <3>2, <4>1, WorkerFacts DEF UploadInv, CompleteIntact
        <4> QED
          BY <2>1, <4>2
      <3> QED
        BY <3>1, <3>2
    <2>5. main' = "complete" \/ upload' = "completed" => \A r \in DOMAIN part : part'[r].bComplete
      BY <1>1, <1>4 DEF UploadInv, CompleteIntact
    <2> QED
      BY <1>1, <1>3, <2>2, <2>3, <2>4, <2>5 DEF CompleteIntact, Intact
  <1>13. UploadKnown'
    BY <1>1 DEF UploadInv, UploadKnown
  <1> QED
    BY <1>6, <1>7, <1>8, <1>9, <1>11, <1>12, <1>13 DEF UploadInv
(* A thread at work has a part that is in the pool, for itself.            *)
LEMMA OwnPart ==
    ASSUME UploadInv, NEW w \in Workers, worker[w].pc \notin {"idle", "leave"}, NEW p, p = worker[w].part
    PROVE  /\ p \in DOMAIN part /\ \E k \in DOMAIN msgs : msgs[k] = p
           /\ \A u \in Workers : u # w /\ worker[u].pc \notin {"idle", "leave"} => worker[u].part # p
  BY WorkerFacts DEF UploadInv, WorkersApart

LEMMA WorkerRecordFacts ==
    ASSUME NEW v \in WorkerRecord, NEW c \in {"send", "answer", "done"}, NEW d \in Seq(Nat),
           NEW f \in BOOLEAN, NEW r, r = [v EXCEPT !.pc = c, !.data = d, !.err = f]
    PROVE  /\ r \in WorkerRecord /\ r.pc = c /\ r.part = v.part /\ r.data = d
           /\ (r.err <=> f)
  BY DEF WorkerRecord

LEMMA SameParts ==
    ASSUME UploadInv, NEW p \in DOMAIN part, UNCHANGED part
    PROVE  OnlyPart(p)
  BY DEF OnlyPart, UploadInv, UploadTypeOK

LEMMA SetETag ==
    ASSUME UploadInv, NEW p \in DOMAIN part, NEW t \in BOOLEAN,
           part' = [part EXCEPT ![p].sETag = t]
    PROVE  /\ OnlyPart(p) /\ part'[p].bComplete = part[p].bComplete
           /\ part'[p].bInProcess = part[p].bInProcess
           /\ part'[p].queue = part[p].queue /\ part'[p].cursor = part[p].cursor
           /\ (part'[p].sETag <=> t)
  <1> DEFINE r == [part[p] EXCEPT !.sETag = t]
  <1>1. part[p] \in PartRecord
    BY PartFacts
  <1>2. part' = [part EXCEPT ![p] = r]
    OBVIOUS
  <1>3. /\ r \in PartRecord /\ r.base = part[p].base /\ r.length = part[p].length
        /\ r.bComplete = part[p].bComplete /\ r.bInProcess = part[p].bInProcess
        /\ r.queue = part[p].queue /\ r.cursor = part[p].cursor /\ (r.sETag <=> t)
    BY <1>1 DEF PartRecord
  <1> HIDE DEF r
  <1>4. OnlyPart(p) /\ part'[p] = r
    BY <1>2, <1>3, OnlyPartChanges
  <1> QED
    BY <1>3, <1>4

LEMMA WorkerTakesKeeps ==
    ASSUME UploadInv, NEW w \in Workers, WorkerTakes(w)
    PROVE  UploadInv'
  <1>1. PICK i \in DOMAIN msgs :
          /\ msgs[i] \notin Begun
          /\ \E pc \in {"send", "hung"} :
               worker' = [worker EXCEPT ![w] = [Idle EXCEPT !.pc = pc, !.part = msgs[i]]]
          /\ part' = [part EXCEPT ![msgs[i]].sETag = FALSE]
    BY DEF WorkerTakes
  <1>14. PICK pc \in {"send", "hung"} :
           worker' = [worker EXCEPT ![w] = [Idle EXCEPT !.pc = pc, !.part = msgs[i]]]
    BY <1>1
  <1>2. /\ worker[w].pc = "idle" /\ UNCHANGED <<pending, msgs, serverVars>>
        /\ UnchangedByWorker /\ UNCHANGED <<upload, stored, lost, fileEnd>>
    BY DEF WorkerTakes, serverVars, UnchangedByWorker
  <1>3. PICK p \in DOMAIN part : p = msgs[i]
    BY MsgFacts
  <1> SUFFICES ASSUME NEW v, v = [Idle EXCEPT !.pc = pc, !.part = p]
               PROVE  UploadInv'
    OBVIOUS
  <1>4. /\ v \in WorkerRecord /\ v.pc = pc /\ v.part = p /\ v.data = << >>
    <2>1. << >> \in Seq(Nat) /\ p \in Nat
      BY <1>3 DEF UploadInv, UploadTypeOK
    <2> QED
      BY <1>3, <2>1 DEF Idle, WorkerRecord
  <1>5. worker' = [worker EXCEPT ![w] = v]
    BY <1>3, <1>14
  <1>6. part' = [part EXCEPT ![p].sETag = FALSE] /\ FALSE \in BOOLEAN
    BY <1>1, <1>3
  <1>7. /\ OnlyPart(p) /\ part'[p].bComplete = part[p].bComplete
        /\ part'[p].bInProcess = part[p].bInProcess
        /\ part'[p].queue = part[p].queue /\ part'[p].cursor = part[p].cursor
    BY <1>6, SetETag
  <1>8. \A u \in Workers : u # w /\ worker[u].pc \notin {"idle", "leave"} => worker[u].part # p
    BY <1>1, <1>3 DEF Begun, Uploads
  <1>9. Runs(p, << >>)'
    <2>1. Runs(p, << >>)
      BY <1>1, <1>3 DEF UploadInv, QueuesRun
    <2>2. part'[p].base = part[p].base
      BY <1>7 DEF OnlyPart
    <2> QED
      BY <1>2, <1>7, <2>1, <2>2, RunsFrame
  <1>10. stored' \in [DOMAIN part -> Seq(Nat)] /\ \A r \in DOMAIN part : stored'[r] = stored[r]
    BY <1>2 DEF UploadInv, UploadTypeOK
  <1>11. v.pc \notin {"idle", "leave"} /\ ~(v.pc = "done" /\ ~v.err) /\ i \in DOMAIN msgs /\ msgs[i] = p
    BY <1>3, <1>4
  <1>12. v.pc \in {"send", "answer"} => Runs(p, v.data)'
    BY <1>4, <1>9 DEF Runs
  <1> QED
    BY <1>2, <1>4, <1>5, <1>7, <1>8, <1>10, <1>11, <1>12, WorkerKeeps

LEMMA WorkerFailsKeeps ==
    ASSUME UploadInv, NEW w \in Workers, WorkerFails(w)
    PROVE  UploadInv'
  <1> SUFFICES ASSUME NEW p, p = worker[w].part
               PROVE  UploadInv'
    OBVIOUS
  <1> DEFINE v == [worker[w] EXCEPT !.pc = "done", !.err = TRUE]
  <1>1. /\ worker[w].pc \in {"send", "answer"} /\ worker' = [worker EXCEPT ![w] = v]
        /\ UNCHANGED <<part, pending, msgs, upload, stored, lost>> /\ UnchangedByWorker
    BY DEF WorkerFails, partVars, serverVars
  <1>2. worker[w] \in WorkerRecord
    BY WorkerFacts
  <1>3. v \in WorkerRecord /\ v.pc = "done" /\ v.part = p /\ v.err
    BY <1>2 DEF WorkerRecord
  <1> HIDE DEF v
  <1>4. /\ p \in DOMAIN part
        /\ \A u \in Workers : u # w /\ worker[u].pc \notin {"idle", "leave"} => worker[u].part # p
    BY <1>1, OwnPart
  <1>5. PICK k \in DOMAIN msgs : msgs[k] = p
    BY <1>1, OwnPart
  <1>6. OnlyPart(p) /\ part' = part
    BY <1>1, <1>4, SameParts
  <1>7. stored' \in [DOMAIN part -> Seq(Nat)] /\ \A r \in DOMAIN part : stored'[r] = stored[r]
    BY <1>1 DEF UploadInv, UploadTypeOK
  <1> QED
    BY <1>1, <1>3, <1>4, <1>5, <1>6, <1>7, WorkerKeeps, ZenonT(40)
(* The front of the queue is sent: what was sent and the rest of the queue *)
(* still run.                                                              *)
LEMMA PopRun ==
    ASSUME NEW b \in Nat, NEW c \in Nat, NEW q \in Seq(StreamEntry), q # << >>,
           NEW d \in Seq(Nat), NEW end \in Nat, Run(b, c, q, d, end), NEW d2,
           d2 = IF Head(q).rec = 0 THEN d ELSE Append(d, Head(q).rec)
    PROVE  d2 \in Seq(Nat) /\ Run(b, c, Tail(q), d2, end)
  <1> DEFINE l == Len(d)
             k == Len(q)
             e == Head(q)
             t == Tail(q)
  <1>1. l \in Nat /\ k \in Nat
    OBVIOUS
  <1>2. /\ k >= 1 /\ e = q[1] /\ e \in StreamEntry /\ Len(t) = k - 1
        /\ \A i \in 1 .. k - 1 : t[i] = q[i + 1]
    OBVIOUS
  <1>3. e.rec \in Nat
    BY <1>2 DEF StreamEntry
  <1>4. /\ \A i \in 1 .. l : d[i] = b + i
        /\ l <= c /\ c <= l + k
        /\ \A i \in 1 .. k : q[i].rec = Upto(c - l, b + l, i)
        /\ c < l + k => b + c >= end
    BY DEF Run
  <1>5. d2 = IF e.rec = 0 THEN d ELSE Append(d, e.rec)
    OBVIOUS
  <1>6. Len(d) = l
    OBVIOUS
  <1> HIDE DEF l, k, e, t
  <1>7. e.rec = Upto(c - l, b + l, 1)
    BY <1>1, <1>2, <1>4
  <1>8. ASSUME NEW i \in 1 .. k - 1
        PROVE  t[i].rec = Upto(c - l, b + l, i + 1)
    <2>1. i + 1 \in 1 .. k /\ t[i] = q[i + 1]
      BY <1>1, <1>2
    <2> QED
      BY <1>4, <2>1
  <1>9. CASE e.rec = 0
    <2>1. d2 = d /\ c = l
      BY <1>1, <1>4, <1>5, <1>7, <1>9 DEF Upto
    <2>2. \A i \in 1 .. k - 1 : Upto(c - l, b + l, i + 1) = Upto(c - l, b + l, i)
      BY <1>1, <2>1 DEF Upto
    <2>3. c <= l + (k - 1) /\ (c < l + (k - 1) => b + c >= end)
      BY <1>1, <1>2, <1>4, <2>1
    <2>4. \A i \in 1 .. k - 1 : t[i].rec = Upto(c - l, b + l, i)
      BY <1>8, <2>2
    <2>5. Run(b, c, t, d, end)
      BY <1>2, <1>4, <1>6, <2>3, <2>4 DEF Run
    <2> QED
      BY <2>1, <2>5 DEF t
  <1>10. CASE e.rec # 0
    <2>1. d2 = Append(d, e.rec) /\ e.rec = b + (l + 1) /\ l + 1 <= c
      BY <1>1, <1>4, <1>5, <1>7, <1>10 DEF Upto
    <2>2. /\ d2 \in Seq(Nat) /\ Len(d2) = l + 1 /\ d2[l + 1] = b + (l + 1)
          /\ \A i \in 1 .. l : d2[i] = d[i]
      <3>1. /\ d2 \in Seq(Nat) /\ Len(d2) = Len(d) + 1 /\ d2[Len(d) + 1] = e.rec
            /\ \A i \in 1 .. Len(d) : d2[i] = d[i]
        BY <1>3, <2>1
      <3> QED
        BY <1>6, <2>1, <3>1
    <2>3. ASSUME NEW i \in 1 .. k - 1
          PROVE  Upto(c - l, b + l, i + 1) = Upto(c - (l + 1), b + (l + 1), i)
      <3>1. i + 1 <= c - l <=> i <= c - (l + 1)
        BY <1>1
      <3>2. b + l + (i + 1) = b + (l + 1) + i
        BY <1>1
      <3> QED
        BY <3>1, <3>2 DEF Upto
    <2>4. c <= (l + 1) + (k - 1) /\ (c < (l + 1) + (k - 1) => b + c >= end)
      BY <1>1, <1>4
    <2>5. ASSUME NEW i \in 1 .. l + 1
          PROVE  d2[i] = b + i
      <3>1. i \in 1 .. l \/ i = l + 1
        BY <1>1
      <3> QED
        BY <1>4, <2>2, <3>1
    <2>6. \A i \in 1 .. k - 1 : t[i].rec = Upto(c - (l + 1), b + (l + 1), i)
      BY <1>8, <2>3
    <2>7. Run(b, c, t, d2, end)
      BY <1>2, <2>1, <2>2, <2>4, <2>5, <2>6 DEF Run
    <2> QED
      BY <2>2, <2>7 DEF t
  <1> QED
    BY <1>9, <1>10

LEMMA WorkerSendsKeeps ==
    ASSUME UploadInv, NEW w \in Workers, WorkerSends(w)
    PROVE  UploadInv'
  <1> SUFFICES ASSUME NEW p, p = worker[w].part, NEW e, e = Head(part[p].queue),
                      NEW d, d = worker[w].data,
                      NEW d2, d2 = IF e.rec = 0 THEN d ELSE Append(d, e.rec),
                      NEW c, c = IF e.bLast THEN "answer" ELSE "send",
                      NEW v, v = [worker[w] EXCEPT !.data = d2, !.pc = c]
               PROVE  UploadInv'
    OBVIOUS
  <1>1. /\ worker[w].pc = "send" /\ part[p].queue # << >>
        /\ part' = [part EXCEPT ![p].queue = Tail(@)]
        /\ worker' = [worker EXCEPT ![w].data = IF e.rec = 0 THEN @ ELSE Append(@, e.rec),
                                    ![w].pc = IF e.bLast THEN "answer" ELSE "send"]
        /\ UNCHANGED <<pending, msgs, upload, stored, lost, fileEnd>> /\ UnchangedByWorker
    BY DEF WorkerSends, serverVars, UnchangedByWorker
  <1>2. /\ p \in DOMAIN part
        /\ \A u \in Workers : u # w /\ worker[u].pc \notin {"idle", "leave"} => worker[u].part # p
    BY <1>1, OwnPart
  <1>3. PICK k \in DOMAIN msgs : msgs[k] = p
    BY <1>1, OwnPart
  <1>4. /\ worker[w] \in WorkerRecord /\ d \in Seq(Nat) /\ worker \in [Workers -> WorkerRecord]
        /\ part[p] \in PartRecord /\ part[p].queue \in Seq(StreamEntry)
    BY <1>2, WorkerFacts, PartFacts DEF UploadInv, UploadTypeOK
  <1>5. worker' = [worker EXCEPT ![w] = v]
    <2>1. d2 = IF e.rec = 0 THEN worker[w].data ELSE Append(worker[w].data, e.rec)
      OBVIOUS
    <2>2. worker' = [worker EXCEPT ![w].data = d2, ![w].pc = c]
      BY <1>1, <2>1
    <2> QED
      BY <1>4, <2>2
  <1>6. PICK q \in Seq(StreamEntry) : q = Tail(part[p].queue)
    <2>1. Tail(part[p].queue) \in Seq(StreamEntry)
      BY <1>1, <1>4, HeadTailProperties
    <2> QED
      BY <2>1
  <1> DEFINE r == [part[p] EXCEPT !.queue = q]
  <1>7. part' = [part EXCEPT ![p] = r]
    BY <1>1, <1>4, <1>6
  <1>8. /\ r \in PartRecord /\ r.base = part[p].base /\ r.length = part[p].length
        /\ r.bComplete = part[p].bComplete /\ r.bInProcess = part[p].bInProcess
        /\ r.queue = q /\ r.cursor = part[p].cursor
    BY <1>4, <1>6 DEF PartRecord
  <1> HIDE DEF r
  <1>9. OnlyPart(p) /\ part'[p] = r
    BY <1>2, <1>7, <1>8, OnlyPartChanges
  <1>10. /\ part'[p].base = part[p].base /\ part'[p].queue = Tail(part[p].queue)
         /\ part'[p].cursor = part[p].cursor /\ part'[p].bComplete = part[p].bComplete
         /\ part'[p].bInProcess = part[p].bInProcess
    BY <1>6, <1>8, <1>9
  <1>11. Runs(p, d)
    BY <1>1 DEF UploadInv, QueuesRun
  <1>12. d2 \in Seq(Nat) /\ Runs(p, d2)'
    <2>1. /\ part[p].base \in Nat /\ part[p].cursor \in Nat /\ fileEnd \in Nat
          /\ fileEnd' = fileEnd
      BY <1>1, <1>2, PartFacts, MainFacts
    <2>2. Run(part[p].base, part[p].cursor, part[p].queue, d, fileEnd)
      BY <1>11 DEF Runs
    <2>3. d2 \in Seq(Nat) /\ Run(part[p].base, part[p].cursor, Tail(part[p].queue), d2, fileEnd)
      BY <1>1, <1>4, <2>1, <2>2, PopRun
    <2> QED
      BY <1>10, <2>1, <2>3 DEF Runs
  <1>13. v \in WorkerRecord /\ v.pc = c /\ v.part = p /\ v.data = d2 /\ c \in {"send", "answer"}
    BY <1>4, <1>12 DEF WorkerRecord
  <1>14. v.pc \in {"send", "answer"} => Runs(p, v.data)'
    BY <1>12, <1>13 DEF Runs
  <1>15. stored' \in [DOMAIN part -> Seq(Nat)] /\ \A x \in DOMAIN part : stored'[x] = stored[x]
    BY <1>1 DEF UploadInv, UploadTypeOK
  <1>16. /\ v.pc \notin {"idle", "leave"} /\ ~(v.pc = "done" /\ ~v.err)
         /\ (worker[w].pc \notin {"idle", "leave"} => worker[w].part = p)
    BY <1>13
  <1> QED
    BY <1>1, <1>2, <1>3, <1>5, <1>9, <1>10, <1>13, <1>14, <1>15, <1>16, WorkerKeeps
LEMMA SeqIsFunction ==
    ASSUME NEW S, NEW d \in Seq(S)
    PROVE  d = [i \in 1 .. Len(d) |-> d[i]]
  <1>1. d \in [1 .. Len(d) -> S]
    BY LenProperties, Zenon
  <1> QED
    BY <1>1, Zenon

(* The server has what was sent: as many records as the part has, and      *)
(* consecutive ones.                                                       *)
LEMMA WorkerAnsweredKeeps ==
    ASSUME UploadInv, NEW w \in Workers, WorkerAnswered(w)
    PROVE  UploadInv'
  <1> SUFFICES ASSUME NEW p, p = worker[w].part, NEW d, d = worker[w].data,
                      NEW v, v = [worker[w] EXCEPT !.pc = "done"]
               PROVE  UploadInv'
    OBVIOUS
  <1>1. /\ worker[w].pc = "answer" /\ Len(d) = part[p].length
        /\ stored' = [stored EXCEPT ![p] = d]
        /\ part' = [part EXCEPT ![p].sETag = TRUE] /\ TRUE \in BOOLEAN
        /\ worker' = [worker EXCEPT ![w] = v]
        /\ UNCHANGED <<pending, msgs, upload, lost>> /\ UnchangedByWorker
    BY DEF WorkerAnswered
  <1>2. /\ p \in DOMAIN part
        /\ \A u \in Workers : u # w /\ worker[u].pc \notin {"idle", "leave"} => worker[u].part # p
    BY <1>1, OwnPart
  <1>3. PICK k \in DOMAIN msgs : msgs[k] = p
    BY <1>1, OwnPart
  <1>4. worker[w] \in WorkerRecord /\ d \in Seq(Nat)
    BY WorkerFacts
  <1>5. v \in WorkerRecord /\ v.pc = "done" /\ v.part = p
    BY <1>4 DEF WorkerRecord
  <1>6. /\ OnlyPart(p) /\ part'[p].bComplete = part[p].bComplete
        /\ part'[p].bInProcess = part[p].bInProcess /\ part'[p].sETag
    BY <1>1, <1>2, SetETag
  <1>7. /\ stored' \in [DOMAIN part -> Seq(Nat)] /\ stored'[p] = d
        /\ \A r \in DOMAIN part : r # p => stored'[r] = stored[r]
    <2>1. stored \in [DOMAIN part -> Seq(Nat)]
      BY DEF UploadInv, UploadTypeOK
    <2> QED
      BY <1>1, <1>2, <1>4, <2>1
  <1>8. Intact(p)'
    <2>1. Run(part[p].base, part[p].cursor, part[p].queue, d, fileEnd)
      BY <1>1 DEF UploadInv, QueuesRun, Runs
    <2>2. \A i \in 1 .. part[p].length : d[i] = part[p].base + i
      BY <1>1, <2>1 DEF Run
    <2>3. d = [i \in 1 .. part[p].length |-> part[p].base + i]
      <3>1. d = [i \in 1 .. Len(d) |-> d[i]]
        BY <1>4, SeqIsFunction
      <3> QED
        BY <1>1, <2>2, <3>1
    <2>4. part'[p].base = part[p].base /\ part'[p].length = part[p].length
      BY <1>6 DEF OnlyPart
    <2> QED
      BY <1>6, <1>7, <2>3, <2>4 DEF Intact, HasWhole
  <1>9. /\ v.pc \notin {"idle", "leave"}
         /\ (worker[w].pc \notin {"idle", "leave"} => worker[w].part = p)
    BY <1>5
  <1>10. ~(v.pc \in {"send", "answer"})
    BY <1>5
  <1> QED
    BY <1>1, <1>2, <1>3, <1>5, <1>6, <1>7, <1>8, <1>9, <1>10, WorkerKeeps, ZenonT(40)
(* The messages without that of a thread that is done.                     *)
MsgsLeft(rest, k) ==
    /\ rest \in Seq(DOMAIN part)
    /\ \A i \in DOMAIN rest : rest[i] # msgs[k] /\ \E j \in DOMAIN msgs : rest[i] = msgs[j]
    /\ \A i, j \in DOMAIN rest : i # j => rest[i] # rest[j]
    /\ \A j \in DOMAIN msgs : msgs[j] # msgs[k] => \E i \in DOMAIN rest : rest[i] = msgs[j]

LEMMA MsgsWithout ==
    ASSUME UploadInv, NEW k \in DOMAIN msgs, NEW rest, rest = Without(msgs, k)
    PROVE  MsgsLeft(rest, k)
  <1> DEFINE from(i) == IF i < k THEN i ELSE i + 1
             to(i) == IF i < k THEN i ELSE i - 1
             S == DOMAIN part
  <1>1. /\ msgs \in Seq(S) /\ DOMAIN msgs = 1 .. Len(msgs)
        /\ Len(msgs) \in Nat /\ k \in 1 .. Len(msgs)
    BY MsgFacts
  <1> HIDE DEF S
  <1>2. /\ rest \in Seq(S) /\ Len(rest) = Len(msgs) - 1
        /\ \A j \in 1 .. Len(msgs) - 1 : rest[j] = IF j < k THEN msgs[j] ELSE msgs[j + 1]
    BY <1>1, WithoutProperties
  <1>3. DOMAIN rest = 1 .. Len(msgs) - 1
    BY <1>1, <1>2
  <1>4. ASSUME NEW i \in DOMAIN rest
        PROVE  from(i) \in DOMAIN msgs /\ from(i) # k /\ rest[i] = msgs[from(i)]
    BY <1>1, <1>2, <1>3
  <1>5. \A i, j \in DOMAIN rest : i # j => from(i) # from(j)
    BY <1>1, <1>3
  <1>6. ASSUME NEW j \in DOMAIN msgs, j # k
        PROVE  to(j) \in DOMAIN rest /\ rest[to(j)] = msgs[j]
    <2>1. to(j) \in 1 .. Len(msgs) - 1 /\ j = IF to(j) < k THEN to(j) ELSE to(j) + 1
      BY <1>1, <1>6
    <2> HIDE DEF to
    <2> QED
      BY <1>2, <1>3, <2>1
  <1>7. \A i, j \in DOMAIN msgs : i # j => msgs[i] # msgs[j]
    BY DEF UploadInv, MsgsApart
  <1> HIDE DEF from, to
  <1>8. \A i, j \in DOMAIN rest : i # j => rest[i] # rest[j]
    BY <1>4, <1>5, <1>7
  <1>9. \A i \in DOMAIN rest : rest[i] # msgs[k] /\ \E j \in DOMAIN msgs : rest[i] = msgs[j]
    BY <1>4, <1>7
  <1>10. \A j \in DOMAIN msgs : msgs[j] # msgs[k] => \E i \in DOMAIN rest : rest[i] = msgs[j]
    BY <1>6
  <1> QED
    BY <1>2, <1>8, <1>9, <1>10 DEF S, MsgsLeft

(* The pending entry of a thread that is done.                             *)
Noted(m, p, e) == IF m.part = p /\ ~m.done THEN [m EXCEPT !.done = TRUE, !.err = e] ELSE m

LEMMA NotedFacts ==
    ASSUME NEW S, NEW m \in [part : S, done : BOOLEAN, err : BOOLEAN], NEW p,
           NEW e \in BOOLEAN, NEW r, r = Noted(m, p, e)
    PROVE  /\ r \in [part : S, done : BOOLEAN, err : BOOLEAN] /\ r.part = m.part
           /\ r.done => \/ m.done /\ r = m
                        \/ m.part = p /\ (r.err <=> e)
  <1>1. CASE m.part = p /\ ~m.done
    BY <1>1 DEF Noted
  <1>2. CASE ~(m.part = p /\ ~m.done)
    <2>1. r = m
      BY <1>2 DEF Noted
    <2> QED
      BY <2>1, Zenon
  <1> QED
    BY <1>1, <1>2

LEMMA WorkerDoneKeeps ==
    ASSUME UploadInv, NEW w \in Workers, WorkerDone(w)
    PROVE  UploadInv'
  <1> SUFFICES ASSUME NEW p, p = worker[w].part, NEW e, e = worker[w].err
               PROVE  UploadInv'
    OBVIOUS
  <1> DEFINE Message == [part : DOMAIN part, done : BOOLEAN, err : BOOLEAN]
  <1>1. /\ worker[w].pc = "done" /\ pending' = [i \in DOMAIN pending |-> Noted(pending[i], p, e)]
        /\ worker' = [worker EXCEPT ![w] = [Idle EXCEPT !.pc = "leave"]]
        /\ UNCHANGED <<size, dwMaxThreads, fileEnd, part, upload, stored, lost, main, cur,
                       thrown, result, Workers>>
    BY DEF WorkerDone, Noted, UnchangedByWorker, mainVars, serverVars, Workers
  <1>2. PICK k \in DOMAIN msgs : msgs[k] = p /\ msgs' = Without(msgs, k)
    BY DEF WorkerDone
  <1>3. MsgsLeft(msgs', k)
    BY <1>2, MsgsWithout, Zenon
  <1>4. /\ msgs' \in Seq(DOMAIN part)
        /\ \A i \in DOMAIN msgs' : msgs'[i] # p /\ \E j \in DOMAIN msgs : msgs'[i] = msgs[j]
        /\ \A i, j \in DOMAIN msgs' : i # j => msgs'[i] # msgs'[j]
        /\ \A j \in DOMAIN msgs : msgs[j] # p => \E i \in DOMAIN msgs' : msgs'[i] = msgs[j]
    BY <1>2, <1>3 DEF MsgsLeft
  <1>5. /\ e \in BOOLEAN /\ p \in DOMAIN part
        /\ \A u \in Workers : u # w /\ worker[u].pc \notin {"idle", "leave"} => worker[u].part # p
    BY <1>1, WorkerFacts, OwnPart
  <1>6. /\ DOMAIN pending' = DOMAIN pending
        /\ \A i \in DOMAIN pending : pending'[i] = Noted(pending[i], p, e)
    BY <1>1
  <1>7. ASSUME NEW i \in DOMAIN pending
        PROVE  /\ pending'[i] \in Message /\ pending'[i].part = pending[i].part
               /\ pending'[i].done =>
                    \/ pending[i].done /\ pending'[i] = pending[i]
                    \/ pending[i].part = p /\ (pending'[i].err <=> e)
    <2>1. pending[i] \in Message
      BY PendingFacts
    <2> QED
      BY <1>5, <1>6, <2>1, NotedFacts
  <1>8. pending' \in Seq(Message)
    <2>1. Len(pending) \in Nat /\ DOMAIN pending = 1 .. Len(pending)
      BY PendingFacts
    <2>2. pending' = [i \in 1 .. Len(pending) |-> pending'[i]]
      BY <1>1, <2>1
    <2>3. \A i \in 1 .. Len(pending) : pending'[i] \in Message
      BY <1>7, <2>1
    <2> HIDE DEF Message
    <2>4. pending' \in [1 .. Len(pending) -> Message]
      BY <2>2, <2>3, Zenon
    <2>5. Seq(Message) = UNION {[1 .. n -> Message] : n \in Nat}
      BY SeqDef
    <2> QED
      BY <2>1, <2>4, <2>5, Zenon
  <1>9. /\ worker' \in [Workers -> WorkerRecord] /\ worker'[w].pc = "leave"
        /\ \A u \in Workers : u # w => worker'[u] = worker[u]
    <2> DEFINE v == [Idle EXCEPT !.pc = "leave"]
    <2>1. v \in WorkerRecord /\ v.pc = "leave"
      <3>1. << >> \in Seq(Nat)
        OBVIOUS
      <3> QED
        BY <3>1 DEF Idle, WorkerRecord
    <2>2. worker \in [Workers -> WorkerRecord] /\ worker' = [worker EXCEPT ![w] = v]
      BY <1>1 DEF UploadInv, UploadTypeOK
    <2> HIDE DEF v
    <2> QED
      BY <2>1, <2>2
  <1>10. UploadTypeOK'
    BY <1>1, <1>4, <1>6, <1>8, <1>9 DEF UploadInv, UploadTypeOK, MultiPartTypeOK
  <1>11. MsgsApart'
    BY <1>1, <1>4 DEF UploadInv, MsgsApart
  <1>12. ASSUME NEW u \in Workers, worker'[u].pc \notin {"idle", "leave"}
         PROVE  u # w /\ worker'[u] = worker[u] /\ worker[u].part # p
    BY <1>5, <1>9, <1>12
  <1>13. WorkersApart'
    <2>1. ASSUME NEW u \in Workers, worker'[u].pc \notin {"idle", "leave"}
          PROVE  \E i \in DOMAIN msgs' : msgs'[i] = worker'[u].part
      BY <1>4, <1>12, <2>1 DEF UploadInv, WorkersApart
    <2>2. ASSUME NEW t \in Workers, NEW u \in Workers, t # u,
                 worker'[t].pc \notin {"idle", "leave"}, worker'[u].pc \notin {"idle", "leave"}
          PROVE  worker'[t].part # worker'[u].part
      BY <1>12, <2>2 DEF UploadInv, WorkersApart
    <2> QED
      BY <1>1, <2>1, <2>2 DEF WorkersApart
  <1>14. PendingApart'
    <2>1. \A i, j \in DOMAIN pending : i # j => pending'[i].part # pending'[j].part
      BY <1>7 DEF UploadInv, PendingApart
    <2>2. \A i \in DOMAIN pending : part[pending'[i].part].bInProcess
      BY <1>7 DEF UploadInv, PendingApart
    <2>3. ASSUME NEW i \in DOMAIN pending, NEW j \in DOMAIN msgs', pending'[i].done
          PROVE  pending'[i].part # msgs'[j]
      BY <1>4, <1>7, <2>3 DEF UploadInv, PendingApart
    <2> QED
      BY <1>1, <1>6, <2>1, <2>2, <2>3 DEF PendingApart
  <1>15. QueuesRun'
    <2>1. ASSUME NEW r, NEW d, Runs(r, d)
          PROVE  Runs(r, d)'
      BY <1>1, <2>1 DEF Runs
    <2>2. ASSUME NEW u \in Workers, worker'[u].pc \in {"send", "answer"},
                 NEW r, r = worker'[u].part, NEW d, d = worker'[u].data
          PROVE  Runs(r, d)'
      <3>1. worker'[u] = worker[u]
        BY <1>12, <2>2
      <3>2. Runs(r, d)
        BY <2>2, <3>1 DEF UploadInv, QueuesRun
      <3> QED
        BY <2>1, <3>2
    <2>3. ASSUME NEW i \in DOMAIN msgs', NEW r, r = msgs'[i], r \notin Begun'
          PROVE  Runs(r, << >>)'
      <3>1. PICK j \in DOMAIN msgs : r = msgs[j]
        BY <1>4, <2>3
      <3>2. r # p
        BY <1>4, <2>3
      <3>3. r \notin Begun
        <4>1. ASSUME NEW u \in Workers, worker[u].pc \notin {"idle", "leave"}, r = worker[u].part
              PROVE  FALSE
          <5>1. worker'[u] = worker[u]
            BY <1>9, <3>2, <4>1
          <5> QED
            BY <1>1, <2>3, <4>1, <5>1 DEF Begun, Uploads
        <4> QED
          BY <4>1 DEF Begun, Uploads
      <3>4. Runs(r, << >>)
        BY <3>1, <3>3 DEF UploadInv, QueuesRun
      <3> QED
        BY <2>1, <3>4
    <2> QED
      BY <1>1, <2>2, <2>3 DEF QueuesRun, Runs
  <1>16. CompleteIntact'
    <2>1. ASSUME NEW r
          PROVE  Intact(r)' <=> Intact(r)
      BY <1>1 DEF Intact
    <2>2. ASSUME NEW i \in DOMAIN pending, NEW r, r = pending'[i].part,
                 pending'[i].done, ~pending'[i].err
          PROVE  Intact(r)'
      <3>1. CASE pending[i].done /\ pending'[i] = pending[i]
        BY <2>1, <2>2, <3>1 DEF UploadInv, CompleteIntact
      <3>2. CASE pending[i].part = p /\ (pending'[i].err <=> e)
        <4>1. Intact(p) /\ r = p
          BY <1>1, <1>7, <2>2, <3>2 DEF UploadInv, CompleteIntact
        <4> QED
          BY <2>1, <4>1
      <3> QED
        BY <1>7, <2>2, <3>1, <3>2
    <2>3. ASSUME NEW u \in Workers, NEW r, r = worker'[u].part,
                 worker'[u].pc = "done", ~worker'[u].err
          PROVE  Intact(r)'
      <3>1. worker'[u] = worker[u]
        BY <1>12, <2>3
      <3>2. Intact(r)
        BY <2>3, <3>1 DEF UploadInv, CompleteIntact
      <3> QED
        BY <2>1, <3>2
    <2>4. \A r \in DOMAIN part : part[r].bComplete => Intact(r)'
      BY <2>1 DEF UploadInv, CompleteIntact
    <2>5. main = "complete" \/ upload = "completed" => \A r \in DOMAIN part : part[r].bComplete
      BY DEF UploadInv, CompleteIntact
    <2> QED
      BY <1>1, <1>6, <2>2, <2>3, <2>4, <2>5 DEF CompleteIntact, Intact
  <1>17. UploadKnown'
    BY <1>1 DEF UploadInv, UploadKnown
  <1> QED
    BY <1>10, <1>11, <1>13, <1>14, <1>15, <1>16, <1>17 DEF UploadInv

(* The message of a complete part leaves the pool: the thread is free.     *)
LEMMA WorkerLeavesKeeps ==
    ASSUME UploadInv, NEW w \in Workers, WorkerLeaves(w)
    PROVE  UploadInv'
  <1>1. /\ worker[w].pc = "leave" /\ worker' = [worker EXCEPT ![w] = Idle]
        /\ UNCHANGED <<size, dwMaxThreads, fileEnd, part, pending, msgs, upload, stored, lost,
                       main, cur, thrown, result, Workers>>
    BY DEF WorkerLeaves, UnchangedByWorker, mainVars, serverVars, partVars, Workers
  <1>2. worker \in [Workers -> WorkerRecord]
    BY DEF UploadInv, UploadTypeOK
  <1>3. Idle \in WorkerRecord /\ Idle.pc = "idle"
    <2>1. << >> \in Seq(Nat)
      OBVIOUS
    <2> QED
      BY <2>1 DEF Idle, WorkerRecord
  <1>4. /\ worker' \in [Workers -> WorkerRecord] /\ worker'[w].pc = "idle"
        /\ \A u \in Workers : u # w => worker'[u] = worker[u]
    BY <1>1, <1>2, <1>3
  <1>5. ASSUME NEW u \in Workers
        PROVE  /\ worker'[u].pc \notin {"idle", "leave"} <=> worker[u].pc \notin {"idle", "leave"}
               /\ worker'[u].pc \notin {"idle", "leave"} => worker'[u] = worker[u]
    BY <1>1, <1>4
  <1>6. UploadTypeOK'
    BY <1>1, <1>4 DEF UploadInv, UploadTypeOK, MultiPartTypeOK
  <1>7. MsgsApart' /\ PendingApart'
    BY <1>1 DEF UploadInv, MsgsApart, PendingApart
  <1>8. WorkersApart'
    BY <1>1, <1>5 DEF UploadInv, WorkersApart
  <1>9. Begun' = Begun
    BY <1>1, <1>5 DEF Begun, Uploads
  <1>10. QueuesRun'
    <2>1. ASSUME NEW r, NEW d, Runs(r, d)
          PROVE  Runs(r, d)'
      BY <1>1, <2>1 DEF Runs
    <2>2. ASSUME NEW u \in Workers, worker'[u].pc \in {"send", "answer"},
                 NEW r, r = worker'[u].part, NEW d, d = worker'[u].data
          PROVE  Runs(r, d)'
      <3>1. worker'[u] = worker[u]
        BY <1>5, <2>2
      <3>2. Runs(r, d)
        BY <2>2, <3>1 DEF UploadInv, QueuesRun
      <3> QED
        BY <2>1, <3>2
    <2>3. ASSUME NEW i \in DOMAIN msgs, NEW r, r = msgs[i], r \notin Begun
          PROVE  Runs(r, << >>)'
      <3>1. Runs(r, << >>)
        BY <2>3 DEF UploadInv, QueuesRun
      <3> QED
        BY <2>1, <3>1
    <2> QED
      BY <1>1, <1>9, <2>2, <2>3 DEF QueuesRun, Runs
  <1>11. CompleteIntact'
    <2>1. \A r : Intact(r)' <=> Intact(r)
      BY <1>1 DEF Intact
    <2>2. \A u \in Workers : worker'[u].pc = "done" => worker'[u] = worker[u]
      BY <1>5
    <2> QED
      BY <1>1, <2>1, <2>2 DEF UploadInv, CompleteIntact
  <1>12. UploadKnown'
    BY <1>1 DEF UploadInv, UploadKnown
  <1> QED
    BY <1>6, <1>7, <1>8, <1>10, <1>11, <1>12 DEF UploadInv
-----------------------------------------------------------------------------
(* The part list.                                                          *)

LEMMA PartLengthPositive ==
    ASSUME NEW n \in Nat
    PROVE  PartLength(n) \in Nat \ {0}
  <1>1. /\ PartSize \in Nat /\ PartSize >= 1 /\ MaxParts \in Nat /\ MaxParts >= 2
    BY MultiPartAssumption
  <1>2. CASE n \div PartSize > MaxParts
    <2>1. n >= MaxParts
      <3>1. PartSize * (n \div PartSize) <= n /\ n \div PartSize \in Nat
        BY <1>1
      <3> QED
        BY <1>1, <1>2, <3>1
    <2> QED
      BY <1>1, <1>2, <2>1 DEF PartLength
  <1>3. CASE ~(n \div PartSize > MaxParts)
    BY <1>1, <1>3 DEF PartLength
  <1> QED
    BY <1>2, <1>3

(* The last part begins before the end of the file.                        *)
LEMMA PartsBegin ==
    ASSUME NEW n \in Nat, NEW l \in Nat \ {0}, NEW p \in 1 .. (n + l - 1) \div l
    PROVE  (p - 1) * l \in Nat /\ (p - 1) * l < n
  <1> DEFINE k == (n + l - 1) \div l
  <1>1. k \in Nat /\ l * k <= n + l - 1
    OBVIOUS
  <1> HIDE DEF k
  <1>2. p \in Nat /\ p >= 1 /\ p <= k
    BY <1>1 DEF k
  <1>3. p * l <= k * l
    BY <1>1, <1>2
  <1>4. (p - 1) * l = p * l - l /\ l * k = k * l
    BY <1>1, <1>2
  <1>5. p * l \in Nat /\ k * l \in Nat /\ (p - 1) * l \in Nat
    BY <1>1, <1>2
  <1> QED
    BY <1>1, <1>3, <1>4, <1>5
LEMMA PartListTyped ==
    ASSUME NEW n \in Nat, NEW p \in 1 .. PartCount(n)
    PROVE  S3PartList(n)[p] \in PartRecord
  <1> DEFINE l == PartLength(n)
             b == (p - 1) * l
             m == IF n - b < l THEN n - b ELSE l
  <1>1. l \in Nat \ {0}
    BY PartLengthPositive
  <1>2. PartCount(n) = (n + l - 1) \div l
    BY DEF PartCount
  <1>3. S3PartList(n)[p] = NewPart(b, m)
    BY DEF S3PartList
  <1> HIDE DEF l
  <1>4. b \in Nat /\ b < n
    BY <1>1, <1>2, PartsBegin
  <1> HIDE DEF b
  <1>5. m \in Nat
    BY <1>1, <1>4
  <1> HIDE DEF m
  <1>6. << >> \in Seq(StreamEntry) /\ 0 \in Nat
    OBVIOUS
  <1>7. NewPart(b, m) \in PartRecord
    BY <1>4, <1>5, <1>6 DEF NewPart, PartRecord
  <1> QED
    BY <1>3, <1>7

LEMMA NewPartFacts ==
    ASSUME NEW n \in Nat, NEW p \in 1 .. PartCount(n)
    PROVE  ~S3PartList(n)[p].bComplete /\ S3PartList(n)[p].queue \in Seq(StreamEntry)
  <1>1. S3PartList(n)[p] = NewPart((p - 1) * PartLength(n),
          IF n - (p - 1) * PartLength(n) < PartLength(n) THEN n - (p - 1) * PartLength(n)
            ELSE PartLength(n))
    BY DEF S3PartList
  <1> QED
    BY <1>1 DEF NewPart

LEMMA PartCountNat ==
    ASSUME NEW n \in Nat
    PROVE  PartCount(n) \in Nat
  BY PartLengthPositive DEF PartCount

LEMMA InitInv ==
    ASSUME UploadInit
    PROVE  UploadInv
  <1>1. PICK c \in Cases : size = c[1] /\ dwMaxThreads = c[2]
    BY DEF UploadInit
  <1>2. c \in Nat \X (Nat \ {0}) /\ c = <<c[1], c[2]>>
    BY <1>1, MultiPartAssumption
  <1>3. size \in Nat /\ dwMaxThreads \in Nat /\ <<size, dwMaxThreads>> \in Cases
    BY <1>1, <1>2
  <1>4. /\ fileEnd = size /\ pending = << >> /\ msgs = << >>
        /\ worker = [w \in Workers |-> Idle]
        /\ main = IF InParts(size) THEN "initiate" ELSE "returned"
        /\ cur = 1 /\ bDeleted = FALSE /\ thrown = FALSE /\ bAbort = FALSE
        /\ upload = "none" /\ stored = [p \in DOMAIN part |-> << >>] /\ lost = FALSE
        /\ result = IF InParts(size) THEN "none" ELSE "declined"
    BY DEF UploadInit
  <1>5. /\ part \in [DOMAIN part -> PartRecord] /\ DOMAIN part \subseteq Nat
        /\ \A p \in DOMAIN part : ~part[p].bComplete /\ part[p].queue \in Seq(StreamEntry)
        /\ DOMAIN part # {} => size > 0
    <2>1. CASE InParts(size)
      <3>1. part = S3PartList(size) /\ DOMAIN part = 1 .. PartCount(size)
            /\ part = [p \in DOMAIN part |-> part[p]]
        BY <2>1 DEF UploadInit, S3PartList
      <3>2. PartSize \in Nat \ {0} /\ PartCount(size) \in Nat
        BY <1>3, MultiPartAssumption, PartCountNat
      <3>3. size > 0
        BY <1>3, <2>1, <3>2 DEF InParts
      <3>4. \A p \in DOMAIN part : /\ part[p] \in PartRecord /\ ~part[p].bComplete
                                   /\ part[p].queue \in Seq(StreamEntry)
        BY <1>3, <3>1, PartListTyped, NewPartFacts
      <3>5. part \in [DOMAIN part -> PartRecord]
        BY <3>1, <3>4, Zenon
      <3>6. DOMAIN part \subseteq Nat
        BY <3>1, <3>2
      <3> QED
        BY <3>3, <3>4, <3>5, <3>6
    <2>2. CASE ~InParts(size)
      <3>1. part = << >> /\ DOMAIN part = {}
        BY <2>2 DEF UploadInit
      <3>2. part \in [DOMAIN part -> PartRecord]
        BY <3>1
      <3> QED
        BY <3>1, <3>2
    <2> QED
      BY <2>1, <2>2
  <1>6. /\ worker \in [Workers -> WorkerRecord] /\ \A w \in Workers : worker[w].pc = "idle"
    <2>1. Idle \in WorkerRecord /\ Idle.pc = "idle"
      <3>1. << >> \in Seq(Nat)
        OBVIOUS
      <3> QED
        BY <3>1 DEF Idle, WorkerRecord
    <2> QED
      BY <1>4, <2>1
  <1>7. stored \in [DOMAIN part -> Seq(Nat)]
    <2>1. << >> \in Seq(Nat)
      OBVIOUS
    <2> QED
      BY <1>4, <2>1
  <1>8. /\ DOMAIN msgs = {} /\ DOMAIN pending = {} /\ msgs \in Seq(DOMAIN part)
        /\ pending \in Seq([part : DOMAIN part, done : BOOLEAN, err : BOOLEAN])
    BY <1>4
  <1>9. main \in {"initiate", "returned"} /\ result \in {"none", "declined"}
        /\ (main = "initiate" => result = "none") /\ upload = "none" /\ ~thrown
        /\ {thrown, lost} \subseteq BOOLEAN
    BY <1>4
  <1>10. MultiPartTypeOK
    BY <1>3, <1>4, <1>5, <1>8, <1>9 DEF MultiPartTypeOK, StreamEntry
  <1>11. UploadTypeOK
    BY <1>3, <1>4, <1>5, <1>6, <1>7, <1>9, <1>10 DEF UploadTypeOK
  <1>12. MsgsApart /\ WorkersApart /\ PendingApart /\ QueuesRun
    BY <1>6, <1>8 DEF MsgsApart, WorkersApart, PendingApart, QueuesRun
  <1>13. CompleteIntact
    BY <1>5, <1>6, <1>8, <1>9 DEF CompleteIntact
  <1>14. UploadKnown
    BY <1>9 DEF UploadKnown
  <1> QED
    BY <1>11, <1>12, <1>13, <1>14 DEF UploadInv

-----------------------------------------------------------------------------
(* The theorems.                                                           *)

LEMMA NextInv ==
    ASSUME UploadInv, [UploadNext]_uploadVars
    PROVE  UploadInv'
  <1>1. CASE S3MultiPartInitiate
    BY <1>1, InitiateKeeps
  <1>2. CASE DispatchPart
    BY <1>2, DispatchPartKeeps
  <1>3. CASE ReadFails
    BY <1>3, ReadFailsKeeps
  <1>4. CASE DispatchEnds
    BY <1>4, DispatchEndsKeeps
  <1>5. CASE WaitEvents
    BY <1>5, WaitEventsKeeps
  <1>6. CASE Harvest
    BY <1>6, HarvestKeeps
  <1>7. CASE HarvestEnds
    BY <1>7, HarvestEndsKeeps
  <1>8. CASE Feed
    BY <1>8, FeedKeeps
  <1>9. CASE S3MultiPartComplete
    BY <1>9, CompleteKeeps
  <1>10. CASE S3MultiPartAbort
    BY <1>10, AbortKeeps
  <1>11. CASE Terminate
    BY <1>11, TerminateKeeps
  <1>12. ASSUME NEW w \in Workers, WorkerStep(w)
         PROVE  UploadInv'
    BY <1>12, WorkerTakesKeeps, WorkerSendsKeeps, WorkerAnsweredKeeps, WorkerFailsKeeps,
       WorkerDoneKeeps, WorkerLeavesKeeps DEF WorkerStep
  <1>13. CASE AbortRequested
    BY <1>13, AbortRequestedKeeps
  <1>14. CASE FileShrinks
    BY <1>14, FileShrinksKeeps
  <1>15. CASE UNCHANGED uploadVars
    <2>1. UNCHANGED <<size, dwMaxThreads, fileEnd, partVars, worker, stored, main, cur, thrown,
                      result, upload, lost>>
      BY <1>15 DEF uploadVars, mainVars, serverVars
    <2>2. UploadKnown'
      BY <2>1 DEF UploadInv, UploadKnown
    <2>3. /\ main = "feed" => cur \in DOMAIN pending
          /\ main = "complete" \/ upload = "completed" => \A p \in DOMAIN part : part[p].bComplete
      BY DEF UploadInv, UploadTypeOK, CompleteIntact
    <2> QED
      BY <2>1, <2>2, <2>3, MainFacts, QuietKeeps
  <1> QED
    BY <1>1, <1>2, <1>3, <1>4, <1>5, <1>6, <1>7, <1>8, <1>9, <1>10, <1>11, <1>12, <1>13, <1>14,
       <1>15 DEF UploadNext, MainStep

(* The invariant holds of every upload, of any file by any pool: what is   *)
(* in the queues, at the threads and at the server fits together.          *)
THEOREM UploadInductive == UploadSpec => []UploadInv
  <1>1. UploadInit => UploadInv
    BY InitInv
  <1>2. UploadInv /\ [UploadNext]_uploadVars => UploadInv'
    BY NextInv
  <1> QED
    BY <1>1, <1>2, PTL DEF UploadSpec

(* The lists and queues of DoS3MultiPartUpload hold what they are for.     *)
THEOREM MultiPartTypeCorrect == UploadSpec => []MultiPartTypeOK
  <1>1. UploadInv => MultiPartTypeOK
    BY DEF UploadInv, UploadTypeOK
  <1> QED
    BY <1>1, UploadInductive, PTL

(* A part has one upload at a time, and its queue one reader.              *)
THEOREM OneUploadPerPartHolds == UploadSpec => []OneUploadPerPart
  <1>1. UploadInv => OneUploadPerPart
    BY DEF UploadInv, MsgsApart, WorkersApart, OneUploadPerPart, Uploads
  <1> QED
    BY <1>1, UploadInductive, PTL

(* The upload that was begun is completed or aborted on return.            *)
THEOREM UploadClosedHolds == UploadSpec => []UploadClosed
  <1>1. UploadInv => UploadClosed
    BY DEF UploadInv, UploadKnown, UploadClosed
  <1> QED
    BY <1>1, UploadInductive, PTL

-----------------------------------------------------------------------------
(* The parts lie in the file as the list was made.                         *)

LaidOut(p) ==
    /\ part[p].base = (p - 1) * PartLength(size)
    /\ part[p].length = IF size - part[p].base < PartLength(size) THEN size - part[p].base
                          ELSE PartLength(size)

PartsLaidOut ==
    /\ main # "returned" \/ upload # "none" => InParts(size)
    /\ InParts(size) => DOMAIN part = 1 .. PartCount(size) /\ \A p \in DOMAIN part : LaidOut(p)

(* No step moves a part.                                                   *)
SameLayout ==
    /\ DOMAIN part' = DOMAIN part
    /\ \A p \in DOMAIN part : part'[p].base = part[p].base /\ part'[p].length = part[p].length

LEMMA FieldLayout ==
    ASSUME UploadInv, NEW p \in DOMAIN part, NEW r, part' = [part EXCEPT ![p] = r],
           r.base = part[p].base, r.length = part[p].length
    PROVE  SameLayout
  <1>1. part \in [DOMAIN part -> PartRecord]
    BY DEF UploadInv, UploadTypeOK
  <1> QED
    BY <1>1 DEF SameLayout

LEMMA NextLayout ==
    ASSUME UploadInv, [UploadNext]_uploadVars
    PROVE  SameLayout
  <1>1. CASE UNCHANGED part
    BY <1>1 DEF SameLayout
  <1>2. CASE DispatchPart
    <2>1. CASE UNCHANGED partVars
      BY <1>1, <2>1 DEF partVars
    <2>2. CASE ~UNCHANGED partVars
      <3> SUFFICES ASSUME NEW q, q = Entries(cur, 0, Least(MaxQueueSize, part[cur].length)),
                          NEW r, r = [part[cur] EXCEPT !.bInProcess = TRUE, !.queue = q,
                                                       !.cursor = Read(q)]
                   PROVE  SameLayout
        OBVIOUS
      <3>1. /\ cur \in DOMAIN part
            /\ part' = [part EXCEPT ![cur].bInProcess = TRUE, ![cur].queue = q,
                                    ![cur].cursor = Read(q)]
        BY <1>2, <2>2 DEF DispatchPart
      <3>2. part[cur] \in PartRecord
        BY <3>1, PartFacts
      <3>3. part' = [part EXCEPT ![cur] = r]
        BY <3>1
      <3>4. r.base = part[cur].base /\ r.length = part[cur].length
        BY <3>2 DEF PartRecord
      <3> QED
        BY <3>1, <3>3, <3>4, FieldLayout, ZenonT(40)
    <2> QED
      BY <2>1, <2>2
  <1>3. CASE Harvest
    <2>1. CASE UNCHANGED partVars
      BY <1>1, <2>1 DEF partVars
    <2>2. CASE ~UNCHANGED partVars
      <3> SUFFICES ASSUME NEW p, p = pending[cur].part
                   PROVE  SameLayout
        OBVIOUS
      <3>1. /\ cur \in DOMAIN pending
            /\ \/ part' = ResetPart(p)
               \/ part' = [part EXCEPT ![p].bComplete = TRUE]
        BY <1>3, <2>2 DEF Harvest
      <3>2. p \in DOMAIN part /\ part[p] \in PartRecord
        BY <3>1, PendingFacts, PartFacts
      <3>3. CASE part' = ResetPart(p)
        <4> SUFFICES ASSUME NEW r, r = [part[p] EXCEPT !.bInProcess = FALSE, !.retry = @ + 1,
                                                       !.queue = << >>, !.cursor = 0]
                     PROVE  SameLayout
          OBVIOUS
        <4>1. part' = [part EXCEPT ![p] = r]
          BY <3>3 DEF ResetPart
        <4>2. r.base = part[p].base /\ r.length = part[p].length
          BY <3>2 DEF PartRecord
        <4> QED
          BY <3>2, <4>1, <4>2, FieldLayout
      <3>4. CASE part' = [part EXCEPT ![p].bComplete = TRUE]
        <4> SUFFICES ASSUME NEW r, r = [part[p] EXCEPT !.bComplete = TRUE]
                     PROVE  SameLayout
          OBVIOUS
        <4>1. part' = [part EXCEPT ![p] = r]
          BY <3>4
        <4>2. r.base = part[p].base /\ r.length = part[p].length
          BY <3>2 DEF PartRecord
        <4> QED
          BY <3>2, <4>1, <4>2, FieldLayout
      <3> QED
        BY <3>1, <3>3, <3>4
    <2> QED
      BY <2>1, <2>2
  <1>4. CASE Feed
    <2> SUFFICES ASSUME NEW p, p = pending[cur].part, NEW n, n = Entries(p, part[p].cursor, 1),
                        NEW r, r = [part[p] EXCEPT !.queue = @ \o n, !.cursor = @ + Read(n)]
                 PROVE  SameLayout
      OBVIOUS
    <2>1. UNCHANGED part \/ part' = [part EXCEPT ![p].queue = @ \o n, ![p].cursor = @ + Read(n)]
      BY <1>4 DEF Feed
    <2>2. p \in DOMAIN part /\ part[p] \in PartRecord
      BY <1>4, PendingFacts, PartFacts DEF Feed, UploadInv, UploadTypeOK
    <2>3. r.base = part[p].base /\ r.length = part[p].length
      BY <2>2 DEF PartRecord
    <2>4. UNCHANGED part \/ part' = [part EXCEPT ![p] = r]
      BY <2>1, ZenonT(40)
    <2>5. CASE part' = [part EXCEPT ![p] = r]
      BY <2>2, <2>3, <2>5, FieldLayout
    <2> QED
      BY <1>1, <2>4, <2>5
  <1>5. ASSUME NEW w \in Workers, WorkerTakes(w)
        PROVE  SameLayout
    <2>1. PICK i \in DOMAIN msgs : part' = [part EXCEPT ![msgs[i]].sETag = FALSE]
      BY <1>5 DEF WorkerTakes
    <2> SUFFICES ASSUME NEW p, p = msgs[i], NEW r, r = [part[p] EXCEPT !.sETag = FALSE]
                 PROVE  SameLayout
      OBVIOUS
    <2>2. p \in DOMAIN part /\ part[p] \in PartRecord
      BY MsgFacts, PartFacts
    <2>3. r.base = part[p].base /\ r.length = part[p].length
      BY <2>2 DEF PartRecord
    <2>4. part' = [part EXCEPT ![p] = r]
      BY <2>1
    <2> QED
      BY <2>2, <2>3, <2>4, FieldLayout
  <1>6. ASSUME NEW w \in Workers, WorkerSends(w)
        PROVE  SameLayout
    <2> SUFFICES ASSUME NEW p, p = worker[w].part, NEW r, r = [part[p] EXCEPT !.queue = Tail(@)]
                 PROVE  SameLayout
      OBVIOUS
    <2>1. worker[w].pc = "send" /\ part' = [part EXCEPT ![p].queue = Tail(@)]
      BY <1>6 DEF WorkerSends
    <2>2. p \in DOMAIN part /\ part[p] \in PartRecord
      BY <2>1, WorkerFacts, PartFacts
    <2>3. r.base = part[p].base /\ r.length = part[p].length
      BY <2>2 DEF PartRecord
    <2>4. part' = [part EXCEPT ![p] = r]
      BY <2>1
    <2> QED
      BY <2>2, <2>3, <2>4, FieldLayout
  <1>7. ASSUME NEW w \in Workers, WorkerAnswered(w)
        PROVE  SameLayout
    <2> SUFFICES ASSUME NEW p, p = worker[w].part, NEW r, r = [part[p] EXCEPT !.sETag = TRUE]
                 PROVE  SameLayout
      OBVIOUS
    <2>1. worker[w].pc = "answer" /\ part' = [part EXCEPT ![p].sETag = TRUE]
      BY <1>7 DEF WorkerAnswered
    <2>2. p \in DOMAIN part /\ part[p] \in PartRecord
      BY <2>1, WorkerFacts, PartFacts
    <2>3. r.base = part[p].base /\ r.length = part[p].length
      BY <2>2 DEF PartRecord
    <2>4. part' = [part EXCEPT ![p] = r]
      BY <2>1
    <2> QED
      BY <2>2, <2>3, <2>4, FieldLayout
  <1>8. ASSUME NEW w \in Workers, WorkerFails(w) \/ WorkerDone(w) \/ WorkerLeaves(w)
        PROVE  UNCHANGED part
    BY <1>8 DEF WorkerFails, WorkerDone, WorkerLeaves, partVars
  <1>9. ASSUME \/ S3MultiPartInitiate \/ ReadFails \/ DispatchEnds \/ WaitEvents
               \/ HarvestEnds \/ S3MultiPartComplete \/ S3MultiPartAbort \/ Terminate
               \/ AbortRequested \/ FileShrinks \/ UNCHANGED uploadVars
        PROVE  UNCHANGED part
    BY <1>9 DEF S3MultiPartInitiate, ReadFails, DispatchEnds, WaitEvents, HarvestEnds,
       S3MultiPartComplete, S3MultiPartAbort, Terminate, AbortRequested, FileShrinks,
       uploadVars, partVars
  <1> QED
    BY <1>1, <1>2, <1>3, <1>4, <1>5, <1>6, <1>7, <1>8, <1>9
       DEF UploadNext, MainStep, WorkerStep

LEMMA LaidOutInitially ==
    ASSUME UploadInit
    PROVE  PartsLaidOut
  <1>1. /\ main = IF InParts(size) THEN "initiate" ELSE "returned"
        /\ upload = "none"
        /\ InParts(size) => part = S3PartList(size)
    BY DEF UploadInit
  <1>2. ASSUME InParts(size)
        PROVE  DOMAIN part = 1 .. PartCount(size) /\ \A p \in DOMAIN part : LaidOut(p)
    <2>1. part = S3PartList(size) /\ DOMAIN part = 1 .. PartCount(size)
      BY <1>1, <1>2 DEF S3PartList
    <2>2. ASSUME NEW p \in DOMAIN part
          PROVE  LaidOut(p)
      <3> DEFINE b == (p - 1) * PartLength(size)
                 m == IF size - b < PartLength(size) THEN size - b ELSE PartLength(size)
      <3>1. part[p] = NewPart(b, m)
        BY <2>1 DEF S3PartList
      <3>2. part[p].base = b /\ part[p].length = m
        BY <3>1 DEF NewPart
      <3> QED
        BY <3>2 DEF LaidOut
    <2> QED
      BY <2>1, <2>2
  <1> QED
    BY <1>1, <1>2 DEF PartsLaidOut

LEMMA LaidOutKept ==
    ASSUME UploadInv, PartsLaidOut, [UploadNext]_uploadVars
    PROVE  PartsLaidOut'
  <1>1. SameLayout
    BY NextLayout
  <1>2. /\ size' = size
        /\ main' # "returned" \/ upload' # "none" => main # "returned" \/ upload # "none"
    <2>1. CASE MainStep
      BY <2>1 DEF MainStep, S3MultiPartInitiate, DispatchPart, ReadFails, DispatchEnds, WaitEvents,
         Harvest, HarvestEnds, Feed, S3MultiPartComplete, S3MultiPartAbort, Terminate, Throw,
         UnchangedByMain
    <2>2. ASSUME NEW w \in Workers, WorkerStep(w)
          PROVE  UNCHANGED <<size, main, upload>>
      BY <2>2 DEF WorkerStep, WorkerTakes, WorkerSends, WorkerAnswered, WorkerFails, WorkerDone,
         WorkerLeaves, UnchangedByWorker, mainVars, serverVars
    <2>3. CASE AbortRequested \/ FileShrinks \/ UNCHANGED uploadVars
      BY <2>3 DEF AbortRequested, FileShrinks, uploadVars, mainVars, serverVars
    <2> QED
      BY <2>1, <2>2, <2>3 DEF UploadNext
  <1>3. InParts(size)' <=> InParts(size)
    BY <1>2 DEF InParts, PartLength
  <1>4. PartLength(size)' = PartLength(size) /\ PartCount(size)' = PartCount(size)
    BY <1>2 DEF PartCount, PartLength
  <1>5. ASSUME NEW p \in DOMAIN part, LaidOut(p)
        PROVE  LaidOut(p)'
    BY <1>1, <1>2, <1>4, <1>5 DEF LaidOut, SameLayout
  <1> QED
    BY <1>1, <1>2, <1>3, <1>4, <1>5 DEF PartsLaidOut, SameLayout

(* The parts, at the places of the list, have each record once.            *)
Covered(n, l, r) ==
    \E p \in 1 .. (n + l - 1) \div l :
      \E i \in 1 .. (IF n - (p - 1) * l < l THEN n - (p - 1) * l ELSE l) : (p - 1) * l + i = r

LEMMA PartsCover ==
    ASSUME NEW n \in Nat, NEW l \in Nat \ {0}, NEW r \in 1 .. n
    PROVE  Covered(n, l, r)
  <1> DEFINE k == (n + l - 1) \div l
             q == (r - 1) \div l
  <1>1. k \in Nat /\ n + l - 1 < l * k + l
    OBVIOUS
  <1>2. q \in Nat /\ l * q <= r - 1 /\ r - 1 < l * q + l
    OBVIOUS
  <1> HIDE DEF k, q
  <1>3. q + 1 <= k
    <2>1. SUFFICES ASSUME k <= q PROVE FALSE
      BY <1>1, <1>2
    <2>2. l * k <= l * q
      BY <1>1, <1>2, <2>1
    <2>3. l * k \in Nat /\ l * q \in Nat
      BY <1>1, <1>2
    <2> QED
      BY <1>1, <1>2, <2>2, <2>3
  <1>4. l * q \in Nat /\ ((q + 1) - 1) * l = l * q
    BY <1>2
  <1> DEFINE b == l * q
  <1>5. b \in Nat /\ b <= r - 1 /\ r - 1 < b + l
    BY <1>2, <1>4
  <1> HIDE DEF b
  <1>6. r - b \in 1 .. (IF n - b < l THEN n - b ELSE l) /\ b + (r - b) = r
    BY <1>5
  <1>7. q + 1 \in 1 .. k /\ ((q + 1) - 1) * l = b
    BY <1>1, <1>2, <1>3, <1>4 DEF b
  <1> QED
    BY <1>6, <1>7 DEF k, Covered

LEMMA PartsOrdered ==
    ASSUME NEW l \in Nat \ {0}, NEW p \in Nat \ {0}, NEW q \in Nat \ {0}, p < q,
           NEW i \in 1 .. l, NEW j \in Nat \ {0}
    PROVE  (p - 1) * l + i < (q - 1) * l + j
  <1>1. p <= q - 1 /\ q - 1 \in Nat
    OBVIOUS
  <1>2. p * l <= (q - 1) * l
    BY <1>1
  <1>3. (p - 1) * l = p * l - l
    OBVIOUS
  <1>4. p * l \in Nat /\ (q - 1) * l \in Nat /\ (p - 1) * l \in Nat
    BY <1>1
  <1> QED
    BY <1>2, <1>3, <1>4

LEMMA WholeIsFile ==
    ASSUME UploadInv, PartsLaidOut
    PROVE  ObjectIntact
  <1> SUFFICES ASSUME upload = "completed"
               PROVE  /\ \A r \in 1 .. size :
                           \E p \in DOMAIN part : \E i \in DOMAIN stored[p] : stored[p][i] = r
                      /\ \A p \in DOMAIN part : \A i \in DOMAIN stored[p] : stored[p][i] \in 1 .. size
                      /\ \A p, q \in DOMAIN part :
                           \A i \in DOMAIN stored[p], j \in DOMAIN stored[q] :
                             p < q \/ (p = q /\ i < j) => stored[p][i] < stored[q][j]
                      /\ \A p \in DOMAIN part : part[p].sETag
    BY DEF ObjectIntact
  <1> DEFINE l == PartLength(size)
             n(p) == IF size - (p - 1) * l < l THEN size - (p - 1) * l ELSE l
  <1>1. size \in Nat /\ InParts(size)
    BY DEF UploadInv, UploadTypeOK, PartsLaidOut
  <1>2. l \in Nat \ {0}
    BY <1>1, PartLengthPositive
  <1>3. DOMAIN part = 1 .. (size + l - 1) \div l
    BY <1>1 DEF PartsLaidOut, PartCount
  <1> HIDE DEF l
  <1>4. ASSUME NEW p \in DOMAIN part
        PROVE  /\ DOMAIN stored[p] = 1 .. n(p)
               /\ \A i \in 1 .. n(p) : stored[p][i] = (p - 1) * l + i
    <2>1. HasWhole(stored[p], part[p])
      BY DEF UploadInv, CompleteIntact, Intact
    <2>2. part[p].base = (p - 1) * l /\ part[p].length = n(p)
      BY <1>1 DEF PartsLaidOut, LaidOut, l
    <2> HIDE DEF n
    <2> QED
      BY <2>1, <2>2 DEF HasWhole
  <1>5. ASSUME NEW p \in DOMAIN part
        PROVE  /\ p \in Nat \ {0} /\ (p - 1) * l \in Nat /\ (p - 1) * l < size
               /\ n(p) \in Nat /\ n(p) <= l /\ (p - 1) * l + n(p) <= size
    <2>1. (p - 1) * l \in Nat /\ (p - 1) * l < size
      BY <1>1, <1>2, <1>3, PartsBegin
    <2>2. p \in Nat \ {0}
      BY <1>1, <1>2, <1>3
    <2> DEFINE b == (p - 1) * l
    <2>3. b \in Nat /\ b < size
      BY <2>1
    <2> HIDE DEF b
    <2>4. n(p) = IF size - b < l THEN size - b ELSE l
      BY DEF b
    <2> HIDE DEF n
    <2>5. n(p) \in Nat /\ n(p) <= l /\ b + n(p) <= size
      BY <1>1, <1>2, <2>3, <2>4
    <2> QED
      BY <2>1, <2>2, <2>5 DEF b
  <1>6. ASSUME NEW r \in 1 .. size
        PROVE  \E p \in DOMAIN part : \E i \in DOMAIN stored[p] : stored[p][i] = r
    <2>1. PICK p \in DOMAIN part : \E i \in 1 .. n(p) : (p - 1) * l + i = r
      <3>1. Covered(size, l, r)
        BY <1>1, <1>2, PartsCover
      <3> QED
        BY <1>3, <3>1 DEF Covered
    <2> HIDE DEF n
    <2>2. PICK i \in 1 .. n(p) : (p - 1) * l + i = r
      BY <2>1
    <2> QED
      BY <1>4, <2>2
  <1> HIDE DEF n
  <1>7. ASSUME NEW p \in DOMAIN part, NEW i \in DOMAIN stored[p]
        PROVE  stored[p][i] \in 1 .. size
    <2> DEFINE b == (p - 1) * l
    <2>1. b \in Nat /\ n(p) \in Nat /\ b + n(p) <= size /\ i \in 1 .. n(p)
      BY <1>4, <1>5
    <2>2. stored[p][i] = b + i
      BY <1>4, <2>1
    <2> HIDE DEF b
    <2> QED
      BY <1>1, <2>1, <2>2
  <1>8. ASSUME NEW p \in DOMAIN part, NEW q \in DOMAIN part, NEW i \in DOMAIN stored[p],
               NEW j \in DOMAIN stored[q], p < q \/ (p = q /\ i < j)
        PROVE  stored[p][i] < stored[q][j]
    <2>1. /\ i \in 1 .. n(p) /\ j \in 1 .. n(q)
          /\ stored[p][i] = (p - 1) * l + i /\ stored[q][j] = (q - 1) * l + j
      BY <1>4
    <2>2. /\ n(p) \in Nat /\ n(p) <= l /\ n(q) \in Nat
          /\ p \in Nat \ {0} /\ q \in Nat \ {0} /\ (p - 1) * l \in Nat
      BY <1>5
    <2>3. i \in 1 .. l /\ j \in Nat \ {0} /\ i \in Nat
      BY <1>2, <2>1, <2>2
    <2>4. CASE p < q
      BY <1>2, <2>1, <2>2, <2>3, <2>4, PartsOrdered
    <2>5. CASE p = q /\ i < j
      BY <2>1, <2>2, <2>3, <2>5
    <2> QED
      BY <1>8, <2>4, <2>5
  <1>9. \A p \in DOMAIN part : part[p].sETag
    BY DEF UploadInv, CompleteIntact, Intact, HasWhole
  <1> QED
    BY <1>6, <1>7, <1>8, <1>9

(* The object is the file: every record of it, once and in order, across   *)
(* the parts that ullPartLength cuts it into, whatever failed meanwhile.   *)
(* (S3MultiPartComplete.)                                                  *)
THEOREM ObjectIntactHolds == UploadSpec => []ObjectIntact
  <1>1. UploadInit => PartsLaidOut
    BY LaidOutInitially
  <1>2. UploadInv /\ PartsLaidOut /\ [UploadNext]_uploadVars => PartsLaidOut'
    BY LaidOutKept
  <1>3. UploadInv /\ PartsLaidOut => ObjectIntact
    BY WholeIsFile
  <1> QED
    BY <1>1, <1>2, <1>3, UploadInductive, PTL DEF UploadSpec
=============================================================================
