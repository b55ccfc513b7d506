-------------------------- MODULE ConnectionProofs --------------------------
(***************************************************************************)
(* Proofs about Connection, for any finite set of threads, any size of the *)
(* bodies, any rate and any number of requests, faults and calls of        *)
(* setters.                                                                *)
(*                                                                         *)
(* ThreadOK relates, for one thread, how far SendRequestInternal is, what  *)
(* its context says and what WinHTTP does.  It is an operator of the three *)
(* records, so that a step of one thread is a fact about records, and the  *)
(* other threads, whose records stay, keep it for free.                    *)
(***************************************************************************)
EXTENDS Connection, FiniteSetTheorems, TLAPS

(* The request of a thread holds a reference to the thread's state; and no *)
(* callback is inside the context when lExitFlag says so.                  *)
Referenced(q, s, n) ==
    /\ q.pc = "idle" => s.refs = 0 /\ (n.hRequest = "none" => ~n.inside)
    /\ q.pc # "idle" => s.refs = 1
    /\ s.refs = 1 => s.alive
    /\ n.inside => s.lExitFlag = 0

(* The request handle: open while commands are issued, closed or given up  *)
(* before the session is released.                                         *)
HandleAt(q, s, n) ==
    /\ q.pc \in {"alloc", "init", "open"} => n.hRequest = "none"
    /\ q.pc \in {"call", "next", "throttle"} => n.hRequest = "open"
    /\ q.pc = "close" => n.hRequest \in {"none", "open"}
    /\ q.pc = "wait" => IF q.cmd = "closing" THEN n.hRequest \in {"none", "closing"}
                                            ELSE n.hRequest = "open"
    /\ q.pc \in {"release", "exit", "idle"} => n.hRequest \in {"none", "abandoned", "late"}
    /\ n.hRequest \in {"none", "late"} => n.op = "none"
    /\ "closing" \in s.CallbacksReceived /\ q.pc = "wait" =>
         q.cmd = "closing" /\ n.hRequest = "none"

(* One command at a time: a command that is pending while it is waited for *)
(* is the one that is waited for, and has not been answered.               *)
OneCommand(q, s, n) ==
    /\ q.pc \in {"call", "next", "throttle"} =>
         n.op = "none" /\ q.cmd \notin {"none", "closing"}
    /\ q.pc = "wait" /\ q.cmd # "closing" /\ n.op # "none" =>
         n.op = q.cmd /\ s.CallbacksReceived = {} /\ ~s.bFailed
    /\ n.op = "read" => n.left > 0
    /\ q.pc = "throttle" => q.cmd \in {"write", "read"}

Answered(q, s, n) ==
    q.pc = "next" \/ (q.pc = "wait" /\ n.op = "none" /\ ~s.bFailed)

One(b) == IF b THEN 1 ELSE 0

(* What the request, the server and WinHTTP count agree.                   *)
PiecesAgree(c, q, s, n) ==
    /\ q.pc \in {"alloc", "init", "open"} => q.sent = 0 /\ q.rcvd = 0
    /\ q.pc \in {"call", "wait", "next", "throttle"} =>
        /\ q.cmd = "send" =>
             /\ q.sent = 0 /\ q.rcvd = 0
             /\ Answered(q, s, n) => n.server = One(c.body > 0 /\ ~(c.tail > 0) /\ ~q.throttled)
        /\ q.cmd = "write" =>
             /\ q.rcvd = 0 /\ q.sent <= c.body
             /\ q.pc # "throttle" => q.sent < c.body
             /\ n.server = q.sent + One(Answered(q, s, n))
        /\ q.cmd = "headers" =>
             /\ q.rcvd = 0 /\ q.sent = c.body /\ n.server = c.body
             /\ Answered(q, s, n) => n.left = c.response
        /\ q.cmd = "available" => n.server = c.body /\ q.rcvd + n.left = c.response
        /\ q.cmd = "read" =>
             /\ n.server = c.body
             /\ q.rcvd + n.left + One(Answered(q, s, n)) = c.response
             /\ q.pc = "call" => n.left > 0

(* A request that succeeded has had the whole answer, from then on.        *)
Succeeded(c, q, s, n) ==
    q.Error = "ok" =>
        /\ q.pc \in {"close", "wait", "release", "exit", "idle"}
        /\ q.pc = "wait" => q.cmd = "closing"
        /\ n.op = "none" /\ n.server = c.body /\ q.rcvd = c.response

ThreadOK(c, q, s, n) ==
    /\ Referenced(q, s, n)
    /\ HandleAt(q, s, n)
    /\ OneCommand(q, s, n)
    /\ PiecesAgree(c, q, s, n)
    /\ Succeeded(c, q, s, n)

ThreadsOK ==
    \A r \in Threads :
        /\ ThreadOK(scope, req[r], state[r], net[r])
        /\ r \notin scope.threads => req[r].pc = "idle"

(* A session in use is in use by one request.                              *)
HoldsSession(q) == q.pc \notin {"idle", "alloc", "exit"}

SessionsHeld ==
    /\ \A r \in Threads : req[r].session # 0 <=> HoldsSession(req[r])
    /\ \A r \in Threads : req[r].session # 0 =>
         /\ req[r].session \in DOMAIN SessionMap
         /\ SessionMap[req[r].session].bInUse
    /\ \A r, q \in Threads : req[r].session # 0 /\ req[r].session = req[q].session => r = q
    /\ \A k \in DOMAIN SessionMap : SessionMap[k].bInUse =>
         \E r \in Threads : req[r].session = k

(* What has been moved is paid for from the quota, and the quota is        *)
(* overdrawn by the requests that wait in the loops, or were aborted there.*)
Throttled == {r \in Threads : req[r].pc = "throttle"}

Paid(t, waiting) ==
    t.on => /\ t.level + t.iBytesCurInterval <= t.most + t.uncharged
            /\ t.iBytesCurInterval + waiting + t.aborted >= 0

QuotaInv == Paid(throttle, Cardinality(Throttled))

ConnectionInv ==
    /\ TypeOK /\ ThreadsOK /\ SessionsHeld /\ QuotaInv
    /\ SettingsTakeHold /\ invalidated <= settings
-----------------------------------------------------------------------------
(* The steps of one thread, as facts about its three records.              *)

Fits(c, q, s, n) ==
    q \in Requests /\ s \in States /\ n \in Handles /\ ThreadOK(c, q, s, n)

(* A command is issued.                                                    *)
LEMMA IssueOK ==
    ASSUME NEW c, c.body \in Nat, c.response \in Nat,
           NEW q, NEW s, NEW n, Fits(c, q, s, n),
           q.pc = "call"
    PROVE  Fits(c, [q EXCEPT !.pc = "wait"],
                   PrepareCmd(s),
                   [n EXCEPT !.op = q.cmd])
  <1> DEFINE qq == [q EXCEPT !.pc = "wait"]
             ss == PrepareCmd(s)
             nn == [n EXCEPT !.op = q.cmd]
  <1>1. q \in Requests /\ s \in States /\ n \in Handles /\ ThreadOK(c, q, s, n)
    BY DEF Fits
  <1>2. /\ qq \in Requests
        /\ qq.pc = "wait" /\ qq.cmd = q.cmd /\ qq.sent = q.sent /\ qq.rcvd = q.rcvd
        /\ qq.throttled = q.throttled /\ qq.Error = q.Error
        /\ qq.session = q.session
    BY <1>1 DEF Requests
  <1>3. /\ ss \in States
        /\ ss.alive = s.alive /\ ss.refs = s.refs /\ ss.lExitFlag = s.lExitFlag
        /\ ss.CallbacksReceived = {} /\ ss.bFailed = FALSE
    BY <1>1 DEF States, PrepareCmd
  <1>4. /\ nn \in Handles
        /\ nn.op = q.cmd /\ nn.hRequest = n.hRequest /\ nn.inside = n.inside
        /\ nn.server = n.server /\ nn.left = n.left
    BY <1>1 DEF Handles, Requests
  <1> HIDE DEF qq, ss, nn
  <1>5. Referenced(qq, ss, nn)
    BY <1>1, <1>2, <1>3, <1>4 DEF ThreadOK, Referenced, HandleAt
  <1>6. HandleAt(qq, ss, nn)
    BY <1>1, <1>2, <1>3, <1>4 DEF ThreadOK, HandleAt, OneCommand
  <1>7. OneCommand(qq, ss, nn)
    BY <1>1, <1>2, <1>3, <1>4 DEF ThreadOK, OneCommand, HandleAt, PiecesAgree, Answered, One
  <1>8. PiecesAgree(c, qq, ss, nn)
    BY <1>1, <1>2, <1>3, <1>4 DEF ThreadOK, PiecesAgree, OneCommand, HandleAt, Answered, One
  <1>9. Succeeded(c, qq, ss, nn)
    BY <1>1, <1>2, <1>3, <1>4 DEF ThreadOK, Succeeded, HandleAt, OneCommand, PiecesAgree, Answered, One
  <1> QED
    BY <1>1, <1>2, <1>3, <1>4,
       <1>5, <1>6, <1>7, <1>8, <1>9
       DEF ThreadOK, Fits, qq, ss, nn

(* A request gives up, and CloseRequest is next.                           *)
LEMMA ThrowOK ==
    ASSUME NEW c, c.body \in Nat, c.response \in Nat,
           NEW q, NEW s, NEW n, Fits(c, q, s, n),
           q.pc \in {"init", "open", "call", "wait", "next", "throttle"},
           q.pc = "wait" => q.cmd # "closing",
           NEW e \in {"setup", "none", "error", "resend", "aborted", "timeout"},
           NEW ss \in States, ss.alive = s.alive, ss.refs = s.refs, ss.lExitFlag = s.lExitFlag,
           ss.CallbacksReceived \in {s.CallbacksReceived, {}}
    PROVE  Fits(c, [q EXCEPT !.pc = "close", !.Error = e], ss, n)
  <1> DEFINE qq == [q EXCEPT !.pc = "close", !.Error = e]
  <1>1. q \in Requests /\ s \in States /\ n \in Handles /\ ThreadOK(c, q, s, n)
    BY DEF Fits
  <1>2. qq \in Requests /\ qq.pc = "close" /\ qq.Error = e
    BY <1>1 DEF Requests
  <1> HIDE DEF qq
  <1>3. Referenced(qq, ss, n) /\ HandleAt(qq, ss, n)
    BY <1>1, <1>2 DEF ThreadOK, Referenced, HandleAt
  <1>4. OneCommand(qq, ss, n) /\ PiecesAgree(c, qq, ss, n) /\ Succeeded(c, qq, ss, n)
    BY <1>1, <1>2 DEF ThreadOK, OneCommand, PiecesAgree, Succeeded
  <1> QED
    BY <1>1, <1>2, <1>3, <1>4 DEF ThreadOK, Fits, qq

(* The set-up fails after the handle was opened.                           *)
LEMMA OpenFailedOK ==
    ASSUME NEW c, NEW q, NEW s, NEW n, Fits(c, q, s, n), q.pc = "open"
    PROVE  Fits(c, [q EXCEPT !.pc = "close", !.Error = "setup"], s,
                   [NoHandle EXCEPT !.hRequest = "open"])
  <1> DEFINE qq == [q EXCEPT !.pc = "close", !.Error = "setup"]
             nn == [NoHandle EXCEPT !.hRequest = "open"]
  <1>1. q \in Requests /\ s \in States /\ ThreadOK(c, q, s, n)
    BY DEF Fits
  <1>2. qq \in Requests /\ qq.pc = "close" /\ qq.Error = "setup"
    BY <1>1 DEF Requests
  <1>3. nn \in Handles /\ nn.op = "none" /\ nn.hRequest = "open" /\ nn.inside = FALSE
    BY DEF Handles, NoHandle
  <1> HIDE DEF qq, nn
  <1>4. Referenced(qq, s, nn) /\ HandleAt(qq, s, nn)
    BY <1>1, <1>2, <1>3 DEF ThreadOK, Referenced, HandleAt
  <1>5. OneCommand(qq, s, nn) /\ PiecesAgree(c, qq, s, nn) /\ Succeeded(c, qq, s, nn)
    BY <1>2, <1>3 DEF OneCommand, PiecesAgree, Succeeded
  <1> QED
    BY <1>1, <1>2, <1>3, <1>4, <1>5 DEF ThreadOK, Fits, qq, nn

(* CloseRequest gives up the wait for HANDLE_CLOSING.                      *)
LEMMA AbandonedOK ==
    ASSUME NEW c, NEW q, NEW s, NEW n, Fits(c, q, s, n),
           q.pc = "wait", q.cmd = "closing"
    PROVE  Fits(c, [q EXCEPT !.pc = "release"], s, [n EXCEPT !.hRequest = "abandoned"])
  <1> DEFINE qq == [q EXCEPT !.pc = "release"]
             nn == [n EXCEPT !.hRequest = "abandoned"]
  <1>1. q \in Requests /\ s \in States /\ n \in Handles /\ ThreadOK(c, q, s, n)
    BY DEF Fits
  <1>2. /\ qq \in Requests /\ qq.pc = "release" /\ qq.cmd = q.cmd
        /\ qq.rcvd = q.rcvd /\ qq.Error = q.Error
    BY <1>1 DEF Requests
  <1>3. /\ nn \in Handles /\ nn.hRequest = "abandoned" /\ nn.op = n.op
        /\ nn.inside = n.inside /\ nn.server = n.server /\ nn.left = n.left
    BY <1>1 DEF Handles
  <1> HIDE DEF qq, nn
  <1>4. Referenced(qq, s, nn) /\ HandleAt(qq, s, nn)
    BY <1>1, <1>2, <1>3 DEF ThreadOK, Referenced, HandleAt
  <1>5. OneCommand(qq, s, nn) /\ PiecesAgree(c, qq, s, nn) /\ Succeeded(c, qq, s, nn)
    BY <1>1, <1>2, <1>3 DEF ThreadOK, OneCommand, PiecesAgree, Succeeded
  <1> QED
    BY <1>1, <1>2, <1>3, <1>4, <1>5 DEF ThreadOK, Fits, qq, nn

(* WaitComplete goes on waiting.                                           *)
LEMMA WaitOnOK ==
    ASSUME NEW c, c.body \in Nat, c.response \in Nat,
           NEW q, NEW s, NEW n, Fits(c, q, s, n),
           q.pc = "wait",
           q.cmd \notin s.CallbacksReceived,
           ~s.bFailed \/ q.cmd = "closing"
    PROVE  Fits(c, q,
                   [s EXCEPT !.CallbacksReceived = {}],
                   n)
  <1> DEFINE ss == [s EXCEPT !.CallbacksReceived = {}]
  <1>1. q \in Requests /\ s \in States /\ n \in Handles /\ ThreadOK(c, q, s, n)
    BY DEF Fits
  <1>2. /\ ss \in States
        /\ ss.alive = s.alive /\ ss.refs = s.refs /\ ss.lExitFlag = s.lExitFlag
        /\ ss.CallbacksReceived = {} /\ ss.bFailed = s.bFailed
    BY <1>1 DEF States
  <1> HIDE DEF ss
  <1>3. Referenced(q, ss, n)
    BY <1>1, <1>2 DEF ThreadOK, Referenced, HandleAt
  <1>4. HandleAt(q, ss, n)
    BY <1>1, <1>2 DEF ThreadOK, HandleAt, OneCommand
  <1>5. OneCommand(q, ss, n)
    BY <1>1, <1>2 DEF ThreadOK, OneCommand, HandleAt, PiecesAgree, Answered, One
  <1>6. PiecesAgree(c, q, ss, n)
    BY <1>1, <1>2 DEF ThreadOK, PiecesAgree, OneCommand, HandleAt, Answered, One
  <1>7. Succeeded(c, q, ss, n)
    BY <1>1, <1>2 DEF ThreadOK, Succeeded, HandleAt, OneCommand, PiecesAgree, Answered, One
  <1> QED
    BY <1>1, <1>2,
       <1>3, <1>4, <1>5, <1>6, <1>7
       DEF ThreadOK, Fits, ss

(* WaitComplete has seen HANDLE_CLOSING.                                   *)
LEMMA WaitClosedOK ==
    ASSUME NEW c, c.body \in Nat, c.response \in Nat,
           NEW q, NEW s, NEW n, Fits(c, q, s, n),
           q.pc = "wait",
           q.cmd = "closing",
           q.cmd \in s.CallbacksReceived
    PROVE  Fits(c, [q EXCEPT !.pc = "release"],
                   [s EXCEPT !.CallbacksReceived = {}],
                   n)
  <1> DEFINE qq == [q EXCEPT !.pc = "release"]
             ss == [s EXCEPT !.CallbacksReceived = {}]
  <1>1. q \in Requests /\ s \in States /\ n \in Handles /\ ThreadOK(c, q, s, n)
    BY DEF Fits
  <1>2. /\ qq \in Requests
        /\ qq.pc = "release" /\ qq.cmd = q.cmd /\ qq.sent = q.sent
        /\ qq.rcvd = q.rcvd /\ qq.throttled = q.throttled /\ qq.Error = q.Error
        /\ qq.session = q.session
    BY <1>1 DEF Requests
  <1>3. /\ ss \in States
        /\ ss.alive = s.alive /\ ss.refs = s.refs /\ ss.lExitFlag = s.lExitFlag
        /\ ss.CallbacksReceived = {} /\ ss.bFailed = s.bFailed
    BY <1>1 DEF States
  <1> HIDE DEF qq, ss
  <1>4. Referenced(qq, ss, n)
    BY <1>1, <1>2, <1>3 DEF ThreadOK, Referenced, HandleAt
  <1>5. HandleAt(qq, ss, n)
    BY <1>1, <1>2, <1>3 DEF ThreadOK, HandleAt, OneCommand
  <1>6. OneCommand(qq, ss, n)
    BY <1>1, <1>2, <1>3 DEF ThreadOK, OneCommand, HandleAt, PiecesAgree, Answered, One
  <1>7. PiecesAgree(c, qq, ss, n)
    BY <1>1, <1>2, <1>3 DEF ThreadOK, PiecesAgree, OneCommand, HandleAt, Answered, One
  <1>8. Succeeded(c, qq, ss, n)
    BY <1>1, <1>2, <1>3 DEF ThreadOK, Succeeded, HandleAt, OneCommand, PiecesAgree, Answered, One
  <1> QED
    BY <1>1, <1>2, <1>3,
       <1>4, <1>5, <1>6, <1>7, <1>8
       DEF ThreadOK, Fits, qq, ss

(* WaitComplete has seen its command complete.                             *)
LEMMA WaitDoneOK ==
    ASSUME NEW c, c.body \in Nat, c.response \in Nat,
           NEW q, NEW s, NEW n, Fits(c, q, s, n),
           q.pc = "wait",
           q.cmd # "closing",
           q.cmd \in s.CallbacksReceived,
           ~s.bFailed
    PROVE  Fits(c, [q EXCEPT !.pc = "next"],
                   [s EXCEPT !.CallbacksReceived = {}],
                   n)
  <1> DEFINE qq == [q EXCEPT !.pc = "next"]
             ss == [s EXCEPT !.CallbacksReceived = {}]
  <1>1. q \in Requests /\ s \in States /\ n \in Handles /\ ThreadOK(c, q, s, n)
    BY DEF Fits
  <1>2. /\ qq \in Requests
        /\ qq.pc = "next" /\ qq.cmd = q.cmd /\ qq.sent = q.sent /\ qq.rcvd = q.rcvd
        /\ qq.throttled = q.throttled /\ qq.Error = q.Error
        /\ qq.session = q.session
    BY <1>1 DEF Requests
  <1>3. /\ ss \in States
        /\ ss.alive = s.alive /\ ss.refs = s.refs /\ ss.lExitFlag = s.lExitFlag
        /\ ss.CallbacksReceived = {} /\ ss.bFailed = s.bFailed
    BY <1>1 DEF States
  <1> HIDE DEF qq, ss
  <1>4. Referenced(qq, ss, n)
    BY <1>1, <1>2, <1>3 DEF ThreadOK, Referenced, HandleAt, States, Commands
  <1>5. HandleAt(qq, ss, n)
    BY <1>1, <1>2, <1>3 DEF ThreadOK, HandleAt, OneCommand, States, Commands
  <1>6. OneCommand(qq, ss, n)
    BY <1>1, <1>2, <1>3 DEF ThreadOK, OneCommand, HandleAt, PiecesAgree, Answered, One, States, Commands
  <1>7. PiecesAgree(c, qq, ss, n)
    BY <1>1, <1>2, <1>3 DEF ThreadOK, PiecesAgree, OneCommand, HandleAt, Answered, One, States, Commands
  <1>8. Succeeded(c, qq, ss, n)
    BY <1>1, <1>2, <1>3 DEF ThreadOK, Succeeded, HandleAt, OneCommand, PiecesAgree, Answered, One, States, Commands
  <1> QED
    BY <1>1, <1>2, <1>3,
       <1>4, <1>5, <1>6, <1>7, <1>8
       DEF ThreadOK, Fits, qq, ss

(* The request has to be sent again.                                       *)
LEMMA WaitResendOK ==
    ASSUME NEW c, c.body \in Nat, c.response \in Nat,
           NEW q, NEW s, NEW n, Fits(c, q, s, n),
           q.pc = "wait",
           q.cmd = "send",
           s.bFailed
    PROVE  Fits(c, [q EXCEPT !.pc = "call", !.resends = @ + 1],
                   [s EXCEPT !.CallbacksReceived = {}],
                   n)
  <1> DEFINE qq == [q EXCEPT !.pc = "call", !.resends = @ + 1]
             ss == [s EXCEPT !.CallbacksReceived = {}]
  <1>1. q \in Requests /\ s \in States /\ n \in Handles /\ ThreadOK(c, q, s, n)
    BY DEF Fits
  <1>2. q.resends + 1 \in Nat
    BY <1>1 DEF Requests, States, Handles
  <1>3. /\ qq \in Requests
        /\ qq.pc = "call" /\ qq.cmd = q.cmd /\ qq.sent = q.sent /\ qq.rcvd = q.rcvd
        /\ qq.throttled = q.throttled /\ qq.Error = q.Error
        /\ qq.session = q.session
    BY <1>1, <1>2 DEF Requests
  <1>4. /\ ss \in States
        /\ ss.alive = s.alive /\ ss.refs = s.refs /\ ss.lExitFlag = s.lExitFlag
        /\ ss.CallbacksReceived = {} /\ ss.bFailed = s.bFailed
    BY <1>1, <1>2 DEF States
  <1> HIDE DEF qq, ss
  <1>5. Referenced(qq, ss, n)
    BY <1>1, <1>2, <1>3, <1>4 DEF ThreadOK, Referenced, HandleAt
  <1>6. HandleAt(qq, ss, n)
    BY <1>1, <1>2, <1>3, <1>4 DEF ThreadOK, HandleAt, OneCommand
  <1>7. OneCommand(qq, ss, n)
    BY <1>1, <1>2, <1>3, <1>4 DEF ThreadOK, OneCommand, HandleAt, PiecesAgree, Answered, One
  <1>8. PiecesAgree(c, qq, ss, n)
    BY <1>1, <1>2, <1>3, <1>4 DEF ThreadOK, PiecesAgree, OneCommand, HandleAt, Answered, One
  <1>9. Succeeded(c, qq, ss, n)
    BY <1>1, <1>2, <1>3, <1>4 DEF ThreadOK, Succeeded, HandleAt, OneCommand, PiecesAgree, Answered, One
  <1> QED
    BY <1>1, <1>2, <1>3, <1>4,
       <1>5, <1>6, <1>7, <1>8, <1>9
       DEF ThreadOK, Fits, qq, ss

LEMMA SetAbortOK ==
    ASSUME NEW c, c.body \in Nat, c.response \in Nat,
           NEW q, NEW s, NEW n, Fits(c, q, s, n),
           q.pc # "idle"
    PROVE  Fits(c, [q EXCEPT !.abort = TRUE],
                   s,
                   n)
  <1> DEFINE qq == [q EXCEPT !.abort = TRUE]
  <1>1. q \in Requests /\ s \in States /\ n \in Handles /\ ThreadOK(c, q, s, n)
    BY DEF Fits
  <1>2. /\ qq \in Requests
        /\ qq.pc = q.pc /\ qq.cmd = q.cmd /\ qq.sent = q.sent /\ qq.rcvd = q.rcvd
        /\ qq.throttled = q.throttled /\ qq.Error = q.Error
        /\ qq.session = q.session
    BY <1>1 DEF Requests
  <1> HIDE DEF qq
  <1>3. Referenced(qq, s, n)
    BY <1>1, <1>2 DEF ThreadOK, Referenced, HandleAt
  <1>4. HandleAt(qq, s, n)
    BY <1>1, <1>2 DEF ThreadOK, HandleAt, OneCommand
  <1>5. OneCommand(qq, s, n)
    BY <1>1, <1>2 DEF ThreadOK, OneCommand, HandleAt, PiecesAgree, Answered, One
  <1>6. PiecesAgree(c, qq, s, n)
    BY <1>1, <1>2 DEF ThreadOK, PiecesAgree, OneCommand, HandleAt, Answered, One
  <1>7. Succeeded(c, qq, s, n)
    BY <1>1, <1>2 DEF ThreadOK, Succeeded, HandleAt, OneCommand, PiecesAgree, Answered, One
  <1> QED
    BY <1>1, <1>2,
       <1>3, <1>4, <1>5, <1>6, <1>7
       DEF ThreadOK, Fits, qq
(* The first piece went with the headers, or did not.                      *)
LEMMA AfterSendOK ==
    ASSUME NEW c, c.body \in Nat, c.response \in Nat,
           NEW q, NEW s, NEW n, Fits(c, q, s, n),
           q.pc = "next",
           q.cmd = "send",
           NEW m, m = One(c.body > 0 /\ ~(c.tail > 0) /\ ~q.throttled),
           NEW cmd, cmd = IF q.sent + m < c.body THEN "write" ELSE "headers"
    PROVE  Fits(c, [q EXCEPT !.sent = @ + m, !.pc = "call", !.cmd = cmd],
                   s,
                   n)
  <1> DEFINE qq == [q EXCEPT !.sent = @ + m, !.pc = "call", !.cmd = cmd]
  <1>1. q \in Requests /\ s \in States /\ n \in Handles /\ ThreadOK(c, q, s, n)
    BY DEF Fits
  <1>2. q.sent + m \in Nat
    BY <1>1 DEF Requests, States, Handles, One
  <1>3. /\ qq \in Requests
        /\ qq.pc = "call" /\ qq.cmd = cmd /\ qq.sent = q.sent + m
        /\ qq.rcvd = q.rcvd /\ qq.throttled = q.throttled /\ qq.Error = q.Error
        /\ qq.session = q.session
    BY <1>1, <1>2 DEF Requests, One, Commands
  <1> HIDE DEF qq
  <1>4. Referenced(qq, s, n)
    BY <1>1, <1>2, <1>3 DEF ThreadOK, Referenced, HandleAt
  <1>5. HandleAt(qq, s, n)
    BY <1>1, <1>2, <1>3 DEF ThreadOK, HandleAt, OneCommand
  <1>6. OneCommand(qq, s, n)
    BY <1>1, <1>2, <1>3 DEF ThreadOK, OneCommand, HandleAt, PiecesAgree, Answered, One
  <1>7. PiecesAgree(c, qq, s, n)
    BY <1>1, <1>2, <1>3 DEF ThreadOK, PiecesAgree, OneCommand, HandleAt, Answered, One
  <1>8. Succeeded(c, qq, s, n)
    BY <1>1, <1>2, <1>3 DEF ThreadOK, Succeeded, HandleAt, OneCommand, PiecesAgree, Answered, One
  <1> QED
    BY <1>1, <1>2, <1>3,
       <1>4, <1>5, <1>6, <1>7, <1>8
       DEF ThreadOK, Fits, qq

(* A piece was written or read.                                            *)
LEMMA MovedOK ==
    ASSUME NEW c, c.body \in Nat, c.response \in Nat,
           NEW q, NEW s, NEW n, Fits(c, q, s, n),
           q.pc = "next",
           q.cmd \in {"write", "read"}
    PROVE  Fits(c, [q EXCEPT !.sent = @ + One(q.cmd = "write"), !.rcvd = @ + One(q.cmd = "read"),
                              !.pc = "throttle"],
                   s,
                   n)
  <1> DEFINE qq == [q EXCEPT !.sent = @ + One(q.cmd = "write"), !.rcvd = @ + One(q.cmd = "read"),
                              !.pc = "throttle"]
  <1>1. q \in Requests /\ s \in States /\ n \in Handles /\ ThreadOK(c, q, s, n)
    BY DEF Fits
  <1>2. q.sent + One(q.cmd = "write") \in Nat /\ q.rcvd + One(q.cmd = "read") \in Nat
    BY <1>1 DEF Requests, States, Handles, One
  <1>3. /\ qq \in Requests
        /\ qq.pc = "throttle" /\ qq.cmd = q.cmd
        /\ qq.sent = q.sent + One(q.cmd = "write")
        /\ qq.rcvd = q.rcvd + One(q.cmd = "read") /\ qq.throttled = q.throttled
        /\ qq.Error = q.Error /\ qq.session = q.session
    BY <1>1, <1>2 DEF Requests, One
  <1> HIDE DEF qq
  <1>4. Referenced(qq, s, n)
    BY <1>1, <1>2, <1>3 DEF ThreadOK, Referenced, HandleAt, Requests, Handles
  <1>5. HandleAt(qq, s, n)
    BY <1>1, <1>2, <1>3 DEF ThreadOK, HandleAt, OneCommand, Requests, Handles
  <1>6. OneCommand(qq, s, n)
    BY <1>1, <1>2, <1>3 DEF ThreadOK, OneCommand, HandleAt, PiecesAgree, Answered, One, Requests, Handles
  <1>7. PiecesAgree(c, qq, s, n)
    BY <1>1, <1>2, <1>3 DEF ThreadOK, PiecesAgree, OneCommand, HandleAt, Answered, One, Requests, Handles
  <1>8. Succeeded(c, qq, s, n)
    BY <1>1, <1>2, <1>3 DEF ThreadOK, Succeeded, HandleAt, OneCommand, PiecesAgree, Answered, One, Requests, Handles
  <1> QED
    BY <1>1, <1>2, <1>3,
       <1>4, <1>5, <1>6, <1>7, <1>8
       DEF ThreadOK, Fits, qq

(* The piece is paid for.                                                  *)
LEMMA GoOnOK ==
    ASSUME NEW c, c.body \in Nat, c.response \in Nat,
           NEW q, NEW s, NEW n, Fits(c, q, s, n),
           q.pc = "throttle",
           NEW cmd, cmd = IF q.cmd = "read" THEN "available"
                         ELSE IF q.sent < c.body THEN "write" ELSE "headers"
    PROVE  Fits(c, [q EXCEPT !.pc = "call", !.cmd = cmd],
                   s,
                   n)
  <1> DEFINE qq == [q EXCEPT !.pc = "call", !.cmd = cmd]
  <1>1. q \in Requests /\ s \in States /\ n \in Handles /\ ThreadOK(c, q, s, n)
    BY DEF Fits
  <1>2. /\ qq \in Requests
        /\ qq.pc = "call" /\ qq.cmd = cmd /\ qq.sent = q.sent /\ qq.rcvd = q.rcvd
        /\ qq.throttled = q.throttled /\ qq.Error = q.Error
        /\ qq.session = q.session
    BY <1>1 DEF Requests, Commands
  <1> HIDE DEF qq
  <1>3. Referenced(qq, s, n)
    BY <1>1, <1>2 DEF ThreadOK, Referenced, HandleAt, Requests, Handles
  <1>4. HandleAt(qq, s, n)
    BY <1>1, <1>2 DEF ThreadOK, HandleAt, OneCommand, Requests, Handles
  <1>5. OneCommand(qq, s, n)
    BY <1>1, <1>2 DEF ThreadOK, OneCommand, HandleAt, PiecesAgree, Answered, One, Requests, Handles
  <1>6. PiecesAgree(c, qq, s, n)
    BY <1>1, <1>2 DEF ThreadOK, PiecesAgree, OneCommand, HandleAt, Answered, One, Requests, Handles
  <1>7. Succeeded(c, qq, s, n)
    BY <1>1, <1>2 DEF ThreadOK, Succeeded, HandleAt, OneCommand, PiecesAgree, Answered, One, Requests, Handles
  <1> QED
    BY <1>1, <1>2,
       <1>3, <1>4, <1>5, <1>6, <1>7
       DEF ThreadOK, Fits, qq

(* Authorization is tried again.                                           *)
LEMMA SendAgainOK ==
    ASSUME NEW c, c.body \in Nat, c.response \in Nat,
           NEW q, NEW s, NEW n, Fits(c, q, s, n),
           q.pc = "next",
           q.cmd = "headers",
           q.iRetryAuth < 2
    PROVE  Fits(c, [q EXCEPT !.pc = "call", !.cmd = "send", !.iRetryAuth = @ + 1, !.sent = 0],
                   s,
                   n)
  <1> DEFINE qq == [q EXCEPT !.pc = "call", !.cmd = "send", !.iRetryAuth = @ + 1, !.sent = 0]
  <1>1. q \in Requests /\ s \in States /\ n \in Handles /\ ThreadOK(c, q, s, n)
    BY DEF Fits
  <1>2. q.iRetryAuth + 1 \in 0 .. 2
    BY <1>1 DEF Requests, States, Handles
  <1>3. /\ qq \in Requests
        /\ qq.pc = "call" /\ qq.cmd = "send" /\ qq.sent = 0 /\ qq.rcvd = q.rcvd
        /\ qq.throttled = q.throttled /\ qq.Error = q.Error
        /\ qq.session = q.session
    BY <1>1, <1>2 DEF Requests, Commands
  <1> HIDE DEF qq
  <1>4. Referenced(qq, s, n)
    BY <1>1, <1>2, <1>3 DEF ThreadOK, Referenced, HandleAt
  <1>5. HandleAt(qq, s, n)
    BY <1>1, <1>2, <1>3 DEF ThreadOK, HandleAt, OneCommand
  <1>6. OneCommand(qq, s, n)
    BY <1>1, <1>2, <1>3 DEF ThreadOK, OneCommand, HandleAt, PiecesAgree, Answered, One
  <1>7. PiecesAgree(c, qq, s, n)
    BY <1>1, <1>2, <1>3 DEF ThreadOK, PiecesAgree, OneCommand, HandleAt, Answered, One
  <1>8. Succeeded(c, qq, s, n)
    BY <1>1, <1>2, <1>3 DEF ThreadOK, Succeeded, HandleAt, OneCommand, PiecesAgree, Answered, One
  <1> QED
    BY <1>1, <1>2, <1>3,
       <1>4, <1>5, <1>6, <1>7, <1>8
       DEF ThreadOK, Fits, qq

(* The response is read.                                                   *)
LEMMA HeadersOK ==
    ASSUME NEW c, c.body \in Nat, c.response \in Nat,
           NEW q, NEW s, NEW n, Fits(c, q, s, n),
           q.pc = "next",
           q.cmd = "headers"
    PROVE  Fits(c, [q EXCEPT !.pc = "call", !.cmd = "available"],
                   s,
                   n)
  <1> DEFINE qq == [q EXCEPT !.pc = "call", !.cmd = "available"]
  <1>1. q \in Requests /\ s \in States /\ n \in Handles /\ ThreadOK(c, q, s, n)
    BY DEF Fits
  <1>2. /\ qq \in Requests
        /\ qq.pc = "call" /\ qq.cmd = "available" /\ qq.sent = q.sent
        /\ qq.rcvd = q.rcvd /\ qq.throttled = q.throttled /\ qq.Error = q.Error
        /\ qq.session = q.session
    BY <1>1 DEF Requests, Commands
  <1> HIDE DEF qq
  <1>3. Referenced(qq, s, n)
    BY <1>1, <1>2 DEF ThreadOK, Referenced, HandleAt, Handles
  <1>4. HandleAt(qq, s, n)
    BY <1>1, <1>2 DEF ThreadOK, HandleAt, OneCommand, Handles
  <1>5. OneCommand(qq, s, n)
    BY <1>1, <1>2 DEF ThreadOK, OneCommand, HandleAt, PiecesAgree, Answered, One, Handles
  <1>6. PiecesAgree(c, qq, s, n)
    BY <1>1, <1>2 DEF ThreadOK, PiecesAgree, OneCommand, HandleAt, Answered, One, Handles
  <1>7. Succeeded(c, qq, s, n)
    BY <1>1, <1>2 DEF ThreadOK, Succeeded, HandleAt, OneCommand, PiecesAgree, Answered, One, Handles
  <1> QED
    BY <1>1, <1>2,
       <1>3, <1>4, <1>5, <1>6, <1>7
       DEF ThreadOK, Fits, qq

(* There is more to read.                                                  *)
LEMMA ReadOK ==
    ASSUME NEW c, c.body \in Nat, c.response \in Nat,
           NEW q, NEW s, NEW n, Fits(c, q, s, n),
           q.pc = "next",
           q.cmd = "available",
           n.left > 0
    PROVE  Fits(c, [q EXCEPT !.pc = "call", !.cmd = "read"],
                   s,
                   n)
  <1> DEFINE qq == [q EXCEPT !.pc = "call", !.cmd = "read"]
  <1>1. q \in Requests /\ s \in States /\ n \in Handles /\ ThreadOK(c, q, s, n)
    BY DEF Fits
  <1>2. /\ qq \in Requests
        /\ qq.pc = "call" /\ qq.cmd = "read" /\ qq.sent = q.sent /\ qq.rcvd = q.rcvd
        /\ qq.throttled = q.throttled /\ qq.Error = q.Error
        /\ qq.session = q.session
    BY <1>1 DEF Requests, Commands
  <1> HIDE DEF qq
  <1>3. Referenced(qq, s, n)
    BY <1>1, <1>2 DEF ThreadOK, Referenced, HandleAt, Handles, Requests
  <1>4. HandleAt(qq, s, n)
    BY <1>1, <1>2 DEF ThreadOK, HandleAt, OneCommand, Handles, Requests
  <1>5. OneCommand(qq, s, n)
    BY <1>1, <1>2 DEF ThreadOK, OneCommand, HandleAt, PiecesAgree, Answered, One, Handles, Requests
  <1>6. PiecesAgree(c, qq, s, n)
    BY <1>1, <1>2 DEF ThreadOK, PiecesAgree, OneCommand, HandleAt, Answered, One, Handles, Requests
  <1>7. Succeeded(c, qq, s, n)
    BY <1>1, <1>2 DEF ThreadOK, Succeeded, HandleAt, OneCommand, PiecesAgree, Answered, One, Handles, Requests
  <1> QED
    BY <1>1, <1>2,
       <1>3, <1>4, <1>5, <1>6, <1>7
       DEF ThreadOK, Fits, qq

(* The response is complete.                                               *)
LEMMA AnsweredOK ==
    ASSUME NEW c, c.body \in Nat, c.response \in Nat,
           NEW q, NEW s, NEW n, Fits(c, q, s, n),
           q.pc = "next",
           q.cmd = "available",
           ~(n.left > 0),
           NEW e \in {"ok", "http"}
    PROVE  Fits(c, [q EXCEPT !.pc = "close", !.Error = e],
                   s,
                   n)
  <1> DEFINE qq == [q EXCEPT !.pc = "close", !.Error = e]
  <1>1. q \in Requests /\ s \in States /\ n \in Handles /\ ThreadOK(c, q, s, n)
    BY DEF Fits
  <1>2. /\ qq \in Requests
        /\ qq.pc = "close" /\ qq.cmd = q.cmd /\ qq.sent = q.sent /\ qq.rcvd = q.rcvd
        /\ qq.throttled = q.throttled /\ qq.Error = e /\ qq.session = q.session
    BY <1>1 DEF Requests
  <1> HIDE DEF qq
  <1>3. Referenced(qq, s, n)
    BY <1>1, <1>2 DEF ThreadOK, Referenced, HandleAt, Handles, Requests
  <1>4. HandleAt(qq, s, n)
    BY <1>1, <1>2 DEF ThreadOK, HandleAt, OneCommand, Handles, Requests
  <1>5. OneCommand(qq, s, n)
    BY <1>1, <1>2 DEF ThreadOK, OneCommand, HandleAt, PiecesAgree, Answered, One, Handles, Requests
  <1>6. PiecesAgree(c, qq, s, n)
    BY <1>1, <1>2 DEF ThreadOK, PiecesAgree, OneCommand, HandleAt, Answered, One, Handles, Requests
  <1>7. Succeeded(c, qq, s, n)
    BY <1>1, <1>2 DEF ThreadOK, Succeeded, HandleAt, OneCommand, PiecesAgree, Answered, One, Handles, Requests
  <1> QED
    BY <1>1, <1>2,
       <1>3, <1>4, <1>5, <1>6, <1>7
       DEF ThreadOK, Fits, qq

(* The handle is closed.                                                   *)
LEMMA CloseOK ==
    ASSUME NEW c, c.body \in Nat, c.response \in Nat,
           NEW q, NEW s, NEW n, Fits(c, q, s, n),
           q.pc = "close",
           n.hRequest = "open"
    PROVE  Fits(c, [q EXCEPT !.pc = "wait", !.cmd = "closing"],
                   PrepareCmd(s),
                   [n EXCEPT !.hRequest = "closing"])
  <1> DEFINE qq == [q EXCEPT !.pc = "wait", !.cmd = "closing"]
             ss == PrepareCmd(s)
             nn == [n EXCEPT !.hRequest = "closing"]
  <1>1. q \in Requests /\ s \in States /\ n \in Handles /\ ThreadOK(c, q, s, n)
    BY DEF Fits
  <1>2. /\ qq \in Requests
        /\ qq.pc = "wait" /\ qq.cmd = "closing" /\ qq.sent = q.sent
        /\ qq.rcvd = q.rcvd /\ qq.throttled = q.throttled /\ qq.Error = q.Error
        /\ qq.session = q.session
    BY <1>1 DEF Requests, Commands
  <1>3. /\ ss \in States
        /\ ss.alive = s.alive /\ ss.refs = s.refs /\ ss.lExitFlag = s.lExitFlag
        /\ ss.CallbacksReceived = {} /\ ss.bFailed = FALSE
    BY <1>1 DEF States, PrepareCmd
  <1>4. /\ nn \in Handles
        /\ nn.op = n.op /\ nn.hRequest = "closing" /\ nn.inside = n.inside
        /\ nn.server = n.server /\ nn.left = n.left
    BY <1>1 DEF Handles
  <1> HIDE DEF qq, ss, nn
  <1>5. Referenced(qq, ss, nn)
    BY <1>1, <1>2, <1>3, <1>4 DEF ThreadOK, Referenced, HandleAt
  <1>6. HandleAt(qq, ss, nn)
    BY <1>1, <1>2, <1>3, <1>4 DEF ThreadOK, HandleAt, OneCommand
  <1>7. OneCommand(qq, ss, nn)
    BY <1>1, <1>2, <1>3, <1>4 DEF ThreadOK, OneCommand, HandleAt, PiecesAgree, Answered, One
  <1>8. PiecesAgree(c, qq, ss, nn)
    BY <1>1, <1>2, <1>3, <1>4 DEF ThreadOK, PiecesAgree, OneCommand, HandleAt, Answered, One
  <1>9. Succeeded(c, qq, ss, nn)
    BY <1>1, <1>2, <1>3, <1>4 DEF ThreadOK, Succeeded, HandleAt, OneCommand, PiecesAgree, Answered, One
  <1> QED
    BY <1>1, <1>2, <1>3, <1>4,
       <1>5, <1>6, <1>7, <1>8, <1>9
       DEF ThreadOK, Fits, qq, ss, nn

(* There is no handle to close.                                            *)
LEMMA NoCloseOK ==
    ASSUME NEW c, c.body \in Nat, c.response \in Nat,
           NEW q, NEW s, NEW n, Fits(c, q, s, n),
           q.pc = "close",
           n.hRequest # "open"
    PROVE  Fits(c, [q EXCEPT !.pc = "release"],
                   s,
                   n)
  <1> DEFINE qq == [q EXCEPT !.pc = "release"]
  <1>1. q \in Requests /\ s \in States /\ n \in Handles /\ ThreadOK(c, q, s, n)
    BY DEF Fits
  <1>2. /\ qq \in Requests
        /\ qq.pc = "release" /\ qq.cmd = q.cmd /\ qq.sent = q.sent
        /\ qq.rcvd = q.rcvd /\ qq.throttled = q.throttled /\ qq.Error = q.Error
        /\ qq.session = q.session
    BY <1>1 DEF Requests
  <1> HIDE DEF qq
  <1>3. Referenced(qq, s, n)
    BY <1>1, <1>2 DEF ThreadOK, Referenced, HandleAt, Handles
  <1>4. HandleAt(qq, s, n)
    BY <1>1, <1>2 DEF ThreadOK, HandleAt, OneCommand, Handles
  <1>5. OneCommand(qq, s, n)
    BY <1>1, <1>2 DEF ThreadOK, OneCommand, HandleAt, PiecesAgree, Answered, One, Handles
  <1>6. PiecesAgree(c, qq, s, n)
    BY <1>1, <1>2 DEF ThreadOK, PiecesAgree, OneCommand, HandleAt, Answered, One, Handles
  <1>7. Succeeded(c, qq, s, n)
    BY <1>1, <1>2 DEF ThreadOK, Succeeded, HandleAt, OneCommand, PiecesAgree, Answered, One, Handles
  <1> QED
    BY <1>1, <1>2,
       <1>3, <1>4, <1>5, <1>6, <1>7
       DEF ThreadOK, Fits, qq

(* The session is given back.                                              *)
LEMMA ReleaseOK ==
    ASSUME NEW c, c.body \in Nat, c.response \in Nat,
           NEW q, NEW s, NEW n, Fits(c, q, s, n),
           q.pc = "release"
    PROVE  Fits(c, [q EXCEPT !.pc = "exit", !.session = 0],
                   s,
                   n)
  <1> DEFINE qq == [q EXCEPT !.pc = "exit", !.session = 0]
  <1>1. q \in Requests /\ s \in States /\ n \in Handles /\ ThreadOK(c, q, s, n)
    BY DEF Fits
  <1>2. /\ qq \in Requests
        /\ qq.pc = "exit" /\ qq.cmd = q.cmd /\ qq.sent = q.sent /\ qq.rcvd = q.rcvd
        /\ qq.throttled = q.throttled /\ qq.Error = q.Error /\ qq.session = 0
    BY <1>1 DEF Requests
  <1> HIDE DEF qq
  <1>3. Referenced(qq, s, n)
    BY <1>1, <1>2 DEF ThreadOK, Referenced, HandleAt
  <1>4. HandleAt(qq, s, n)
    BY <1>1, <1>2 DEF ThreadOK, HandleAt, OneCommand
  <1>5. OneCommand(qq, s, n)
    BY <1>1, <1>2 DEF ThreadOK, OneCommand, HandleAt, PiecesAgree, Answered, One
  <1>6. PiecesAgree(c, qq, s, n)
    BY <1>1, <1>2 DEF ThreadOK, PiecesAgree, OneCommand, HandleAt, Answered, One
  <1>7. Succeeded(c, qq, s, n)
    BY <1>1, <1>2 DEF ThreadOK, Succeeded, HandleAt, OneCommand, PiecesAgree, Answered, One
  <1> QED
    BY <1>1, <1>2,
       <1>3, <1>4, <1>5, <1>6, <1>7
       DEF ThreadOK, Fits, qq

(* The request returns.                                                    *)
LEMMA ReturnOK ==
    ASSUME NEW c, c.body \in Nat, c.response \in Nat,
           NEW q, NEW s, NEW n, Fits(c, q, s, n),
           q.pc = "exit",
           s.lExitFlag = 1
    PROVE  Fits(c, [q EXCEPT !.pc = "idle"],
                   [s EXCEPT !.refs = 0],
                   n)
  <1> DEFINE qq == [q EXCEPT !.pc = "idle"]
             ss == [s EXCEPT !.refs = 0]
  <1>1. q \in Requests /\ s \in States /\ n \in Handles /\ ThreadOK(c, q, s, n)
    BY DEF Fits
  <1>2. /\ qq \in Requests
        /\ qq.pc = "idle" /\ qq.cmd = q.cmd /\ qq.sent = q.sent /\ qq.rcvd = q.rcvd
        /\ qq.throttled = q.throttled /\ qq.Error = q.Error
        /\ qq.session = q.session
    BY <1>1 DEF Requests
  <1>3. /\ ss \in States
        /\ ss.alive = s.alive /\ ss.refs = 0 /\ ss.lExitFlag = s.lExitFlag
        /\ ss.CallbacksReceived = s.CallbacksReceived /\ ss.bFailed = s.bFailed
    BY <1>1 DEF States
  <1> HIDE DEF qq, ss
  <1>4. Referenced(qq, ss, n)
    BY <1>1, <1>2, <1>3 DEF ThreadOK, Referenced, HandleAt
  <1>5. HandleAt(qq, ss, n)
    BY <1>1, <1>2, <1>3 DEF ThreadOK, HandleAt, OneCommand
  <1>6. OneCommand(qq, ss, n)
    BY <1>1, <1>2, <1>3 DEF ThreadOK, OneCommand, HandleAt, PiecesAgree, Answered, One
  <1>7. PiecesAgree(c, qq, ss, n)
    BY <1>1, <1>2, <1>3 DEF ThreadOK, PiecesAgree, OneCommand, HandleAt, Answered, One
  <1>8. Succeeded(c, qq, ss, n)
    BY <1>1, <1>2, <1>3 DEF ThreadOK, Succeeded, HandleAt, OneCommand, PiecesAgree, Answered, One
  <1> QED
    BY <1>1, <1>2, <1>3,
       <1>4, <1>5, <1>6, <1>7, <1>8
       DEF ThreadOK, Fits, qq, ss

(* A session is claimed.                                                   *)
LEMMA AllocOK ==
    ASSUME NEW c, c.body \in Nat, c.response \in Nat,
           NEW q, NEW s, NEW n, Fits(c, q, s, n),
           q.pc = "alloc",
           NEW k \in Keys
    PROVE  Fits(c, [q EXCEPT !.session = k, !.pc = "init"],
                   s,
                   n)
  <1> DEFINE qq == [q EXCEPT !.session = k, !.pc = "init"]
  <1>1. q \in Requests /\ s \in States /\ n \in Handles /\ ThreadOK(c, q, s, n)
    BY DEF Fits
  <1>2. /\ qq \in Requests
        /\ qq.pc = "init" /\ qq.cmd = q.cmd /\ qq.sent = q.sent /\ qq.rcvd = q.rcvd
        /\ qq.throttled = q.throttled /\ qq.Error = q.Error /\ qq.session = k
    BY <1>1 DEF Requests
  <1> HIDE DEF qq
  <1>3. Referenced(qq, s, n)
    BY <1>1, <1>2 DEF ThreadOK, Referenced, HandleAt
  <1>4. HandleAt(qq, s, n)
    BY <1>1, <1>2 DEF ThreadOK, HandleAt, OneCommand
  <1>5. OneCommand(qq, s, n)
    BY <1>1, <1>2 DEF ThreadOK, OneCommand, HandleAt, PiecesAgree, Answered, One
  <1>6. PiecesAgree(c, qq, s, n)
    BY <1>1, <1>2 DEF ThreadOK, PiecesAgree, OneCommand, HandleAt, Answered, One
  <1>7. Succeeded(c, qq, s, n)
    BY <1>1, <1>2 DEF ThreadOK, Succeeded, HandleAt, OneCommand, PiecesAgree, Answered, One
  <1> QED
    BY <1>1, <1>2,
       <1>3, <1>4, <1>5, <1>6, <1>7
       DEF ThreadOK, Fits, qq

(* The session is open.                                                    *)
LEMMA SessionOpenOK ==
    ASSUME NEW c, c.body \in Nat, c.response \in Nat,
           NEW q, NEW s, NEW n, Fits(c, q, s, n),
           q.pc = "init"
    PROVE  Fits(c, [q EXCEPT !.pc = "open"],
                   s,
                   n)
  <1> DEFINE qq == [q EXCEPT !.pc = "open"]
  <1>1. q \in Requests /\ s \in States /\ n \in Handles /\ ThreadOK(c, q, s, n)
    BY DEF Fits
  <1>2. /\ qq \in Requests
        /\ qq.pc = "open" /\ qq.cmd = q.cmd /\ qq.sent = q.sent /\ qq.rcvd = q.rcvd
        /\ qq.throttled = q.throttled /\ qq.Error = q.Error
        /\ qq.session = q.session
    BY <1>1 DEF Requests
  <1> HIDE DEF qq
  <1>3. Referenced(qq, s, n)
    BY <1>1, <1>2 DEF ThreadOK, Referenced, HandleAt
  <1>4. HandleAt(qq, s, n)
    BY <1>1, <1>2 DEF ThreadOK, HandleAt, OneCommand
  <1>5. OneCommand(qq, s, n)
    BY <1>1, <1>2 DEF ThreadOK, OneCommand, HandleAt, PiecesAgree, Answered, One
  <1>6. PiecesAgree(c, qq, s, n)
    BY <1>1, <1>2 DEF ThreadOK, PiecesAgree, OneCommand, HandleAt, Answered, One
  <1>7. Succeeded(c, qq, s, n)
    BY <1>1, <1>2 DEF ThreadOK, Succeeded, HandleAt, OneCommand, PiecesAgree, Answered, One
  <1> QED
    BY <1>1, <1>2,
       <1>3, <1>4, <1>5, <1>6, <1>7
       DEF ThreadOK, Fits, qq

(* A request handle is opened.                                             *)
LEMMA OpenOK ==
    ASSUME NEW c, c.body \in Nat, c.response \in Nat,
           NEW q, NEW s, NEW n, Fits(c, q, s, n),
           q.pc = "open",
           NEW t \in BOOLEAN
    PROVE  Fits(c, [q EXCEPT !.pc = "call", !.cmd = "send", !.throttled = t],
                   s,
                   [NoHandle EXCEPT !.hRequest = "open"])
  <1> DEFINE qq == [q EXCEPT !.pc = "call", !.cmd = "send", !.throttled = t]
             nn == [NoHandle EXCEPT !.hRequest = "open"]
  <1>1. q \in Requests /\ s \in States /\ n \in Handles /\ ThreadOK(c, q, s, n)
    BY DEF Fits
  <1>2. /\ qq \in Requests
        /\ qq.pc = "call" /\ qq.cmd = "send" /\ qq.sent = q.sent /\ qq.rcvd = q.rcvd
        /\ qq.throttled = t /\ qq.Error = q.Error /\ qq.session = q.session
    BY <1>1 DEF Requests, Commands
  <1>3. /\ nn \in Handles
        /\ nn.op = "none" /\ nn.hRequest = "open" /\ nn.inside = FALSE
        /\ nn.server = 0 /\ nn.left = 0
    BY <1>1 DEF Handles, NoHandle
  <1> HIDE DEF qq, nn
  <1>4. Referenced(qq, s, nn)
    BY <1>1, <1>2, <1>3 DEF ThreadOK, Referenced, HandleAt
  <1>5. HandleAt(qq, s, nn)
    BY <1>1, <1>2, <1>3 DEF ThreadOK, HandleAt, OneCommand
  <1>6. OneCommand(qq, s, nn)
    BY <1>1, <1>2, <1>3 DEF ThreadOK, OneCommand, HandleAt, PiecesAgree, Answered, One
  <1>7. PiecesAgree(c, qq, s, nn)
    BY <1>1, <1>2, <1>3 DEF ThreadOK, PiecesAgree, OneCommand, HandleAt, Answered, One
  <1>8. Succeeded(c, qq, s, nn)
    BY <1>1, <1>2, <1>3 DEF ThreadOK, Succeeded, HandleAt, OneCommand, PiecesAgree, Answered, One
  <1> QED
    BY <1>1, <1>2, <1>3,
       <1>4, <1>5, <1>6, <1>7, <1>8
       DEF ThreadOK, Fits, qq, nn
-----------------------------------------------------------------------------
(* The callbacks.                                                          *)

Called(s, status, result) ==
    [s EXCEPT !.lExitFlag = 0, !.evCmd = TRUE,
              !.CallbacksReceived = @ \cup {status},
              !.bFailed = @ \/ status = "error",
              !.Result = IF status = "error" THEN result ELSE @]

LEMMA SendDoneOK ==
    ASSUME NEW c, c.body \in Nat, c.response \in Nat,
           NEW q, NEW s, NEW n, Fits(c, q, s, n),
           n.op = "send",
           ~n.inside,
           NEW m, m = One(c.body > 0 /\ ~(c.tail > 0) /\ ~q.throttled)
    PROVE  Fits(c, q,
                   Called(s, "send", "none"),
                   [n EXCEPT !.op = "none", !.inside = TRUE, !.server = m])
  <1> DEFINE ss == Called(s, "send", "none")
             nn == [n EXCEPT !.op = "none", !.inside = TRUE, !.server = m]
  <1>1. q \in Requests /\ s \in States /\ n \in Handles /\ ThreadOK(c, q, s, n)
    BY DEF Fits
  <1>2. /\ ss \in States
        /\ ss.alive = s.alive /\ ss.refs = s.refs /\ ss.lExitFlag = 0
        /\ ss.CallbacksReceived = s.CallbacksReceived \cup {"send"}
        /\ ss.bFailed = s.bFailed
    BY <1>1 DEF States, Called, Commands
  <1>3. /\ nn \in Handles
        /\ nn.op = "none" /\ nn.hRequest = n.hRequest /\ nn.inside = TRUE
        /\ nn.server = m /\ nn.left = n.left
    BY <1>1 DEF Handles, One
  <1> HIDE DEF ss, nn
  <1>4. Referenced(q, ss, nn)
    BY <1>1, <1>2, <1>3 DEF ThreadOK, Referenced, HandleAt
  <1>5. HandleAt(q, ss, nn)
    BY <1>1, <1>2, <1>3 DEF ThreadOK, HandleAt, OneCommand
  <1>6. OneCommand(q, ss, nn)
    BY <1>1, <1>2, <1>3 DEF ThreadOK, OneCommand, HandleAt, PiecesAgree, Answered, One
  <1>7. PiecesAgree(c, q, ss, nn)
    BY <1>1, <1>2, <1>3 DEF ThreadOK, PiecesAgree, OneCommand, HandleAt, Answered, One
  <1>8. Succeeded(c, q, ss, nn)
    BY <1>1, <1>2, <1>3 DEF ThreadOK, Succeeded, HandleAt, OneCommand, PiecesAgree, Answered, One
  <1> QED
    BY <1>1, <1>2, <1>3,
       <1>4, <1>5, <1>6, <1>7, <1>8
       DEF ThreadOK, Fits, ss, nn

LEMMA WriteDoneOK ==
    ASSUME NEW c, c.body \in Nat, c.response \in Nat,
           NEW q, NEW s, NEW n, Fits(c, q, s, n),
           n.op = "write",
           ~n.inside
    PROVE  Fits(c, q,
                   Called(s, "write", "none"),
                   [n EXCEPT !.op = "none", !.inside = TRUE, !.server = @ + 1])
  <1> DEFINE ss == Called(s, "write", "none")
             nn == [n EXCEPT !.op = "none", !.inside = TRUE, !.server = @ + 1]
  <1>1. q \in Requests /\ s \in States /\ n \in Handles /\ ThreadOK(c, q, s, n)
    BY DEF Fits
  <1>2. n.server + 1 \in Nat
    BY <1>1 DEF Requests, States, Handles
  <1>3. /\ ss \in States
        /\ ss.alive = s.alive /\ ss.refs = s.refs /\ ss.lExitFlag = 0
        /\ ss.CallbacksReceived = s.CallbacksReceived \cup {"write"}
        /\ ss.bFailed = s.bFailed
    BY <1>1, <1>2 DEF States, Called, Commands
  <1>4. /\ nn \in Handles
        /\ nn.op = "none" /\ nn.hRequest = n.hRequest /\ nn.inside = TRUE
        /\ nn.server = n.server + 1 /\ nn.left = n.left
    BY <1>1, <1>2 DEF Handles
  <1> HIDE DEF ss, nn
  <1>5. Referenced(q, ss, nn)
    BY <1>1, <1>2, <1>3, <1>4 DEF ThreadOK, Referenced, HandleAt, Requests, Handles
  <1>6. HandleAt(q, ss, nn)
    BY <1>1, <1>2, <1>3, <1>4 DEF ThreadOK, HandleAt, OneCommand, Requests, Handles
  <1>7. OneCommand(q, ss, nn)
    BY <1>1, <1>2, <1>3, <1>4 DEF ThreadOK, OneCommand, HandleAt, PiecesAgree, Answered, One, Requests, Handles
  <1>8. PiecesAgree(c, q, ss, nn)
    BY <1>1, <1>2, <1>3, <1>4 DEF ThreadOK, PiecesAgree, OneCommand, HandleAt, Answered, One, Requests, Handles
  <1>9. Succeeded(c, q, ss, nn)
    BY <1>1, <1>2, <1>3, <1>4 DEF ThreadOK, Succeeded, HandleAt, OneCommand, PiecesAgree, Answered, One, Requests, Handles
  <1> QED
    BY <1>1, <1>2, <1>3, <1>4,
       <1>5, <1>6, <1>7, <1>8, <1>9
       DEF ThreadOK, Fits, ss, nn

LEMMA HeadersDoneOK ==
    ASSUME NEW c, c.body \in Nat, c.response \in Nat,
           NEW q, NEW s, NEW n, Fits(c, q, s, n),
           n.op = "headers",
           ~n.inside,
           NEW status \in Statuses
    PROVE  Fits(c, q,
                   Called(s, "headers", "none"),
                   [n EXCEPT !.op = "none", !.inside = TRUE, !.status = status, !.left = c.response])
  <1> DEFINE ss == Called(s, "headers", "none")
             nn == [n EXCEPT !.op = "none", !.inside = TRUE, !.status = status, !.left = c.response]
  <1>1. q \in Requests /\ s \in States /\ n \in Handles /\ ThreadOK(c, q, s, n)
    BY DEF Fits
  <1>2. /\ ss \in States
        /\ ss.alive = s.alive /\ ss.refs = s.refs /\ ss.lExitFlag = 0
        /\ ss.CallbacksReceived = s.CallbacksReceived \cup {"headers"}
        /\ ss.bFailed = s.bFailed
    BY <1>1 DEF States, Called, Commands
  <1>3. /\ nn \in Handles
        /\ nn.op = "none" /\ nn.hRequest = n.hRequest /\ nn.inside = TRUE
        /\ nn.server = n.server /\ nn.left = c.response
    BY <1>1 DEF Handles
  <1> HIDE DEF ss, nn
  <1>4. Referenced(q, ss, nn)
    BY <1>1, <1>2, <1>3 DEF ThreadOK, Referenced, HandleAt
  <1>5. HandleAt(q, ss, nn)
    BY <1>1, <1>2, <1>3 DEF ThreadOK, HandleAt, OneCommand
  <1>6. OneCommand(q, ss, nn)
    BY <1>1, <1>2, <1>3 DEF ThreadOK, OneCommand, HandleAt, PiecesAgree, Answered, One
  <1>7. PiecesAgree(c, q, ss, nn)
    BY <1>1, <1>2, <1>3 DEF ThreadOK, PiecesAgree, OneCommand, HandleAt, Answered, One
  <1>8. Succeeded(c, q, ss, nn)
    BY <1>1, <1>2, <1>3 DEF ThreadOK, Succeeded, HandleAt, OneCommand, PiecesAgree, Answered, One
  <1> QED
    BY <1>1, <1>2, <1>3,
       <1>4, <1>5, <1>6, <1>7, <1>8
       DEF ThreadOK, Fits, ss, nn

LEMMA AvailableDoneOK ==
    ASSUME NEW c, c.body \in Nat, c.response \in Nat,
           NEW q, NEW s, NEW n, Fits(c, q, s, n),
           n.op = "available",
           ~n.inside
    PROVE  Fits(c, q,
                   Called(s, "available", "none"),
                   [n EXCEPT !.op = "none", !.inside = TRUE])
  <1> DEFINE ss == Called(s, "available", "none")
             nn == [n EXCEPT !.op = "none", !.inside = TRUE]
  <1>1. q \in Requests /\ s \in States /\ n \in Handles /\ ThreadOK(c, q, s, n)
    BY DEF Fits
  <1>2. /\ ss \in States
        /\ ss.alive = s.alive /\ ss.refs = s.refs /\ ss.lExitFlag = 0
        /\ ss.CallbacksReceived = s.CallbacksReceived \cup {"available"}
        /\ ss.bFailed = s.bFailed
    BY <1>1 DEF States, Called, Commands
  <1>3. /\ nn \in Handles
        /\ nn.op = "none" /\ nn.hRequest = n.hRequest /\ nn.inside = TRUE
        /\ nn.server = n.server /\ nn.left = n.left
    BY <1>1 DEF Handles
  <1> HIDE DEF ss, nn
  <1>4. Referenced(q, ss, nn)
    BY <1>1, <1>2, <1>3 DEF ThreadOK, Referenced, HandleAt
  <1>5. HandleAt(q, ss, nn)
    BY <1>1, <1>2, <1>3 DEF ThreadOK, HandleAt, OneCommand
  <1>6. OneCommand(q, ss, nn)
    BY <1>1, <1>2, <1>3 DEF ThreadOK, OneCommand, HandleAt, PiecesAgree, Answered, One
  <1>7. PiecesAgree(c, q, ss, nn)
    BY <1>1, <1>2, <1>3 DEF ThreadOK, PiecesAgree, OneCommand, HandleAt, Answered, One
  <1>8. Succeeded(c, q, ss, nn)
    BY <1>1, <1>2, <1>3 DEF ThreadOK, Succeeded, HandleAt, OneCommand, PiecesAgree, Answered, One
  <1> QED
    BY <1>1, <1>2, <1>3,
       <1>4, <1>5, <1>6, <1>7, <1>8
       DEF ThreadOK, Fits, ss, nn

LEMMA ReadDoneOK ==
    ASSUME NEW c, c.body \in Nat, c.response \in Nat,
           NEW q, NEW s, NEW n, Fits(c, q, s, n),
           n.op = "read",
           ~n.inside
    PROVE  Fits(c, q,
                   Called(s, "read", "none"),
                   [n EXCEPT !.op = "none", !.inside = TRUE, !.left = @ - 1])
  <1> DEFINE ss == Called(s, "read", "none")
             nn == [n EXCEPT !.op = "none", !.inside = TRUE, !.left = @ - 1]
  <1>1. q \in Requests /\ s \in States /\ n \in Handles /\ ThreadOK(c, q, s, n)
    BY DEF Fits
  <1>2. n.left - 1 \in Nat
    BY <1>1 DEF Requests, States, Handles, ThreadOK, OneCommand
  <1>3. /\ ss \in States
        /\ ss.alive = s.alive /\ ss.refs = s.refs /\ ss.lExitFlag = 0
        /\ ss.CallbacksReceived = s.CallbacksReceived \cup {"read"}
        /\ ss.bFailed = s.bFailed
    BY <1>1, <1>2 DEF States, Called, Commands
  <1>4. /\ nn \in Handles
        /\ nn.op = "none" /\ nn.hRequest = n.hRequest /\ nn.inside = TRUE
        /\ nn.server = n.server /\ nn.left = n.left - 1
    BY <1>1, <1>2 DEF Handles
  <1> HIDE DEF ss, nn
  <1>5. Referenced(q, ss, nn)
    BY <1>1, <1>2, <1>3, <1>4 DEF ThreadOK, Referenced, HandleAt, Requests, Handles
  <1>6. HandleAt(q, ss, nn)
    BY <1>1, <1>2, <1>3, <1>4 DEF ThreadOK, HandleAt, OneCommand, Requests, Handles
  <1>7. OneCommand(q, ss, nn)
    BY <1>1, <1>2, <1>3, <1>4 DEF ThreadOK, OneCommand, HandleAt, PiecesAgree, Answered, One, Requests, Handles
  <1>8. PiecesAgree(c, q, ss, nn)
    BY <1>1, <1>2, <1>3, <1>4 DEF ThreadOK, PiecesAgree, OneCommand, HandleAt, Answered, One, Requests, Handles
  <1>9. Succeeded(c, q, ss, nn)
    BY <1>1, <1>2, <1>3, <1>4 DEF ThreadOK, Succeeded, HandleAt, OneCommand, PiecesAgree, Answered, One, Requests, Handles
  <1> QED
    BY <1>1, <1>2, <1>3, <1>4,
       <1>5, <1>6, <1>7, <1>8, <1>9
       DEF ThreadOK, Fits, ss, nn

(* The command fails, or is cancelled.                                     *)
LEMMA CommandFailsOK ==
    ASSUME NEW c, c.body \in Nat, c.response \in Nat,
           NEW q, NEW s, NEW n, Fits(c, q, s, n),
           n.op # "none",
           ~n.inside,
           NEW result \in {"error", "resend"}
    PROVE  Fits(c, q,
                   Called(s, "error", result),
                   [n EXCEPT !.op = "none", !.inside = TRUE])
  <1> DEFINE ss == Called(s, "error", result)
             nn == [n EXCEPT !.op = "none", !.inside = TRUE]
  <1>1. q \in Requests /\ s \in States /\ n \in Handles /\ ThreadOK(c, q, s, n)
    BY DEF Fits
  <1>2. /\ ss \in States
        /\ ss.alive = s.alive /\ ss.refs = s.refs /\ ss.lExitFlag = 0
        /\ ss.CallbacksReceived = s.CallbacksReceived \cup {"error"}
        /\ ss.bFailed = TRUE
    BY <1>1 DEF States, Called, Commands
  <1>3. /\ nn \in Handles
        /\ nn.op = "none" /\ nn.hRequest = n.hRequest /\ nn.inside = TRUE
        /\ nn.server = n.server /\ nn.left = n.left
    BY <1>1 DEF Handles
  <1> HIDE DEF ss, nn
  <1>4. Referenced(q, ss, nn)
    BY <1>1, <1>2, <1>3 DEF ThreadOK, Referenced, HandleAt
  <1>5. HandleAt(q, ss, nn)
    BY <1>1, <1>2, <1>3 DEF ThreadOK, HandleAt, OneCommand
  <1>6. OneCommand(q, ss, nn)
    BY <1>1, <1>2, <1>3 DEF ThreadOK, OneCommand, HandleAt, PiecesAgree, Answered, One
  <1>7. PiecesAgree(c, q, ss, nn)
    BY <1>1, <1>2, <1>3 DEF ThreadOK, PiecesAgree, OneCommand, HandleAt, Answered, One
  <1>8. Succeeded(c, q, ss, nn)
    BY <1>1, <1>2, <1>3 DEF ThreadOK, Succeeded, HandleAt, OneCommand, PiecesAgree, Answered, One
  <1> QED
    BY <1>1, <1>2, <1>3,
       <1>4, <1>5, <1>6, <1>7, <1>8
       DEF ThreadOK, Fits, ss, nn

(* HANDLE_CLOSING is the last callback.                                    *)
LEMMA ClosingOK ==
    ASSUME NEW c, c.body \in Nat, c.response \in Nat,
           NEW q, NEW s, NEW n, Fits(c, q, s, n),
           n.hRequest \in {"closing", "abandoned"},
           n.op = "none",
           ~n.inside,
           NEW h, h = IF n.hRequest = "closing" THEN "none" ELSE "late"
    PROVE  Fits(c, q,
                   Called(s, "closing", "none"),
                   [n EXCEPT !.hRequest = h, !.inside = TRUE])
  <1> DEFINE ss == Called(s, "closing", "none")
             nn == [n EXCEPT !.hRequest = h, !.inside = TRUE]
  <1>1. q \in Requests /\ s \in States /\ n \in Handles /\ ThreadOK(c, q, s, n)
    BY DEF Fits
  <1>2. /\ ss \in States
        /\ ss.alive = s.alive /\ ss.refs = s.refs /\ ss.lExitFlag = 0
        /\ ss.CallbacksReceived = s.CallbacksReceived \cup {"closing"}
        /\ ss.bFailed = s.bFailed
    BY <1>1 DEF States, Called, Commands
  <1>3. /\ nn \in Handles
        /\ nn.op = n.op /\ nn.hRequest = h /\ nn.inside = TRUE
        /\ nn.server = n.server /\ nn.left = n.left
    BY <1>1 DEF Handles
  <1> HIDE DEF ss, nn
  <1>4. Referenced(q, ss, nn)
    BY <1>1, <1>2, <1>3 DEF ThreadOK, Referenced, HandleAt, Requests, Commands
  <1>5. HandleAt(q, ss, nn)
    BY <1>1, <1>2, <1>3 DEF ThreadOK, HandleAt, OneCommand, Requests, Commands
  <1>6. OneCommand(q, ss, nn)
    BY <1>1, <1>2, <1>3 DEF ThreadOK, OneCommand, HandleAt, PiecesAgree, Answered, One, Requests, Commands
  <1>7. PiecesAgree(c, q, ss, nn)
    BY <1>1, <1>2, <1>3 DEF ThreadOK, PiecesAgree, OneCommand, HandleAt, Answered, One, Requests, Commands
  <1>8. Succeeded(c, q, ss, nn)
    BY <1>1, <1>2, <1>3 DEF ThreadOK, Succeeded, HandleAt, OneCommand, PiecesAgree, Answered, One, Requests, Commands
  <1> QED
    BY <1>1, <1>2, <1>3,
       <1>4, <1>5, <1>6, <1>7, <1>8
       DEF ThreadOK, Fits, ss, nn

LEMMA CallbackExitOK ==
    ASSUME NEW c, c.body \in Nat, c.response \in Nat,
           NEW q, NEW s, NEW n, Fits(c, q, s, n),
           n.inside,
           NEW h, h = IF n.hRequest = "late" THEN "none" ELSE n.hRequest
    PROVE  Fits(c, q,
                   [s EXCEPT !.lExitFlag = 1],
                   [n EXCEPT !.inside = FALSE, !.hRequest = h])
  <1> DEFINE ss == [s EXCEPT !.lExitFlag = 1]
             nn == [n EXCEPT !.inside = FALSE, !.hRequest = h]
  <1>1. q \in Requests /\ s \in States /\ n \in Handles /\ ThreadOK(c, q, s, n)
    BY DEF Fits
  <1>2. /\ ss \in States
        /\ ss.alive = s.alive /\ ss.refs = s.refs /\ ss.lExitFlag = 1
        /\ ss.CallbacksReceived = s.CallbacksReceived /\ ss.bFailed = s.bFailed
    BY <1>1 DEF States
  <1>3. /\ nn \in Handles
        /\ nn.op = n.op /\ nn.hRequest = h /\ nn.inside = FALSE
        /\ nn.server = n.server /\ nn.left = n.left
    BY <1>1 DEF Handles
  <1> HIDE DEF ss, nn
  <1>4. Referenced(q, ss, nn)
    BY <1>1, <1>2, <1>3 DEF ThreadOK, Referenced, HandleAt
  <1>5. HandleAt(q, ss, nn)
    BY <1>1, <1>2, <1>3 DEF ThreadOK, HandleAt, OneCommand
  <1>6. OneCommand(q, ss, nn)
    BY <1>1, <1>2, <1>3 DEF ThreadOK, OneCommand, HandleAt, PiecesAgree, Answered, One
  <1>7. PiecesAgree(c, q, ss, nn)
    BY <1>1, <1>2, <1>3 DEF ThreadOK, PiecesAgree, OneCommand, HandleAt, Answered, One
  <1>8. Succeeded(c, q, ss, nn)
    BY <1>1, <1>2, <1>3 DEF ThreadOK, Succeeded, HandleAt, OneCommand, PiecesAgree, Answered, One
  <1> QED
    BY <1>1, <1>2, <1>3,
       <1>4, <1>5, <1>6, <1>7, <1>8
       DEF ThreadOK, Fits, ss, nn

(* A request begins, in the state of its thread or in a new one.           *)
LEMMA BeginOK ==
    ASSUME NEW c, c.body \in Nat, c.response \in Nat,
           NEW q, NEW s, NEW n, Fits(c, q, s, n),
           q.pc = "idle", n.hRequest = "none"
    PROVE  Fits(c, [NoRequest EXCEPT !.pc = "alloc", !.round = q.round + 1],
                   [IF s.alive THEN s ELSE [NoState EXCEPT !.alive = TRUE] EXCEPT !.refs = 1],
                   n)
  <1> DEFINE qq == [NoRequest EXCEPT !.pc = "alloc", !.round = q.round + 1]
             ss == [IF s.alive THEN s ELSE [NoState EXCEPT !.alive = TRUE] EXCEPT !.refs = 1]
  <1>1. q \in Requests /\ s \in States /\ n \in Handles /\ ThreadOK(c, q, s, n)
    BY DEF Fits
  <1>2. q.round + 1 \in Nat
    BY <1>1 DEF Requests, States, Handles
  <1>3. /\ qq \in Requests
        /\ qq.pc = "alloc" /\ qq.cmd = "none" /\ qq.sent = 0 /\ qq.rcvd = 0
        /\ qq.throttled = FALSE /\ qq.Error = "none" /\ qq.session = 0
    <2>1. NoRequest \in Requests
      BY DEF Requests, NoRequest
    <2>2. qq \in Requests
      BY <1>2, <2>1 DEF Requests
    <2> QED
      BY <2>2 DEF NoRequest
  <1>4. /\ ss \in States
        /\ ss.alive = TRUE /\ ss.refs = 1 /\ ss.lExitFlag = (IF s.alive THEN s.lExitFlag ELSE 0)
        /\ ss.CallbacksReceived = (IF s.alive THEN s.CallbacksReceived ELSE {}) /\ ss.bFailed = (IF s.alive THEN s.bFailed ELSE FALSE)
    BY <1>1, <1>2 DEF States, NoState
  <1> HIDE DEF qq, ss
  <1>5. Referenced(qq, ss, n)
    BY <1>1, <1>2, <1>3, <1>4 DEF ThreadOK, Referenced, HandleAt
  <1>6. HandleAt(qq, ss, n)
    BY <1>1, <1>2, <1>3, <1>4 DEF ThreadOK, HandleAt, OneCommand
  <1>7. OneCommand(qq, ss, n)
    BY <1>1, <1>2, <1>3, <1>4 DEF ThreadOK, OneCommand, HandleAt, PiecesAgree, Answered, One
  <1>8. PiecesAgree(c, qq, ss, n)
    BY <1>1, <1>2, <1>3, <1>4 DEF ThreadOK, PiecesAgree, OneCommand, HandleAt, Answered, One
  <1>9. Succeeded(c, qq, ss, n)
    BY <1>1, <1>2, <1>3, <1>4 DEF ThreadOK, Succeeded, HandleAt, OneCommand, PiecesAgree, Answered, One
  <1> QED
    BY <1>1, <1>2, <1>3, <1>4,
       <1>5, <1>6, <1>7, <1>8, <1>9
       DEF ThreadOK, Fits, qq, ss

(* The state of a thread without a request is deleted.                     *)
LEMMA RemoveOK ==
    ASSUME NEW c, c.body \in Nat, c.response \in Nat,
           NEW q, NEW s, NEW n, Fits(c, q, s, n),
           s.refs = 0
    PROVE  Fits(c, q,
                   NoState,
                   n)
  <1> DEFINE ss == NoState
  <1>1. q \in Requests /\ s \in States /\ n \in Handles /\ ThreadOK(c, q, s, n)
    BY DEF Fits
  <1>2. /\ ss \in States
        /\ ss.alive = FALSE /\ ss.refs = 0 /\ ss.lExitFlag = 0
        /\ ss.CallbacksReceived = {} /\ ss.bFailed = FALSE
    BY <1>1 DEF States, NoState
  <1> HIDE DEF ss
  <1>3. Referenced(q, ss, n)
    BY <1>1, <1>2 DEF ThreadOK, Referenced, HandleAt, Referenced
  <1>4. HandleAt(q, ss, n)
    BY <1>1, <1>2 DEF ThreadOK, HandleAt, OneCommand, Referenced
  <1>5. OneCommand(q, ss, n)
    BY <1>1, <1>2 DEF ThreadOK, OneCommand, HandleAt, PiecesAgree, Answered, One, Referenced
  <1>6. PiecesAgree(c, q, ss, n)
    BY <1>1, <1>2 DEF ThreadOK, PiecesAgree, OneCommand, HandleAt, Answered, One, Referenced
  <1>7. Succeeded(c, q, ss, n)
    BY <1>1, <1>2 DEF ThreadOK, Succeeded, HandleAt, OneCommand, PiecesAgree, Answered, One, Referenced
  <1> QED
    BY <1>1, <1>2,
       <1>3, <1>4, <1>5, <1>6, <1>7
       DEF ThreadOK, Fits, ss
-----------------------------------------------------------------------------
(* From the records of a thread to the state.                              *)

LEMMA ScopeFacts ==
    ASSUME TypeOK
    PROVE  /\ scope.body \in Nat /\ scope.response \in Nat /\ scope.Rate \in Nat
           /\ scope.threads \subseteq Threads /\ scope.statuses \subseteq Statuses
  BY ConnectionAssumption DEF TypeOK, Threads

LEMMA ThreadFits ==
    ASSUME TypeOK, ThreadsOK, NEW r \in Threads
    PROVE  /\ Fits(scope, req[r], state[r], net[r])
           /\ scope.body \in Nat /\ scope.response \in Nat
           /\ req[r] \in Requests /\ state[r] \in States /\ net[r] \in Handles
           /\ r \notin scope.threads => req[r].pc = "idle"
  BY ScopeFacts DEF TypeOK, ThreadsOK, Fits

(* The records of thread r change to q, s and n.                           *)
Becomes(r, q, s, n) ==
    /\ req' = [req EXCEPT ![r] = q]
    /\ state' = [state EXCEPT ![r] = s]
    /\ net' = [net EXCEPT ![r] = n]
    /\ scope' = scope

LEMMA ThreadsKeep ==
    ASSUME TypeOK, ThreadsOK, NEW r \in Threads, NEW q, NEW s, NEW n,
           Becomes(r, q, s, n), Fits(scope, q, s, n),
           q.pc # "idle" => r \in scope.threads
    PROVE  /\ ThreadsOK'
           /\ scope' \in Scopes
           /\ req' \in [Threads -> Requests]
           /\ state' \in [Threads -> States]
           /\ net' \in [Threads -> Handles]
  <1>1. /\ req' \in [Threads -> Requests]
        /\ state' \in [Threads -> States]
        /\ net' \in [Threads -> Handles]
        /\ scope' \in Scopes
    BY DEF TypeOK, Becomes, Fits
  <1>2. req'[r] = q /\ state'[r] = s /\ net'[r] = n
    BY DEF TypeOK, Becomes
  <1>3. \A x \in Threads : x # r => req'[x] = req[x] /\ state'[x] = state[x] /\ net'[x] = net[x]
    BY DEF TypeOK, Becomes
  <1>4. ASSUME NEW x \in Threads
        PROVE  /\ ThreadOK(scope', req'[x], state'[x], net'[x])
               /\ x \notin scope'.threads => req'[x].pc = "idle"
    <2>1. CASE x = r
      BY <1>2, <2>1 DEF Fits, Becomes
    <2>2. CASE x # r
      <3>1. req'[x] = req[x] /\ state'[x] = state[x] /\ net'[x] = net[x] /\ scope' = scope
        BY <1>3, <2>2 DEF Becomes
      <3>2. /\ ThreadOK(scope, req[x], state[x], net[x])
            /\ x \notin scope.threads => req[x].pc = "idle"
        BY DEF ThreadsOK
      <3> QED
        BY <3>1, <3>2
    <2> QED
      BY <2>1, <2>2
  <1> QED
    BY <1>1, <1>4 DEF ThreadsOK

(* A step of a thread that holds its session before and after.             *)
LEMMA SessionsKeep ==
    ASSUME TypeOK, SessionsHeld, NEW r \in Threads, NEW q, NEW s, NEW n,
           Becomes(r, q, s, n), q.session = req[r].session,
           HoldsSession(q) <=> HoldsSession(req[r]),
           DOMAIN SessionMap' = DOMAIN SessionMap,
           \A k \in DOMAIN SessionMap : SessionMap'[k].bInUse = SessionMap[k].bInUse
    PROVE  SessionsHeld'
  <1>1. \A x \in Threads : /\ req'[x].session = req[x].session
                           /\ HoldsSession(req'[x]) <=> HoldsSession(req[x])
    BY DEF TypeOK, Becomes
  <1> QED
    BY <1>1 DEF SessionsHeld

LEMMA ThrottledKeep ==
    ASSUME TypeOK, NEW r \in Threads, NEW q, NEW s, NEW n,
           Becomes(r, q, s, n), q.pc = "throttle" <=> req[r].pc = "throttle"
    PROVE  Throttled' = Throttled
  <1>1. \A x \in Threads : req'[x].pc = "throttle" <=> req[x].pc = "throttle"
    BY DEF TypeOK, Becomes
  <1> QED
    BY <1>1 DEF Throttled

(* A step of a thread that changes nothing but its own records.            *)
LEMMA QuietStep ==
    ASSUME ConnectionInv, NEW r \in Threads, NEW q, NEW s, NEW n,
           Becomes(r, q, s, n), Fits(scope, q, s, n),
           q.pc # "idle" => r \in scope.threads,
           q.session = req[r].session, HoldsSession(q) <=> HoldsSession(req[r]),
           q.pc = "throttle" <=> req[r].pc = "throttle",
           UNCHANGED <<SessionMap, settings, invalidated, setter, throttle>>
    PROVE  ConnectionInv'
  <1> USE DEF ConnectionInv
  <1>1. /\ ThreadsOK'
        /\ scope' \in Scopes
        /\ req' \in [Threads -> Requests]
        /\ state' \in [Threads -> States]
        /\ net' \in [Threads -> Handles]
    BY ThreadsKeep
  <1>2. TypeOK'
    BY <1>1 DEF TypeOK
  <1>3. SessionsHeld'
    BY SessionsKeep
  <1>4. SettingsTakeHold'
    BY DEF SettingsTakeHold
  <1>5. QuotaInv'
    <2>1. Throttled' = Throttled
      BY ThrottledKeep
    <2> QED
      BY <2>1 DEF QuotaInv, Becomes
  <1> QED
    BY <1>1, <1>2, <1>3, <1>4, <1>5
(* A command is issued, or refused.                                        *)
LEMMA IssueKeeps ==
    ASSUME ConnectionInv, NEW r \in Threads, Issue(r)
    PROVE  ConnectionInv'
  <1>1. TypeOK /\ ThreadsOK
    BY DEF ConnectionInv
  <1>2. /\ Fits(scope, req[r], state[r], net[r])
        /\ scope.body \in Nat /\ scope.response \in Nat
        /\ req[r] \in Requests /\ state[r] \in States /\ net[r] \in Handles
        /\ r \notin scope.threads => req[r].pc = "idle"
    BY <1>1, ThreadFits
  <1>3. CASE To(r, "wait") /\ net' = [net EXCEPT ![r].op = req[r].cmd]
    <2> DEFINE q == [req[r] EXCEPT !.pc = "wait"]
               s == PrepareCmd(state[r])
               n == [net[r] EXCEPT !.op = req[r].cmd]
    <2>1. Becomes(r, q, s, n) /\ UNCHANGED <<SessionMap, settings, invalidated, setter, throttle>>
      BY <1>1, <1>3 DEF TypeOK, Becomes, Issue, To
    <2>2. Fits(scope, q, s, n)
      BY <1>2, <1>3, IssueOK DEF Issue
    <2>3. /\ q.session = req[r].session /\ (q.pc # "idle" => r \in scope.threads)
          /\ HoldsSession(q) <=> HoldsSession(req[r])
          /\ q.pc = "throttle" <=> req[r].pc = "throttle"
      BY <1>2, <1>3 DEF Requests, HoldsSession, Issue
    <2> HIDE DEF q, s, n
    <2> QED
      BY <2>1, <2>2, <2>3, QuietStep
  <1>4. CASE Throw(r, "error") /\ UNCHANGED net
    <2> DEFINE q == [req[r] EXCEPT !.pc = "close", !.Error = "error"]
               s == PrepareCmd(state[r])
    <2>1. Becomes(r, q, s, net[r]) /\ UNCHANGED <<SessionMap, settings, invalidated, setter, throttle>>
      BY <1>1, <1>4 DEF TypeOK, Becomes, Issue, Throw
    <2>2. Fits(scope, q, s, net[r])
      <3>1. /\ s \in States /\ s.alive = state[r].alive /\ s.refs = state[r].refs
            /\ s.lExitFlag = state[r].lExitFlag /\ s.CallbacksReceived = {}
        BY <1>2 DEF PrepareCmd, States
      <3> HIDE DEF s
      <3>2. Fits(scope, req[r], state[r], net[r]) /\ req[r].pc = "call"
        BY <1>2 DEF Issue
      <3> QED
        BY <1>2, <3>1, <3>2, ThrowOK
    <2>3. /\ q.session = req[r].session /\ (q.pc # "idle" => r \in scope.threads)
          /\ HoldsSession(q) <=> HoldsSession(req[r])
          /\ q.pc = "throttle" <=> req[r].pc = "throttle"
      BY <1>2, <1>4 DEF Requests, HoldsSession, Issue
    <2> HIDE DEF q, s
    <2> QED
      BY <2>1, <2>2, <2>3, QuietStep
  <1> QED
    BY <1>2, <1>3, <1>4 DEF Issue

(* A callback, or the end of a wait.                                       *)
LEMMA WaitCompleteKeeps ==
    ASSUME ConnectionInv, NEW r \in Threads, WaitComplete(r)
    PROVE  ConnectionInv'
  <1>1. TypeOK /\ ThreadsOK
    BY DEF ConnectionInv
  <1>2. /\ Fits(scope, req[r], state[r], net[r])
        /\ scope.body \in Nat /\ scope.response \in Nat
        /\ req[r] \in Requests /\ state[r] \in States /\ net[r] \in Handles
        /\ r \notin scope.threads => req[r].pc = "idle"
    BY <1>1, ThreadFits
  <1>3. CASE ~WaitEnds(r) /\ UNCHANGED req
    <2> DEFINE s == [state[r] EXCEPT !.CallbacksReceived = {}]
    <2>1. Becomes(r, req[r], s, net[r]) /\ UNCHANGED <<SessionMap, settings, invalidated, setter, throttle>>
      BY <1>1, <1>3 DEF TypeOK, Becomes, WaitComplete
    <2>2. Fits(scope, req[r], s, net[r])
      BY <1>2, <1>3, WaitOnOK DEF WaitComplete, WaitEnds, GotIt
    <2>3. /\ req[r].session = req[r].session /\ (req[r].pc # "idle" => r \in scope.threads)
          /\ HoldsSession(req[r]) <=> HoldsSession(req[r])
          /\ req[r].pc = "throttle" <=> req[r].pc = "throttle"
      BY <1>2, <1>3 DEF Requests, HoldsSession, WaitComplete
    <2> HIDE DEF s
    <2> QED
      BY <2>1, <2>2, <2>3, QuietStep
  <1>4. CASE WaitEnds(r) /\ req[r].cmd = "closing" /\ To(r, "release")
    <2> DEFINE q == [req[r] EXCEPT !.pc = "release"]
               s == [state[r] EXCEPT !.CallbacksReceived = {}]
    <2>1. Becomes(r, q, s, net[r]) /\ UNCHANGED <<SessionMap, settings, invalidated, setter, throttle>>
      BY <1>1, <1>4 DEF TypeOK, Becomes, WaitComplete, To
    <2>2. Fits(scope, q, s, net[r])
      BY <1>2, <1>4, WaitClosedOK DEF WaitComplete, WaitEnds, GotIt
    <2>3. /\ q.session = req[r].session /\ (q.pc # "idle" => r \in scope.threads)
          /\ HoldsSession(q) <=> HoldsSession(req[r])
          /\ q.pc = "throttle" <=> req[r].pc = "throttle"
      BY <1>2, <1>4 DEF Requests, HoldsSession, WaitComplete
    <2> HIDE DEF q, s
    <2> QED
      BY <2>1, <2>2, <2>3, QuietStep
  <1>5. CASE WaitEnds(r) /\ req[r].cmd # "closing" /\ ~state[r].bFailed /\ To(r, "next")
    <2> DEFINE q == [req[r] EXCEPT !.pc = "next"]
               s == [state[r] EXCEPT !.CallbacksReceived = {}]
    <2>1. Becomes(r, q, s, net[r]) /\ UNCHANGED <<SessionMap, settings, invalidated, setter, throttle>>
      BY <1>1, <1>5 DEF TypeOK, Becomes, WaitComplete, To
    <2>2. Fits(scope, q, s, net[r])
      BY <1>2, <1>5, WaitDoneOK DEF WaitComplete, WaitEnds, GotIt
    <2>3. /\ q.session = req[r].session /\ (q.pc # "idle" => r \in scope.threads)
          /\ HoldsSession(q) <=> HoldsSession(req[r])
          /\ q.pc = "throttle" <=> req[r].pc = "throttle"
      BY <1>2, <1>5 DEF Requests, HoldsSession, WaitComplete
    <2> HIDE DEF q, s
    <2> QED
      BY <2>1, <2>2, <2>3, QuietStep
  <1>6. CASE /\ req[r].cmd = "send" /\ state[r].bFailed
              /\ req' = [req EXCEPT ![r].pc = "call", ![r].resends = @ + 1]
    <2> DEFINE q == [req[r] EXCEPT !.pc = "call", !.resends = @ + 1]
               s == [state[r] EXCEPT !.CallbacksReceived = {}]
    <2>1. Becomes(r, q, s, net[r]) /\ UNCHANGED <<SessionMap, settings, invalidated, setter, throttle>>
      BY <1>1, <1>6 DEF TypeOK, Becomes, WaitComplete
    <2>2. Fits(scope, q, s, net[r])
      BY <1>2, <1>6, WaitResendOK DEF WaitComplete, WaitEnds, GotIt
    <2>3. /\ q.session = req[r].session /\ (q.pc # "idle" => r \in scope.threads)
          /\ HoldsSession(q) <=> HoldsSession(req[r])
          /\ q.pc = "throttle" <=> req[r].pc = "throttle"
      BY <1>2, <1>6 DEF Requests, HoldsSession, WaitComplete
    <2> HIDE DEF q, s
    <2> QED
      BY <2>1, <2>2, <2>3, QuietStep
  <1>7. CASE req[r].cmd # "closing" /\ Throw(r, state[r].Result)
    <2> DEFINE q == [req[r] EXCEPT !.pc = "close", !.Error = state[r].Result]
               s == [state[r] EXCEPT !.CallbacksReceived = {}]
    <2>1. Becomes(r, q, s, net[r]) /\ UNCHANGED <<SessionMap, settings, invalidated, setter, throttle>>
      BY <1>1, <1>7 DEF TypeOK, Becomes, WaitComplete, Throw
    <2>2. Fits(scope, q, s, net[r])
      BY <1>2, <1>7, ThrowOK DEF WaitComplete, WaitEnds, GotIt, States
    <2>3. /\ q.session = req[r].session /\ (q.pc # "idle" => r \in scope.threads)
          /\ HoldsSession(q) <=> HoldsSession(req[r])
          /\ q.pc = "throttle" <=> req[r].pc = "throttle"
      BY <1>2, <1>7 DEF Requests, HoldsSession, WaitComplete
    <2> HIDE DEF q, s
    <2> QED
      BY <2>1, <2>2, <2>3, QuietStep
  <1> QED
    BY <1>2, <1>3, <1>4, <1>5, <1>6, <1>7 DEF WaitComplete

LEMMA WaitTimeoutKeeps ==
    ASSUME ConnectionInv, NEW r \in Threads, WaitTimeout(r)
    PROVE  ConnectionInv'
  <1>1. TypeOK /\ ThreadsOK
    BY DEF ConnectionInv
  <1>2. /\ Fits(scope, req[r], state[r], net[r])
        /\ scope.body \in Nat /\ scope.response \in Nat
        /\ req[r] \in Requests /\ state[r] \in States /\ net[r] \in Handles
        /\ r \notin scope.threads => req[r].pc = "idle"
    BY <1>1, ThreadFits
  <1>3. CASE Throw(r, "timeout") /\ UNCHANGED net /\ req[r].cmd # "closing"
    <2> DEFINE q == [req[r] EXCEPT !.pc = "close", !.Error = "timeout"]
    <2>1. Becomes(r, q, state[r], net[r]) /\ UNCHANGED <<SessionMap, settings, invalidated, setter, throttle>>
      BY <1>1, <1>3 DEF TypeOK, Becomes, WaitTimeout, Throw
    <2>2. Fits(scope, q, state[r], net[r])
      BY <1>2, <1>3, ThrowOK DEF WaitTimeout
    <2>3. /\ q.session = req[r].session /\ (q.pc # "idle" => r \in scope.threads)
          /\ HoldsSession(q) <=> HoldsSession(req[r])
          /\ q.pc = "throttle" <=> req[r].pc = "throttle"
      BY <1>2 DEF Requests, HoldsSession, WaitTimeout
    <2> HIDE DEF q
    <2> QED
      BY <2>1, <2>2, <2>3, QuietStep
  <1>4. CASE /\ To(r, "release") /\ net' = [net EXCEPT ![r].hRequest = "abandoned"]
             /\ req[r].cmd = "closing"
    <2> DEFINE q == [req[r] EXCEPT !.pc = "release"]
               n == [net[r] EXCEPT !.hRequest = "abandoned"]
    <2>1. Becomes(r, q, state[r], n) /\ UNCHANGED <<SessionMap, settings, invalidated, setter, throttle>>
      BY <1>1, <1>4 DEF TypeOK, Becomes, WaitTimeout, To
    <2>2. Fits(scope, q, state[r], n)
      BY <1>2, <1>4, AbandonedOK DEF WaitTimeout
    <2>3. /\ q.session = req[r].session /\ (q.pc # "idle" => r \in scope.threads)
          /\ HoldsSession(q) <=> HoldsSession(req[r])
          /\ q.pc = "throttle" <=> req[r].pc = "throttle"
      BY <1>2 DEF Requests, HoldsSession, WaitTimeout
    <2> HIDE DEF q, n
    <2> QED
      BY <2>1, <2>2, <2>3, QuietStep
  <1> QED
    BY <1>3, <1>4 DEF WaitTimeout

LEMMA AbortedWaitKeeps ==
    ASSUME ConnectionInv, NEW r \in Threads, TestAbort(r), req[r].pc = "wait"
    PROVE  ConnectionInv'
  <1>1. TypeOK /\ ThreadsOK
    BY DEF ConnectionInv
  <1>2. /\ Fits(scope, req[r], state[r], net[r])
        /\ scope.body \in Nat /\ scope.response \in Nat
        /\ req[r] \in Requests /\ state[r] \in States /\ net[r] \in Handles
        /\ r \notin scope.threads => req[r].pc = "idle"
    BY <1>1, ThreadFits
  <1> DEFINE q == [req[r] EXCEPT !.pc = "close", !.Error = "aborted"]
  <1>3. Becomes(r, q, state[r], net[r]) /\ UNCHANGED <<SessionMap, settings, invalidated, setter, throttle>>
    BY <1>1 DEF TypeOK, Becomes, TestAbort, Throw
  <1>4. Fits(scope, q, state[r], net[r])
    BY <1>2, ThrowOK DEF TestAbort
  <1>5. /\ q.session = req[r].session /\ (q.pc # "idle" => r \in scope.threads)
        /\ HoldsSession(q) <=> HoldsSession(req[r])
        /\ q.pc = "throttle" <=> req[r].pc = "throttle"
    BY <1>2 DEF Requests, HoldsSession, TestAbort
  <1> HIDE DEF q
  <1> QED
    BY <1>3, <1>4, <1>5, QuietStep

LEMMA SetAbortKeeps ==
    ASSUME ConnectionInv, NEW r \in Threads, SetAbort(r)
    PROVE  ConnectionInv'
  <1>1. TypeOK /\ ThreadsOK
    BY DEF ConnectionInv
  <1>2. /\ Fits(scope, req[r], state[r], net[r])
        /\ scope.body \in Nat /\ scope.response \in Nat
        /\ req[r] \in Requests /\ state[r] \in States /\ net[r] \in Handles
        /\ r \notin scope.threads => req[r].pc = "idle"
    BY <1>1, ThreadFits
  <1> DEFINE q == [req[r] EXCEPT !.abort = TRUE]
  <1>3. Becomes(r, q, state[r], net[r]) /\ UNCHANGED <<SessionMap, settings, invalidated, setter, throttle>>
    BY <1>1 DEF TypeOK, Becomes, SetAbort
  <1>4. Fits(scope, q, state[r], net[r])
    BY <1>2, SetAbortOK DEF SetAbort
  <1>5. /\ q.session = req[r].session /\ (q.pc # "idle" => r \in scope.threads)
        /\ HoldsSession(q) <=> HoldsSession(req[r])
        /\ q.pc = "throttle" <=> req[r].pc = "throttle"
    BY <1>2 DEF Requests, HoldsSession, SetAbort
  <1> HIDE DEF q
  <1> QED
    BY <1>3, <1>4, <1>5, QuietStep

LEMMA AfterSendKeeps ==
    ASSUME ConnectionInv, NEW r \in Threads, AfterSend(r)
    PROVE  ConnectionInv'
  <1>1. TypeOK /\ ThreadsOK
    BY DEF ConnectionInv
  <1>2. /\ Fits(scope, req[r], state[r], net[r])
        /\ scope.body \in Nat /\ scope.response \in Nat
        /\ req[r] \in Requests /\ state[r] \in States /\ net[r] \in Handles
        /\ r \notin scope.threads => req[r].pc = "idle"
    BY <1>1, ThreadFits
  <1>3. CASE Throw(r, "timeout")
    <2> DEFINE q == [req[r] EXCEPT !.pc = "close", !.Error = "timeout"]
    <2>1. Becomes(r, q, state[r], net[r]) /\ UNCHANGED <<SessionMap, settings, invalidated, setter, throttle>>
      BY <1>1, <1>3 DEF TypeOK, Becomes, AfterSend, Throw
    <2>2. Fits(scope, q, state[r], net[r])
      BY <1>2, ThrowOK DEF AfterSend
    <2>3. /\ q.session = req[r].session /\ (q.pc # "idle" => r \in scope.threads)
          /\ HoldsSession(q) <=> HoldsSession(req[r])
          /\ q.pc = "throttle" <=> req[r].pc = "throttle"
      BY <1>2 DEF Requests, HoldsSession, AfterSend
    <2> HIDE DEF q
    <2> QED
      BY <2>1, <2>2, <2>3, QuietStep
  <1>4. CASE ~(IfStream /\ req[r].iRetryAuth > 0)
    <2> DEFINE q == [req[r] EXCEPT !.sent = @ + FirstPieces(r), !.pc = "call",
                            !.cmd = AfterPiece("send", req[r].sent + FirstPieces(r))]
    <2>1. Becomes(r, q, state[r], net[r]) /\ UNCHANGED <<SessionMap, settings, invalidated, setter, throttle>>
      BY <1>1, <1>4 DEF TypeOK, Becomes, AfterSend
    <2>2. Fits(scope, q, state[r], net[r])
      BY <1>2, AfterSendOK DEF AfterSend, AfterPiece, FirstPieces, One, IfStream
    <2>3. /\ q.session = req[r].session /\ (q.pc # "idle" => r \in scope.threads)
          /\ HoldsSession(q) <=> HoldsSession(req[r])
          /\ q.pc = "throttle" <=> req[r].pc = "throttle"
      BY <1>2 DEF Requests, HoldsSession, AfterSend
    <2> HIDE DEF q
    <2> QED
      BY <2>1, <2>2, <2>3, QuietStep
  <1> QED
    BY <1>3, <1>4 DEF AfterSend

LEMMA HeadersKeeps ==
    ASSUME ConnectionInv, NEW r \in Threads, Headers(r)
    PROVE  ConnectionInv'
  <1>1. TypeOK /\ ThreadsOK
    BY DEF ConnectionInv
  <1>2. /\ Fits(scope, req[r], state[r], net[r])
        /\ scope.body \in Nat /\ scope.response \in Nat
        /\ req[r] \in Requests /\ state[r] \in States /\ net[r] \in Handles
        /\ r \notin scope.threads => req[r].pc = "idle"
    BY <1>1, ThreadFits
  <1>3. CASE req[r].iRetryAuth < 2 /\ SendAgain(r)
    <2> DEFINE q == [req[r] EXCEPT !.pc = "call", !.cmd = "send", !.iRetryAuth = @ + 1, !.sent = 0]
    <2>1. Becomes(r, q, state[r], net[r]) /\ UNCHANGED <<SessionMap, settings, invalidated, setter, throttle>>
      BY <1>1, <1>3 DEF TypeOK, Becomes, Headers, SendAgain
    <2>2. Fits(scope, q, state[r], net[r])
      BY <1>2, <1>3, SendAgainOK DEF Headers
    <2>3. /\ q.session = req[r].session /\ (q.pc # "idle" => r \in scope.threads)
          /\ HoldsSession(q) <=> HoldsSession(req[r])
          /\ q.pc = "throttle" <=> req[r].pc = "throttle"
      BY <1>2, <1>3 DEF Requests, HoldsSession, Headers
    <2> HIDE DEF q
    <2> QED
      BY <2>1, <2>2, <2>3, QuietStep
  <1>4. CASE Continue(r, "available")
    <2> DEFINE q == [req[r] EXCEPT !.pc = "call", !.cmd = "available"]
    <2>1. Becomes(r, q, state[r], net[r]) /\ UNCHANGED <<SessionMap, settings, invalidated, setter, throttle>>
      BY <1>1, <1>4 DEF TypeOK, Becomes, Headers, Continue
    <2>2. Fits(scope, q, state[r], net[r])
      BY <1>2, <1>4, HeadersOK DEF Headers
    <2>3. /\ q.session = req[r].session /\ (q.pc # "idle" => r \in scope.threads)
          /\ HoldsSession(q) <=> HoldsSession(req[r])
          /\ q.pc = "throttle" <=> req[r].pc = "throttle"
      BY <1>2, <1>4 DEF Requests, HoldsSession, Headers
    <2> HIDE DEF q
    <2> QED
      BY <2>1, <2>2, <2>3, QuietStep
  <1> QED
    BY <1>2, <1>3, <1>4 DEF Headers

LEMMA AvailableKeeps ==
    ASSUME ConnectionInv, NEW r \in Threads, Available(r)
    PROVE  ConnectionInv'
  <1>1. TypeOK /\ ThreadsOK
    BY DEF ConnectionInv
  <1>2. /\ Fits(scope, req[r], state[r], net[r])
        /\ scope.body \in Nat /\ scope.response \in Nat
        /\ req[r] \in Requests /\ state[r] \in States /\ net[r] \in Handles
        /\ r \notin scope.threads => req[r].pc = "idle"
    BY <1>1, ThreadFits
  <1>3. CASE net[r].left > 0 /\ Continue(r, "read")
    <2> DEFINE q == [req[r] EXCEPT !.pc = "call", !.cmd = "read"]
    <2>1. Becomes(r, q, state[r], net[r]) /\ UNCHANGED <<SessionMap, settings, invalidated, setter, throttle>>
      BY <1>1, <1>3 DEF TypeOK, Becomes, Available, Continue
    <2>2. Fits(scope, q, state[r], net[r])
      BY <1>2, <1>3, ReadOK DEF Available
    <2>3. /\ q.session = req[r].session /\ (q.pc # "idle" => r \in scope.threads)
          /\ HoldsSession(q) <=> HoldsSession(req[r])
          /\ q.pc = "throttle" <=> req[r].pc = "throttle"
      BY <1>2, <1>3 DEF Requests, HoldsSession, Available
    <2> HIDE DEF q
    <2> QED
      BY <2>1, <2>2, <2>3, QuietStep
  <1>4. CASE ~(net[r].left > 0) /\ Throw(r, "ok")
    <2> DEFINE q == [req[r] EXCEPT !.pc = "close", !.Error = "ok"]
    <2>1. Becomes(r, q, state[r], net[r]) /\ UNCHANGED <<SessionMap, settings, invalidated, setter, throttle>>
      BY <1>1, <1>4 DEF TypeOK, Becomes, Available, Throw
    <2>2. Fits(scope, q, state[r], net[r])
      BY <1>2, <1>4, AnsweredOK DEF Available
    <2>3. /\ q.session = req[r].session /\ (q.pc # "idle" => r \in scope.threads)
          /\ HoldsSession(q) <=> HoldsSession(req[r])
          /\ q.pc = "throttle" <=> req[r].pc = "throttle"
      BY <1>2, <1>4 DEF Requests, HoldsSession, Available
    <2> HIDE DEF q
    <2> QED
      BY <2>1, <2>2, <2>3, QuietStep
  <1>5. CASE ~(net[r].left > 0) /\ Throw(r, "http")
    <2> DEFINE q == [req[r] EXCEPT !.pc = "close", !.Error = "http"]
    <2>1. Becomes(r, q, state[r], net[r]) /\ UNCHANGED <<SessionMap, settings, invalidated, setter, throttle>>
      BY <1>1, <1>5 DEF TypeOK, Becomes, Available, Throw
    <2>2. Fits(scope, q, state[r], net[r])
      BY <1>2, <1>5, AnsweredOK DEF Available
    <2>3. /\ q.session = req[r].session /\ (q.pc # "idle" => r \in scope.threads)
          /\ HoldsSession(q) <=> HoldsSession(req[r])
          /\ q.pc = "throttle" <=> req[r].pc = "throttle"
      BY <1>2, <1>5 DEF Requests, HoldsSession, Available
    <2> HIDE DEF q
    <2> QED
      BY <2>1, <2>2, <2>3, QuietStep
  <1> QED
    BY <1>2, <1>3, <1>4, <1>5 DEF Available

LEMMA CloseRequestKeeps ==
    ASSUME ConnectionInv, NEW r \in Threads, CloseRequest(r)
    PROVE  ConnectionInv'
  <1>1. TypeOK /\ ThreadsOK
    BY DEF ConnectionInv
  <1>2. /\ Fits(scope, req[r], state[r], net[r])
        /\ scope.body \in Nat /\ scope.response \in Nat
        /\ req[r] \in Requests /\ state[r] \in States /\ net[r] \in Handles
        /\ r \notin scope.threads => req[r].pc = "idle"
    BY <1>1, ThreadFits
  <1>3. CASE net[r].hRequest = "open"
    <2> DEFINE q == [req[r] EXCEPT !.pc = "wait", !.cmd = "closing"]
               s == PrepareCmd(state[r])
               n == [net[r] EXCEPT !.hRequest = "closing"]
    <2>1. Becomes(r, q, s, n) /\ UNCHANGED <<SessionMap, settings, invalidated, setter, throttle>>
      BY <1>1, <1>3 DEF TypeOK, Becomes, CloseRequest
    <2>2. Fits(scope, q, s, n)
      BY <1>2, <1>3, CloseOK DEF CloseRequest
    <2>3. /\ q.session = req[r].session /\ (q.pc # "idle" => r \in scope.threads)
          /\ HoldsSession(q) <=> HoldsSession(req[r])
          /\ q.pc = "throttle" <=> req[r].pc = "throttle"
      BY <1>2, <1>3 DEF Requests, HoldsSession, CloseRequest
    <2> HIDE DEF q, s, n
    <2> QED
      BY <2>1, <2>2, <2>3, QuietStep
  <1>4. CASE net[r].hRequest # "open"
    <2> DEFINE q == [req[r] EXCEPT !.pc = "release"]
    <2>1. Becomes(r, q, state[r], net[r]) /\ UNCHANGED <<SessionMap, settings, invalidated, setter, throttle>>
      BY <1>1, <1>4 DEF TypeOK, Becomes, CloseRequest, To
    <2>2. Fits(scope, q, state[r], net[r])
      BY <1>2, <1>4, NoCloseOK DEF CloseRequest
    <2>3. /\ q.session = req[r].session /\ (q.pc # "idle" => r \in scope.threads)
          /\ HoldsSession(q) <=> HoldsSession(req[r])
          /\ q.pc = "throttle" <=> req[r].pc = "throttle"
      BY <1>2, <1>4 DEF Requests, HoldsSession, CloseRequest
    <2> HIDE DEF q
    <2> QED
      BY <2>1, <2>2, <2>3, QuietStep
  <1> QED
    BY <1>2, <1>3, <1>4 DEF CloseRequest

LEMMA ReturnKeeps ==
    ASSUME ConnectionInv, NEW r \in Threads, Return(r)
    PROVE  ConnectionInv'
  <1>1. TypeOK /\ ThreadsOK
    BY DEF ConnectionInv
  <1>2. /\ Fits(scope, req[r], state[r], net[r])
        /\ scope.body \in Nat /\ scope.response \in Nat
        /\ req[r] \in Requests /\ state[r] \in States /\ net[r] \in Handles
        /\ r \notin scope.threads => req[r].pc = "idle"
    BY <1>1, ThreadFits
  <1> DEFINE q == [req[r] EXCEPT !.pc = "idle"]
             s == [state[r] EXCEPT !.refs = 0]
  <1>3. Becomes(r, q, s, net[r]) /\ UNCHANGED <<SessionMap, settings, invalidated, setter, throttle>>
    BY <1>1 DEF TypeOK, Becomes, Return, To
  <1>4. Fits(scope, q, s, net[r])
    BY <1>2, ReturnOK DEF Return, CallbackIsDone
  <1>5. /\ q.session = req[r].session /\ (q.pc # "idle" => r \in scope.threads)
        /\ HoldsSession(q) <=> HoldsSession(req[r])
        /\ q.pc = "throttle" <=> req[r].pc = "throttle"
    BY <1>2 DEF Requests, HoldsSession, Return
  <1> HIDE DEF q, s
  <1> QED
    BY <1>3, <1>4, <1>5, QuietStep

LEMMA BeginKeeps ==
    ASSUME ConnectionInv, NEW r \in Threads, Begin(r)
    PROVE  ConnectionInv'
  <1>1. TypeOK /\ ThreadsOK
    BY DEF ConnectionInv
  <1>2. /\ Fits(scope, req[r], state[r], net[r])
        /\ scope.body \in Nat /\ scope.response \in Nat
        /\ req[r] \in Requests /\ state[r] \in States /\ net[r] \in Handles
        /\ r \notin scope.threads => req[r].pc = "idle"
    BY <1>1, ThreadFits
  <1> DEFINE q == [NoRequest EXCEPT !.pc = "alloc", !.round = req[r].round + 1]
             s == [IF state[r].alive THEN state[r] ELSE [NoState EXCEPT !.alive = TRUE]
                  EXCEPT !.refs = 1]
  <1>3. Becomes(r, q, s, net[r]) /\ UNCHANGED <<SessionMap, settings, invalidated, setter, throttle>>
    BY <1>1 DEF TypeOK, Becomes, Begin
  <1>4. Fits(scope, q, s, net[r])
    BY <1>2, BeginOK DEF Begin
  <1>5. /\ q.session = req[r].session /\ (q.pc # "idle" => r \in scope.threads)
        /\ HoldsSession(q) <=> HoldsSession(req[r])
        /\ q.pc = "throttle" <=> req[r].pc = "throttle"
    <2>1. req[r].session = 0
      BY DEF Begin, ConnectionInv, SessionsHeld, HoldsSession
    <2>2. q.session = 0 /\ q.pc = "alloc"
      BY DEF NoRequest
    <2> QED
      BY <2>1, <2>2 DEF HoldsSession, Begin
  <1> HIDE DEF q, s
  <1> QED
    BY <1>3, <1>4, <1>5, QuietStep

LEMMA RemoveStateKeeps ==
    ASSUME ConnectionInv, NEW r \in Threads, RemoveState(r)
    PROVE  ConnectionInv'
  <1>1. TypeOK /\ ThreadsOK
    BY DEF ConnectionInv
  <1>2. /\ Fits(scope, req[r], state[r], net[r])
        /\ scope.body \in Nat /\ scope.response \in Nat
        /\ req[r] \in Requests /\ state[r] \in States /\ net[r] \in Handles
        /\ r \notin scope.threads => req[r].pc = "idle"
    BY <1>1, ThreadFits
  <1> DEFINE s == NoState
  <1>3. Becomes(r, req[r], s, net[r]) /\ UNCHANGED <<SessionMap, settings, invalidated, setter, throttle>>
    BY <1>1 DEF TypeOK, Becomes, RemoveState
  <1>4. Fits(scope, req[r], s, net[r])
    BY <1>2, RemoveOK DEF RemoveState
  <1>5. /\ req[r].session = req[r].session /\ (req[r].pc # "idle" => r \in scope.threads)
        /\ HoldsSession(req[r]) <=> HoldsSession(req[r])
        /\ req[r].pc = "throttle" <=> req[r].pc = "throttle"
    BY <1>2 DEF Requests, HoldsSession, RemoveState
  <1> HIDE DEF s
  <1> QED
    BY <1>3, <1>4, <1>5, QuietStep

LEMMA OpenRequestKeeps ==
    ASSUME ConnectionInv, NEW r \in Threads, OpenRequest(r)
    PROVE  ConnectionInv'
  <1>1. TypeOK /\ ThreadsOK
    BY DEF ConnectionInv
  <1>2. /\ Fits(scope, req[r], state[r], net[r])
        /\ scope.body \in Nat /\ scope.response \in Nat
        /\ req[r] \in Requests /\ state[r] \in States /\ net[r] \in Handles
        /\ r \notin scope.threads => req[r].pc = "idle"
    BY <1>1, ThreadFits
  <1>3. CASE /\ net' = [net EXCEPT ![r] = [NoHandle EXCEPT !.hRequest = "open"]]
              /\ req' = [req EXCEPT ![r].pc = "call", ![r].cmd = "send",
                                    ![r].throttled = throttle.on]
    <2> DEFINE q == [req[r] EXCEPT !.pc = "call", !.cmd = "send", !.throttled = throttle.on]
               n == [NoHandle EXCEPT !.hRequest = "open"]
    <2>1. Becomes(r, q, state[r], n) /\ UNCHANGED <<SessionMap, settings, invalidated, setter, throttle>>
      BY <1>1, <1>3 DEF TypeOK, Becomes, OpenRequest
    <2>2. Fits(scope, q, state[r], n)
      BY <1>2, <1>3, <1>1, OpenOK DEF OpenRequest, TypeOK, Throttles
    <2>3. /\ q.session = req[r].session /\ (q.pc # "idle" => r \in scope.threads)
          /\ HoldsSession(q) <=> HoldsSession(req[r])
          /\ q.pc = "throttle" <=> req[r].pc = "throttle"
      BY <1>2, <1>3 DEF Requests, HoldsSession, OpenRequest
    <2> HIDE DEF q, n
    <2> QED
      BY <2>1, <2>2, <2>3, QuietStep
  <1>4. CASE Throw(r, "setup") /\ UNCHANGED net
    <2> DEFINE q == [req[r] EXCEPT !.pc = "close", !.Error = "setup"]
    <2>1. Becomes(r, q, state[r], net[r]) /\ UNCHANGED <<SessionMap, settings, invalidated, setter, throttle>>
      BY <1>1, <1>4 DEF TypeOK, Becomes, OpenRequest, Throw
    <2>2. Fits(scope, q, state[r], net[r])
      BY <1>2, <1>4, ThrowOK DEF OpenRequest
    <2>3. /\ q.session = req[r].session /\ (q.pc # "idle" => r \in scope.threads)
          /\ HoldsSession(q) <=> HoldsSession(req[r])
          /\ q.pc = "throttle" <=> req[r].pc = "throttle"
      BY <1>2, <1>4 DEF Requests, HoldsSession, OpenRequest
    <2> HIDE DEF q
    <2> QED
      BY <2>1, <2>2, <2>3, QuietStep
  <1>5. CASE /\ Throw(r, "setup")
             /\ net' = [net EXCEPT ![r] = [NoHandle EXCEPT !.hRequest = "open"]]
    <2> DEFINE q == [req[r] EXCEPT !.pc = "close", !.Error = "setup"]
               n == [NoHandle EXCEPT !.hRequest = "open"]
    <2>1. Becomes(r, q, state[r], n) /\ UNCHANGED <<SessionMap, settings, invalidated, setter, throttle>>
      BY <1>1, <1>5 DEF TypeOK, Becomes, OpenRequest, Throw
    <2>2. Fits(scope, q, state[r], n)
      BY <1>2, OpenFailedOK DEF OpenRequest
    <2>3. /\ q.session = req[r].session /\ (q.pc # "idle" => r \in scope.threads)
          /\ HoldsSession(q) <=> HoldsSession(req[r])
          /\ q.pc = "throttle" <=> req[r].pc = "throttle"
      BY <1>2, <1>5 DEF Requests, HoldsSession, OpenRequest
    <2> HIDE DEF q, n
    <2> QED
      BY <2>1, <2>2, <2>3, QuietStep
  <1> QED
    BY <1>2, <1>3, <1>4, <1>5 DEF OpenRequest

LEMMA CallbackExitKeeps ==
    ASSUME ConnectionInv, NEW r \in Threads, CallbackExit(r)
    PROVE  ConnectionInv'
  <1>1. TypeOK /\ ThreadsOK
    BY DEF ConnectionInv
  <1>2. /\ Fits(scope, req[r], state[r], net[r])
        /\ scope.body \in Nat /\ scope.response \in Nat
        /\ req[r] \in Requests /\ state[r] \in States /\ net[r] \in Handles
        /\ r \notin scope.threads => req[r].pc = "idle"
    BY <1>1, ThreadFits
  <1> DEFINE s == [state[r] EXCEPT !.lExitFlag = 1]
             h == IF net[r].hRequest = "late" THEN "none" ELSE net[r].hRequest
             n == [net[r] EXCEPT !.inside = FALSE, !.hRequest = h]
  <1>3. Becomes(r, req[r], s, n) /\ UNCHANGED <<SessionMap, settings, invalidated, setter, throttle>>
    BY <1>1 DEF TypeOK, Becomes, CallbackExit
  <1>4. Fits(scope, req[r], s, n)
    BY <1>2, CallbackExitOK DEF CallbackExit
  <1>5. /\ req[r].session = req[r].session /\ (req[r].pc # "idle" => r \in scope.threads)
        /\ HoldsSession(req[r]) <=> HoldsSession(req[r])
        /\ req[r].pc = "throttle" <=> req[r].pc = "throttle"
    BY <1>2 DEF Requests, HoldsSession, CallbackExit
  <1> HIDE DEF s, n
  <1> QED
    BY <1>3, <1>4, <1>5, QuietStep

LEMMA HandleClosingKeeps ==
    ASSUME ConnectionInv, NEW r \in Threads, HandleClosing(r)
    PROVE  ConnectionInv'
  <1>1. TypeOK /\ ThreadsOK
    BY DEF ConnectionInv
  <1>2. /\ Fits(scope, req[r], state[r], net[r])
        /\ scope.body \in Nat /\ scope.response \in Nat
        /\ req[r] \in Requests /\ state[r] \in States /\ net[r] \in Handles
        /\ r \notin scope.threads => req[r].pc = "idle"
    BY <1>1, ThreadFits
  <1> DEFINE s == Called(state[r], "closing", "none")
             h == IF net[r].hRequest = "closing" THEN "none" ELSE "late"
             n == [net[r] EXCEPT !.hRequest = h, !.inside = TRUE]
  <1>3. Becomes(r, req[r], s, n) /\ UNCHANGED <<SessionMap, settings, invalidated, setter, throttle>>
    BY <1>1 DEF TypeOK, Becomes, HandleClosing, HttpStatusCallback, Called
  <1>4. Fits(scope, req[r], s, n)
    BY <1>2, ClosingOK DEF HandleClosing
  <1>5. /\ req[r].session = req[r].session /\ (req[r].pc # "idle" => r \in scope.threads)
        /\ HoldsSession(req[r]) <=> HoldsSession(req[r])
        /\ req[r].pc = "throttle" <=> req[r].pc = "throttle"
    BY <1>2 DEF Requests, HoldsSession, HandleClosing
  <1> HIDE DEF s, n
  <1> QED
    BY <1>3, <1>4, <1>5, QuietStep

LEMMA CommandFailsKeeps ==
    ASSUME ConnectionInv, NEW r \in Threads, NEW result \in {"error", "resend"}, CommandFails(r, result)
    PROVE  ConnectionInv'
  <1>1. TypeOK /\ ThreadsOK
    BY DEF ConnectionInv
  <1>2. /\ Fits(scope, req[r], state[r], net[r])
        /\ scope.body \in Nat /\ scope.response \in Nat
        /\ req[r] \in Requests /\ state[r] \in States /\ net[r] \in Handles
        /\ r \notin scope.threads => req[r].pc = "idle"
    BY <1>1, ThreadFits
  <1> DEFINE s == Called(state[r], "error", result)
             n == [net[r] EXCEPT !.op = "none", !.inside = TRUE]
  <1>3. Becomes(r, req[r], s, n) /\ UNCHANGED <<SessionMap, settings, invalidated, setter, throttle>>
    BY <1>1 DEF TypeOK, Becomes, CommandFails, Done, HttpStatusCallback, Called
  <1>4. Fits(scope, req[r], s, n)
    BY <1>2, CommandFailsOK DEF CommandFails, Pending
  <1>5. /\ req[r].session = req[r].session /\ (req[r].pc # "idle" => r \in scope.threads)
        /\ HoldsSession(req[r]) <=> HoldsSession(req[r])
        /\ req[r].pc = "throttle" <=> req[r].pc = "throttle"
    BY <1>2 DEF Requests, HoldsSession, CommandFails
  <1> HIDE DEF s, n
  <1> QED
    BY <1>3, <1>4, <1>5, QuietStep

(* A command completes.                                                    *)
LEMMA CommandDoneKeeps ==
    ASSUME ConnectionInv, NEW r \in Threads, CommandDone(r), net[r].op # "headers"
    PROVE  ConnectionInv'
  <1>1. TypeOK /\ ThreadsOK
    BY DEF ConnectionInv
  <1>2. /\ Fits(scope, req[r], state[r], net[r])
        /\ scope.body \in Nat /\ scope.response \in Nat
        /\ req[r] \in Requests /\ state[r] \in States /\ net[r] \in Handles
        /\ r \notin scope.threads => req[r].pc = "idle"
    BY <1>1, ThreadFits
  <1>3. CASE net[r].op = "send"
    <2> DEFINE s == Called(state[r], "send", "none")
               n == [net[r] EXCEPT !.op = "none", !.inside = TRUE, !.server = FirstPieces(r)]
    <2>1. Becomes(r, req[r], s, n) /\ UNCHANGED <<SessionMap, settings, invalidated, setter, throttle>>
      BY <1>1, <1>3 DEF TypeOK, Becomes, CommandDone, Done, HttpStatusCallback, Called
    <2>2. Fits(scope, req[r], s, n)
      BY <1>2, <1>3, SendDoneOK DEF CommandDone, Pending, FirstPieces, One, IfStream
    <2>3. /\ req[r].session = req[r].session /\ (req[r].pc # "idle" => r \in scope.threads)
          /\ HoldsSession(req[r]) <=> HoldsSession(req[r])
          /\ req[r].pc = "throttle" <=> req[r].pc = "throttle"
      BY <1>2, <1>3 DEF Requests, HoldsSession, CommandDone
    <2> HIDE DEF s, n
    <2> QED
      BY <2>1, <2>2, <2>3, QuietStep
  <1>4. CASE net[r].op = "write"
    <2> DEFINE s == Called(state[r], "write", "none")
               n == [net[r] EXCEPT !.op = "none", !.inside = TRUE, !.server = @ + 1]
    <2>1. Becomes(r, req[r], s, n) /\ UNCHANGED <<SessionMap, settings, invalidated, setter, throttle>>
      <3> DEFINE d == [Done(r) EXCEPT !.server = @ + 1]
      <3>0. d = n
        BY <1>2 DEF Done, Handles
      <3>1. net' = [net EXCEPT ![r] = d]
        BY <1>4 DEF CommandDone
      <3> HIDE DEF d, n
      <3>2. net' = [net EXCEPT ![r] = n]
        BY <3>0, <3>1
      <3> QED
        BY <1>1, <1>4, <3>2 DEF TypeOK, Becomes, CommandDone, HttpStatusCallback, Called
    <2>2. Fits(scope, req[r], s, n)
      BY <1>2, <1>4, WriteDoneOK DEF CommandDone, Pending
    <2>3. /\ req[r].session = req[r].session /\ (req[r].pc # "idle" => r \in scope.threads)
          /\ HoldsSession(req[r]) <=> HoldsSession(req[r])
          /\ req[r].pc = "throttle" <=> req[r].pc = "throttle"
      BY <1>2, <1>4 DEF Requests, HoldsSession, CommandDone
    <2> HIDE DEF s, n
    <2> QED
      BY <2>1, <2>2, <2>3, QuietStep
  <1>5. CASE net[r].op = "available"
    <2> DEFINE s == Called(state[r], "available", "none")
               n == [net[r] EXCEPT !.op = "none", !.inside = TRUE]
    <2>1. Becomes(r, req[r], s, n) /\ UNCHANGED <<SessionMap, settings, invalidated, setter, throttle>>
      BY <1>1, <1>5 DEF TypeOK, Becomes, CommandDone, Done, HttpStatusCallback, Called
    <2>2. Fits(scope, req[r], s, n)
      BY <1>2, <1>5, AvailableDoneOK DEF CommandDone, Pending
    <2>3. /\ req[r].session = req[r].session /\ (req[r].pc # "idle" => r \in scope.threads)
          /\ HoldsSession(req[r]) <=> HoldsSession(req[r])
          /\ req[r].pc = "throttle" <=> req[r].pc = "throttle"
      BY <1>2, <1>5 DEF Requests, HoldsSession, CommandDone
    <2> HIDE DEF s, n
    <2> QED
      BY <2>1, <2>2, <2>3, QuietStep
  <1>6. CASE net[r].op = "read"
    <2> DEFINE s == Called(state[r], "read", "none")
               n == [net[r] EXCEPT !.op = "none", !.inside = TRUE, !.left = @ - 1]
    <2>1. Becomes(r, req[r], s, n) /\ UNCHANGED <<SessionMap, settings, invalidated, setter, throttle>>
      <3> DEFINE d == [Done(r) EXCEPT !.left = @ - 1]
      <3>0. d = n
        BY <1>2 DEF Done, Handles
      <3>1. net' = [net EXCEPT ![r] = d]
        BY <1>6 DEF CommandDone
      <3> HIDE DEF d, n
      <3>2. net' = [net EXCEPT ![r] = n]
        BY <3>0, <3>1
      <3> QED
        BY <1>1, <1>6, <3>2 DEF TypeOK, Becomes, CommandDone, HttpStatusCallback, Called
    <2>2. Fits(scope, req[r], s, n)
      BY <1>2, <1>6, ReadDoneOK DEF CommandDone, Pending
    <2>3. /\ req[r].session = req[r].session /\ (req[r].pc # "idle" => r \in scope.threads)
          /\ HoldsSession(req[r]) <=> HoldsSession(req[r])
          /\ req[r].pc = "throttle" <=> req[r].pc = "throttle"
      BY <1>2, <1>6 DEF Requests, HoldsSession, CommandDone
    <2> HIDE DEF s, n
    <2> QED
      BY <2>1, <2>2, <2>3, QuietStep
  <1> QED
    BY <1>2, <1>3, <1>4, <1>5, <1>6 DEF CommandDone

LEMMA HeadersDoneKeeps ==
    ASSUME ConnectionInv, NEW r \in Threads, CommandDone(r), net[r].op = "headers"
    PROVE  ConnectionInv'
  <1>1. TypeOK /\ ThreadsOK
    BY DEF ConnectionInv
  <1>2. /\ Fits(scope, req[r], state[r], net[r])
        /\ scope.body \in Nat /\ scope.response \in Nat
        /\ req[r] \in Requests /\ state[r] \in States /\ net[r] \in Handles
        /\ r \notin scope.threads => req[r].pc = "idle"
    BY <1>1, ThreadFits
  <1>3. PICK status \in scope.statuses :
          net' = [net EXCEPT ![r] = [Done(r) EXCEPT !.status = status, !.left = scope.response]]
    BY DEF CommandDone
  <1>4. status \in Statuses
    BY <1>1, ScopeFacts
  <1> DEFINE s == Called(state[r], "headers", "none")
             n == [net[r] EXCEPT !.op = "none", !.inside = TRUE, !.status = status,
                                 !.left = scope.response]
  <1>5. Becomes(r, req[r], s, n) /\ UNCHANGED <<SessionMap, settings, invalidated, setter, throttle>>
    BY <1>1, <1>3 DEF TypeOK, Becomes, CommandDone, Done, HttpStatusCallback, Called
  <1>6. Fits(scope, req[r], s, n)
    BY <1>2, <1>4, HeadersDoneOK DEF CommandDone, Pending
  <1>7. req[r].pc # "idle" => r \in scope.threads
    BY <1>2
  <1> HIDE DEF s, n
  <1> QED
    BY <1>5, <1>6, <1>7, QuietStep
-----------------------------------------------------------------------------
(* The sessions.                                                           *)

LEMMA KeysFacts ==
    /\ Keys \subseteq Nat \ {0}
    /\ IsFiniteSet(Keys) /\ IsFiniteSet(Threads)
    /\ Cardinality(Threads) \in Nat
    /\ Cardinality(Keys) = Cardinality(Threads) + 1
  <1>1. IsFiniteSet(Threads) /\ Cardinality(Threads) \in Nat
    BY ConnectionAssumption, FS_CardinalityType
  <1>2. ASSUME NEW m \in Nat
        PROVE  IsFiniteSet(1 .. m) /\ Cardinality(1 .. m) = m
    <2>1. 1 \in Int /\ m \in Int
      OBVIOUS
    <2>2. /\ IsFiniteSet(1 .. m)
          /\ Cardinality(1 .. m) = IF 1 > m THEN 0 ELSE m - 1 + 1
      BY <2>1, FS_Interval
    <2> QED
      BY <2>2
  <1>3. Cardinality(Threads) + 1 \in Nat
    BY <1>1
  <1> QED
    BY <1>1, <1>2, <1>3 DEF Keys

(* When every session of the pool is in use there is a key for a new one:  *)
(* the sessions in use have different holders.                             *)
LEMMA FreeKey ==
    ASSUME TypeOK, SessionsHeld, \A k \in DOMAIN SessionMap : SessionMap[k].bInUse
    PROVE  \E k \in Keys : k \notin DOMAIN SessionMap
  <1> SUFFICES ASSUME \A k \in Keys : k \in DOMAIN SessionMap
               PROVE  FALSE
    OBVIOUS
  <1> DEFINE f == [k \in Keys |-> CHOOSE r \in Threads : req[r].session = k]
  <1>1. \A k \in Keys : \E r \in Threads : req[r].session = k
    BY DEF SessionsHeld
  <1>2. f \in [Keys -> Threads] /\ \A k \in Keys : req[f[k]].session = k
    BY <1>1
  <1> HIDE DEF f
  <1>3. Cardinality(Threads) < Cardinality(Keys)
    BY KeysFacts
  <1>4. f \in [Keys -> Threads] /\ IsFiniteSet(Keys) /\ IsFiniteSet(Threads)
    BY <1>2, KeysFacts
  <1>5. \E x, y \in Keys : x # y /\ f[x] = f[y]
    BY ONLY <1>3, <1>4, FS_PigeonHole
  <1> QED
    BY <1>2, <1>5

LEMMA ClaimedFacts ==
    ASSUME TypeOK, SessionsHeld, NEW r, NEW k \in Claimed(r)
    PROVE  /\ k \in Keys /\ k # 0
           /\ k \in DOMAIN SessionMap => ~SessionMap[k].bInUse
           /\ \A q \in Threads : req[q].session # k
  <1> DEFINE idle == {j \in DOMAIN SessionMap : ~SessionMap[j].bInUse}
  <1>1. /\ k \in Keys
        /\ k \in DOMAIN SessionMap => ~SessionMap[k].bInUse
    <2>1. CASE idle # {}
      BY <2>1 DEF Claimed, TypeOK
    <2>2. CASE idle = {}
      <3>1. k = CHOOSE j \in Keys : j \notin DOMAIN SessionMap
        BY <2>2 DEF Claimed
      <3>2. \E j \in Keys : j \notin DOMAIN SessionMap
        BY <2>2, FreeKey
      <3> QED
        BY <3>1, <3>2
    <2> QED
      BY <2>1, <2>2
  <1>2. k # 0
    BY <1>1, KeysFacts
  <1> QED
    BY <1>1, <1>2 DEF SessionsHeld

LEMMA AllocSessionKeeps ==
    ASSUME ConnectionInv, NEW r \in Threads, AllocSession(r)
    PROVE  ConnectionInv'
  <1>1. TypeOK /\ ThreadsOK /\ SessionsHeld /\ SettingsTakeHold /\ QuotaInv /\ invalidated <= settings
    BY DEF ConnectionInv
  <1>2. /\ Fits(scope, req[r], state[r], net[r])
        /\ scope.body \in Nat /\ scope.response \in Nat
        /\ req[r] \in Requests /\ req[r].pc = "alloc"
        /\ r \in scope.threads
    BY <1>1, ThreadFits DEF AllocSession
  <1>3. PICK k \in Claimed(r) :
          /\ SessionMap' = [j \in DOMAIN SessionMap \cup {k} |->
                              IF j # k THEN SessionMap[j]
                              ELSE [IF k \in DOMAIN SessionMap THEN SessionMap[k] ELSE NoSession
                                    EXCEPT !.bInUse = TRUE]]
          /\ req' = [req EXCEPT ![r].session = k, ![r].pc = "init"]
    BY DEF AllocSession
  <1>4. /\ k \in Keys /\ k # 0
        /\ k \in DOMAIN SessionMap => ~SessionMap[k].bInUse
        /\ \A x \in Threads : req[x].session # k
    BY <1>1, ClaimedFacts
  <1> DEFINE q == [req[r] EXCEPT !.session = k, !.pc = "init"]
             old == IF k \in DOMAIN SessionMap THEN SessionMap[k] ELSE NoSession
             new == [old EXCEPT !.bInUse = TRUE]
  <1>5. Becomes(r, q, state[r], net[r])
    BY <1>1, <1>3 DEF AllocSession, TypeOK, Becomes
  <1>6. Fits(scope, q, state[r], net[r])
    BY <1>2, <1>4, AllocOK
  <1>7. q.session = k /\ q.pc = "init"
    BY <1>2 DEF Requests
  <1>8. UNCHANGED <<settings, invalidated, setter, throttle>>
    BY DEF AllocSession
  <1>9. /\ old \in Sessions /\ new \in Sessions /\ new.bInUse
        /\ new.opened = old.opened
    BY <1>1 DEF TypeOK, Sessions, NoSession
  <1>10. /\ DOMAIN SessionMap' = DOMAIN SessionMap \cup {k}
         /\ \A j \in DOMAIN SessionMap : j # k => SessionMap'[j] = SessionMap[j]
         /\ SessionMap'[k] = new
         /\ SessionMap' \in [DOMAIN SessionMap' -> Sessions]
    BY <1>1, <1>3, <1>9 DEF TypeOK
  <1>11. setter # "kill sessions" => old.opened = -1 \/ ~(old.opened < invalidated)
    BY <1>1, <1>4 DEF SettingsTakeHold, NoSession
  <1> HIDE DEF q, new, old
  <1>12. /\ ThreadsOK' /\ scope' \in Scopes /\ req' \in [Threads -> Requests]
         /\ state' \in [Threads -> States] /\ net' \in [Threads -> Handles]
    BY <1>1, <1>2, <1>5, <1>6, ThreadsKeep
  <1>13. TypeOK'
    BY <1>1, <1>4, <1>8, <1>10, <1>12 DEF TypeOK
  <1>14. req'[r] = q /\ \A x \in Threads : x # r => req'[x] = req[x]
    BY <1>1, <1>5 DEF TypeOK, Becomes
  <1>15. SessionsHeld'
    <2>1. \A x \in Threads : req'[x].session # 0 <=> HoldsSession(req'[x])
      BY <1>1, <1>4, <1>7, <1>14 DEF SessionsHeld, HoldsSession
    <2>2. \A x \in Threads : req'[x].session # 0 =>
            req'[x].session \in DOMAIN SessionMap' /\ SessionMap'[req'[x].session].bInUse
      BY <1>1, <1>4, <1>7, <1>9, <1>10, <1>14 DEF SessionsHeld
    <2>3. \A x, y \in Threads : req'[x].session # 0 /\ req'[x].session = req'[y].session => x = y
      BY <1>1, <1>4, <1>7, <1>14 DEF SessionsHeld
    <2>4. req[r].session = 0
      BY <1>1, <1>2 DEF SessionsHeld, HoldsSession
    <2>5. ASSUME NEW j \in DOMAIN SessionMap', SessionMap'[j].bInUse
          PROVE  \E x \in Threads : req'[x].session = j
      <3>1. CASE j = k
        BY <1>7, <1>14, <3>1
      <3>2. CASE j # k
        <4>1. j \in DOMAIN SessionMap /\ SessionMap[j].bInUse
          BY <1>10, <2>5, <3>2
        <4>2. PICK x \in Threads : req[x].session = j
          BY <1>1, <4>1 DEF SessionsHeld
        <4>3. j # 0
          BY <1>1, <4>1, KeysFacts DEF TypeOK
        <4> QED
          BY <1>14, <2>4, <4>2, <4>3
      <3> QED
        BY <3>1, <3>2
    <2> QED
      BY <2>1, <2>2, <2>3, <2>5 DEF SessionsHeld
  <1>16. SettingsTakeHold'
    BY <1>1, <1>8, <1>9, <1>10, <1>11 DEF SettingsTakeHold
  <1>17. QuotaInv'
    <2>1. Throttled' = Throttled
      BY <1>1, <1>2, <1>5, <1>7, ThrottledKeep
    <2> QED
      BY <1>1, <1>5, <1>8, <2>1 DEF QuotaInv, Becomes
  <1> QED
    BY <1>1, <1>8, <1>12, <1>13, <1>15, <1>16, <1>17 DEF ConnectionInv
LEMMA InitSessionKeeps ==
    ASSUME ConnectionInv, NEW r \in Threads, InitSession(r)
    PROVE  ConnectionInv'
  <1>1. TypeOK /\ ThreadsOK /\ SessionsHeld /\ SettingsTakeHold /\ QuotaInv /\ invalidated <= settings
    BY DEF ConnectionInv
  <1>2. /\ Fits(scope, req[r], state[r], net[r])
        /\ scope.body \in Nat /\ scope.response \in Nat
        /\ req[r] \in Requests /\ state[r] \in States /\ req[r].pc = "init"
        /\ r \in scope.threads
    BY <1>1, ThreadFits DEF InitSession
  <1>3. CASE Throw(r, "setup") /\ UNCHANGED SessionMap
    <2> DEFINE q == [req[r] EXCEPT !.pc = "close", !.Error = "setup"]
    <2>1. /\ Becomes(r, q, state[r], net[r])
          /\ UNCHANGED <<SessionMap, settings, invalidated, setter, throttle>>
      BY <1>1, <1>3 DEF TypeOK, Becomes, InitSession, Throw
    <2>2. Fits(scope, q, state[r], net[r])
      BY <1>2, ThrowOK
    <2>3. /\ q.session = req[r].session /\ q.pc = "close"
          /\ HoldsSession(q) <=> HoldsSession(req[r])
      BY <1>2 DEF Requests, HoldsSession
    <2> HIDE DEF q
    <2> QED
      BY <1>2, <2>1, <2>2, <2>3, QuietStep
  <1>4. CASE To(r, "open")
    <2> DEFINE q == [req[r] EXCEPT !.pc = "open"]
               k == req[r].session
    <2>1. Becomes(r, q, state[r], net[r]) /\ UNCHANGED <<settings, invalidated, setter, throttle>>
      BY <1>1, <1>4 DEF TypeOK, Becomes, InitSession, To
    <2>2. Fits(scope, q, state[r], net[r])
      BY <1>2, SessionOpenOK
    <2>3. /\ q.session = req[r].session /\ q.pc = "open"
          /\ HoldsSession(q) <=> HoldsSession(req[r])
      BY <1>2 DEF Requests, HoldsSession
    <2>4. k \in DOMAIN SessionMap
      BY <1>1, <1>2 DEF SessionsHeld, HoldsSession
    <2> HIDE DEF q, k
    <2>5. /\ DOMAIN SessionMap' = DOMAIN SessionMap
          /\ SessionMap' \in [DOMAIN SessionMap' -> Sessions]
          /\ \A j \in DOMAIN SessionMap :
               /\ SessionMap'[j].bInUse = SessionMap[j].bInUse
               /\ SessionMap'[j].bKillWhenDone = SessionMap[j].bKillWhenDone
               /\ SessionMap'[j].opened \in {SessionMap[j].opened, settings}
      <3>1. CASE SessionMap' = [SessionMap EXCEPT ![k].opened = settings]
        <4> DEFINE e == [SessionMap[k] EXCEPT !.opened = settings]
        <4>1. SessionMap' = [SessionMap EXCEPT ![k] = e]
          BY <3>1
        <4>2. /\ e \in Sessions /\ e.bInUse = SessionMap[k].bInUse
              /\ e.bKillWhenDone = SessionMap[k].bKillWhenDone /\ e.opened = settings
          BY <1>1, <2>4 DEF TypeOK, Sessions
        <4> HIDE DEF e
        <4>3. /\ DOMAIN SessionMap' = DOMAIN SessionMap
              /\ SessionMap' \in [DOMAIN SessionMap' -> Sessions]
          BY <1>1, <4>1, <4>2 DEF TypeOK
        <4>4. \A j \in DOMAIN SessionMap : SessionMap'[j] = IF j = k THEN e ELSE SessionMap[j]
          BY <1>1, <4>1 DEF TypeOK
        <4> QED
          BY <4>2, <4>3, <4>4
      <3>2. CASE UNCHANGED SessionMap
        BY <1>1, <3>2 DEF TypeOK
      <3> QED
        BY <1>4, <3>1, <3>2 DEF InitSession, k
    <2>6. /\ ThreadsOK' /\ scope' \in Scopes /\ req' \in [Threads -> Requests]
          /\ state' \in [Threads -> States] /\ net' \in [Threads -> Handles]
      BY <1>1, <1>2, <2>1, <2>2, ThreadsKeep
    <2>7. TypeOK'
      BY <1>1, <2>1, <2>5, <2>6 DEF TypeOK
    <2>8. SessionsHeld'
      BY <1>1, <2>1, <2>3, <2>5, SessionsKeep
    <2>9. SettingsTakeHold'
      <3>1. settings \in Nat /\ invalidated \in Nat /\ invalidated <= settings
        BY <1>1 DEF TypeOK
      <3>2. ~(settings < invalidated)
        BY ONLY <3>1
      <3> QED
        BY <1>1, <2>1, <2>5, <3>2 DEF SettingsTakeHold
    <2>10. QuotaInv'
      <3>1. Throttled' = Throttled
        BY <1>1, <1>2, <2>1, <2>3, ThrottledKeep
      <3> QED
        BY <1>1, <2>1, <3>1 DEF QuotaInv, Becomes
    <2> QED
      BY <1>1, <2>1, <2>6, <2>7, <2>8, <2>9, <2>10 DEF ConnectionInv
  <1> QED
    BY <1>3, <1>4 DEF InitSession

LEMMA ReleaseSessionKeeps ==
    ASSUME ConnectionInv, NEW r \in Threads, ReleaseSession(r)
    PROVE  ConnectionInv'
  <1>1. TypeOK /\ ThreadsOK /\ SessionsHeld /\ SettingsTakeHold /\ QuotaInv /\ invalidated <= settings
    BY DEF ConnectionInv
  <1>2. /\ Fits(scope, req[r], state[r], net[r])
        /\ scope.body \in Nat /\ scope.response \in Nat
        /\ req[r] \in Requests /\ req[r].pc = "release"
        /\ r \in scope.threads
    BY <1>1, ThreadFits DEF ReleaseSession
  <1> DEFINE q == [req[r] EXCEPT !.pc = "exit", !.session = 0]
             k == req[r].session
  <1>3. Becomes(r, q, state[r], net[r]) /\ UNCHANGED <<settings, invalidated, setter, throttle>>
    BY <1>1 DEF TypeOK, Becomes, ReleaseSession
  <1>4. Fits(scope, q, state[r], net[r])
    BY <1>2, ReleaseOK
  <1>5. q.session = 0 /\ q.pc = "exit"
    BY <1>2 DEF Requests
  <1>6. k # 0 /\ k \in DOMAIN SessionMap /\ \A x \in Threads : req[x].session = k => x = r
    BY <1>1, <1>2 DEF SessionsHeld, HoldsSession
  <1> HIDE DEF q, k
  <1>7. /\ DOMAIN SessionMap \ {k} \subseteq DOMAIN SessionMap'
        /\ DOMAIN SessionMap' \subseteq DOMAIN SessionMap
        /\ SessionMap' \in [DOMAIN SessionMap' -> Sessions]
        /\ \A j \in DOMAIN SessionMap \ {k} : SessionMap'[j] = SessionMap[j]
        /\ k \in DOMAIN SessionMap' =>
             /\ ~SessionMap'[k].bInUse /\ ~SessionMap[k].bKillWhenDone
             /\ SessionMap'[k].opened = SessionMap[k].opened
    <2>1. CASE SessionMap' = Without(SessionMap, {k})
      BY <1>1, <2>1 DEF Without, TypeOK
    <2>2. CASE ~SessionMap[k].bKillWhenDone /\ SessionMap' = [SessionMap EXCEPT ![k].bInUse = FALSE]
      <3> DEFINE e == [SessionMap[k] EXCEPT !.bInUse = FALSE]
      <3>1. SessionMap' = [SessionMap EXCEPT ![k] = e]
        BY <2>2
      <3>2. e \in Sessions /\ ~e.bInUse /\ e.opened = SessionMap[k].opened
        BY <1>1, <1>6 DEF TypeOK, Sessions
      <3> HIDE DEF e
      <3> QED
        BY <1>1, <1>6, <2>2, <3>1, <3>2 DEF TypeOK
    <2> QED
      BY <1>6, <2>1, <2>2 DEF ReleaseSession, Released, k
  <1>8. /\ ThreadsOK' /\ scope' \in Scopes /\ req' \in [Threads -> Requests]
        /\ state' \in [Threads -> States] /\ net' \in [Threads -> Handles]
    BY <1>1, <1>2, <1>3, <1>4, ThreadsKeep
  <1>9. TypeOK'
    BY <1>1, <1>3, <1>7, <1>8 DEF TypeOK
  <1>10. req'[r] = q /\ \A x \in Threads : x # r => req'[x] = req[x]
    BY <1>1, <1>3 DEF TypeOK, Becomes
  <1>11. SessionsHeld'
    <2>1. \A x \in Threads : req'[x].session # 0 <=> HoldsSession(req'[x])
      BY <1>1, <1>5, <1>10 DEF SessionsHeld, HoldsSession
    <2>2. \A x \in Threads : req'[x].session # 0 =>
            req'[x].session \in DOMAIN SessionMap' /\ SessionMap'[req'[x].session].bInUse
      BY <1>1, <1>5, <1>6, <1>7, <1>10 DEF SessionsHeld
    <2>3. \A x, y \in Threads : req'[x].session # 0 /\ req'[x].session = req'[y].session => x = y
      BY <1>1, <1>5, <1>10 DEF SessionsHeld
    <2>4. ASSUME NEW j \in DOMAIN SessionMap', SessionMap'[j].bInUse
          PROVE  \E x \in Threads : req'[x].session = j
      <3>1. j # k /\ j \in DOMAIN SessionMap /\ SessionMap[j].bInUse
        BY <1>7, <2>4
      <3>2. PICK x \in Threads : req[x].session = j
        BY <1>1, <3>1 DEF SessionsHeld
      <3>3. x # r
        BY <3>1, <3>2 DEF k
      <3> QED
        BY <1>10, <3>2, <3>3
    <2> QED
      BY <2>1, <2>2, <2>3, <2>4 DEF SessionsHeld
  <1>12. SettingsTakeHold'
    BY <1>1, <1>3, <1>6, <1>7 DEF SettingsTakeHold
  <1>13. QuotaInv'
    <2>1. Throttled' = Throttled
      BY <1>1, <1>2, <1>3, <1>5, ThrottledKeep
    <2> QED
      BY <1>1, <1>3, <2>1 DEF QuotaInv, Becomes
  <1> QED
    BY <1>1, <1>3, <1>8, <1>9, <1>11, <1>12, <1>13 DEF ConnectionInv

(* Sessions that nobody uses go, and what is kept is marked at most.       *)
LEMMA SessionsPruned ==
    ASSUME ConnectionInv, UNCHANGED <<scope, req, state, net, settings, invalidated, throttle>>,
           setter' \in {"idle", setter},
           DOMAIN SessionMap' \subseteq DOMAIN SessionMap,
           SessionMap' \in [DOMAIN SessionMap' -> Sessions],
           \A k \in DOMAIN SessionMap : SessionMap[k].bInUse =>
               k \in DOMAIN SessionMap' /\ SessionMap'[k].bInUse,
           \A k \in DOMAIN SessionMap' : SessionMap'[k].bInUse = SessionMap[k].bInUse,
           SettingsTakeHold'
    PROVE  ConnectionInv'
  <1> USE DEF ConnectionInv
  <1>1. TypeOK'
    BY DEF TypeOK
  <1>2. ThreadsOK'
    BY DEF ThreadsOK
  <1>3. SessionsHeld'
    BY DEF SessionsHeld
  <1>4. QuotaInv'
    BY DEF QuotaInv, Throttled
  <1> QED
    BY <1>1, <1>2, <1>3, <1>4

LEMMA InvalidateSessionsKeeps ==
    ASSUME ConnectionInv, InvalidateSessions
    PROVE  ConnectionInv'
  <1> DEFINE used == {k \in DOMAIN SessionMap : SessionMap[k].bInUse}
             Marked(k) == [SessionMap[k] EXCEPT !.bKillWhenDone = TRUE]
  <1>1. SessionMap' = [k \in used |-> Marked(k)]
    BY DEF InvalidateSessions, KillHostSessions
  <1>2. ASSUME NEW k \in used
        PROVE  Marked(k) \in Sessions /\ Marked(k).bInUse /\ Marked(k).bKillWhenDone
    BY DEF ConnectionInv, TypeOK, Sessions
  <1> HIDE DEF Marked
  <1>3. /\ DOMAIN SessionMap' = used
        /\ SessionMap' \in [DOMAIN SessionMap' -> Sessions]
        /\ \A k \in used : SessionMap'[k].bInUse /\ SessionMap'[k].bKillWhenDone
    BY <1>1, <1>2
  <1>0. \A k \in DOMAIN SessionMap' : SessionMap'[k].bInUse = SessionMap[k].bInUse
    BY <1>3 DEF ConnectionInv, TypeOK, Sessions
  <1>4. SettingsTakeHold'
    BY <1>3 DEF SettingsTakeHold
  <1>5. UNCHANGED <<scope, req, state, net, settings, invalidated, throttle>> /\ setter' = "idle"
    BY DEF InvalidateSessions
  <1> QED
    BY <1>0, <1>3, <1>4, <1>5, SessionsPruned

LEMMA RemoveSessionKeeps ==
    ASSUME ConnectionInv, NEW k \in DOMAIN SessionMap, RemoveSession(k)
    PROVE  ConnectionInv'
  <1>1. /\ DOMAIN SessionMap' = DOMAIN SessionMap \ {k}
        /\ \A j \in DOMAIN SessionMap' : SessionMap'[j] = SessionMap[j]
        /\ SessionMap' \in [DOMAIN SessionMap' -> Sessions]
        /\ ~SessionMap[k].bInUse
    BY DEF RemoveSession, Without, ConnectionInv, TypeOK
  <1>2. UNCHANGED <<scope, req, state, net, settings, invalidated, setter, throttle>>
    BY DEF RemoveSession
  <1>3. SettingsTakeHold'
    BY <1>1, <1>2 DEF SettingsTakeHold, ConnectionInv
  <1> QED
    BY <1>1, <1>2, <1>3, SessionsPruned

LEMMA ChangeSettingKeeps ==
    ASSUME ConnectionInv, ChangeSetting \/ ChangeForNewSessions
    PROVE  ConnectionInv'
  <1> USE DEF ConnectionInv, ChangeSetting, ChangeForNewSessions
  <1>1. /\ settings' \in Nat /\ invalidated' \in Nat /\ invalidated' <= settings'
        /\ setter' # "kill sessions" => invalidated' = invalidated /\ setter' = setter
    <2>1. settings \in Nat /\ invalidated \in Nat /\ invalidated <= settings
      BY DEF TypeOK
    <2>2. settings' = settings + 1 /\ invalidated' \in {invalidated, settings + 1}
      OBVIOUS
    <2>3. settings' \in Nat /\ invalidated' \in Nat /\ invalidated' <= settings'
      BY ONLY <2>1, <2>2
    <2>4. setter' # "kill sessions" => invalidated' = invalidated /\ setter' = setter
      OBVIOUS
    <2> QED
      BY <2>3, <2>4
  <1>6. TypeOK'
    BY <1>1 DEF TypeOK
  <1>7. UNCHANGED <<scope, req, state, net, SessionMap, throttle>>
    OBVIOUS
  <1> HIDE DEF ChangeSetting, ChangeForNewSessions
  <1>2. ThreadsOK'
    BY <1>7 DEF ThreadsOK
  <1>3. SessionsHeld'
    BY <1>7 DEF SessionsHeld
  <1>4. SettingsTakeHold'
    BY <1>1, <1>7 DEF SettingsTakeHold
  <1>5. QuotaInv'
    BY <1>7 DEF QuotaInv, Throttled
  <1> QED
    BY <1>1, <1>2, <1>3, <1>4, <1>5, <1>6
-----------------------------------------------------------------------------
(* The throttle.                                                           *)

LEMMA ThrottledFacts ==
    ASSUME TypeOK, ThreadsOK
    PROVE  /\ IsFiniteSet(Throttled) /\ Cardinality(Throttled) \in Nat
           /\ Throttled \subseteq scope.threads
           /\ Cardinality(scope.threads) \in Nat
           /\ Cardinality(Throttled) <= Cardinality(scope.threads)
  <1>1. Throttled \subseteq scope.threads
    BY DEF ThreadsOK, Throttled
  <1>2. IsFiniteSet(scope.threads)
    BY KeysFacts, ScopeFacts, FS_Subset
  <1> QED
    BY <1>1, <1>2, FS_Subset, FS_CardinalityType

(* A request enters or leaves the loops.                                   *)
LEMMA OneMoreThrottled ==
    ASSUME TypeOK, ThreadsOK, NEW r \in Threads, NEW q, NEW s, NEW n,
           Becomes(r, q, s, n), q.pc = "throttle", req[r].pc # "throttle"
    PROVE  Cardinality(Throttled') = Cardinality(Throttled) + 1
  <1>1. req'[r] = q /\ \A x \in Threads : x # r => req'[x] = req[x]
    BY DEF TypeOK, Becomes
  <1>2. Throttled' = Throttled \cup {r} /\ r \notin Throttled
    BY <1>1 DEF Throttled
  <1> QED
    BY <1>2, ThrottledFacts, FS_AddElement

LEMMA OneLessThrottled ==
    ASSUME TypeOK, ThreadsOK, NEW r \in Threads, NEW q, NEW s, NEW n,
           Becomes(r, q, s, n), q.pc # "throttle", req[r].pc = "throttle"
    PROVE  /\ Cardinality(Throttled') \in Nat
           /\ Cardinality(Throttled') = Cardinality(Throttled) - 1
  <1>1. req'[r] = q /\ \A x \in Threads : x # r => req'[x] = req[x]
    BY DEF TypeOK, Becomes
  <1>2. Throttled' = Throttled \ {r} /\ r \in Throttled
    BY <1>1 DEF Throttled
  <1>3. IsFiniteSet(Throttled \ {r}) /\ Cardinality(Throttled \ {r}) = Cardinality(Throttled) - 1
    BY <1>2, ThrottledFacts, FS_RemoveElement
  <1> QED
    BY <1>2, <1>3, FS_CardinalityType

(* The ways the quota changes, for any rate and number of waiting requests.*)
LEMMA ChargedOK ==
    ASSUME NEW t \in Throttles, NEW w \in Nat, Paid(t, w), t.on
    PROVE  /\ [t EXCEPT !.iBytesCurInterval = @ - 1, !.level = @ + 1] \in Throttles
           /\ Paid([t EXCEPT !.iBytesCurInterval = @ - 1, !.level = @ + 1], w + 1)
  <1> DEFINE u == [t EXCEPT !.iBytesCurInterval = @ - 1, !.level = @ + 1]
  <1>1. /\ t.iBytesCurInterval \in Int /\ t.level \in Nat /\ t.aborted \in Nat
        /\ t.most \in Nat /\ t.uncharged \in Nat
    BY DEF Throttles
  <1>2. t.iBytesCurInterval - 1 \in Int /\ t.level + 1 \in Nat
    BY <1>1
  <1>3. /\ u \in Throttles /\ u.iBytesCurInterval = t.iBytesCurInterval - 1
        /\ u.level = t.level + 1 /\ u.aborted = t.aborted
        /\ u.most = t.most /\ u.uncharged = t.uncharged
    BY <1>2 DEF Throttles
  <1> HIDE DEF u
  <1>4. Paid(u, w + 1)
    BY <1>1, <1>3 DEF Paid
  <1> QED
    BY <1>3, <1>4 DEF u

LEMMA UnchargedOK ==
    ASSUME NEW t \in Throttles, NEW w \in Nat, Paid(t, w)
    PROVE  /\ [t EXCEPT !.uncharged = @ + 1, !.level = @ + 1] \in Throttles
           /\ Paid([t EXCEPT !.uncharged = @ + 1, !.level = @ + 1], w)
  <1> DEFINE u == [t EXCEPT !.uncharged = @ + 1, !.level = @ + 1]
  <1>1. /\ t.iBytesCurInterval \in Int /\ t.level \in Nat /\ t.aborted \in Nat
        /\ t.most \in Nat /\ t.uncharged \in Nat
    BY DEF Throttles
  <1>2. t.uncharged + 1 \in Nat /\ t.level + 1 \in Nat
    BY <1>1
  <1>3. /\ u \in Throttles /\ u.iBytesCurInterval = t.iBytesCurInterval
        /\ u.level = t.level + 1 /\ u.aborted = t.aborted /\ u.on = t.on
        /\ u.most = t.most /\ u.uncharged = t.uncharged + 1
    BY <1>2 DEF Throttles
  <1> HIDE DEF u
  <1>4. Paid(u, w)
    BY <1>1, <1>3 DEF Paid
  <1> QED
    BY <1>3, <1>4 DEF u

LEMMA AbortedOK ==
    ASSUME NEW t \in Throttles, NEW w \in Nat, w - 1 \in Nat, Paid(t, w)
    PROVE  /\ [t EXCEPT !.aborted = @ + 1] \in Throttles
           /\ Paid([t EXCEPT !.aborted = @ + 1], w - 1)
           /\ ~t.on \/ t.iBytesCurInterval >= 0 => Paid(t, w - 1)
  <1> DEFINE u == [t EXCEPT !.aborted = @ + 1]
  <1>1. /\ t.iBytesCurInterval \in Int /\ t.level \in Nat /\ t.aborted \in Nat
        /\ t.most \in Nat /\ t.uncharged \in Nat
    BY DEF Throttles
  <1>2. t.aborted + 1 \in Nat
    BY <1>1
  <1>3. /\ u \in Throttles /\ u.iBytesCurInterval = t.iBytesCurInterval
        /\ u.level = t.level /\ u.aborted = t.aborted + 1 /\ u.on = t.on
        /\ u.most = t.most /\ u.uncharged = t.uncharged
    BY <1>2 DEF Throttles
  <1> HIDE DEF u
  <1>4. Paid(u, w - 1)
    BY <1>1, <1>3 DEF Paid
  <1>5. ~t.on \/ t.iBytesCurInterval >= 0 => Paid(t, w - 1)
    BY <1>1 DEF Paid
  <1> QED
    BY <1>3, <1>4, <1>5 DEF u

(* An interval of the timer: what is made up for has leaked away.          *)
LEMMA RefilledOK ==
    ASSUME NEW t \in Throttles, NEW w \in Nat, Paid(t, w), NEW g \in Nat,
           NEW i \in Int, i = IF t.on THEN AtMost(t.iBytesCurInterval + g, g)
                             ELSE t.iBytesCurInterval,
           NEW l \in Int, l = IF t.level > g THEN t.level - g ELSE 0,
           NEW m \in Int, m = IF t.most > g THEN t.most ELSE g
    PROVE  LET u == [t EXCEPT !.timer = "on", !.iBytesCurInterval = i, !.level = l, !.most = m]
           IN  u \in Throttles /\ Paid(u, w)
  <1> DEFINE u == [t EXCEPT !.timer = "on", !.iBytesCurInterval = i, !.level = l, !.most = m]
  <1>1. /\ t.iBytesCurInterval \in Int /\ t.level \in Nat /\ t.aborted \in Nat
        /\ t.most \in Nat /\ t.uncharged \in Nat
    BY DEF Throttles
  <1>2. l \in Nat /\ m \in Nat
    BY <1>1
  <1>3. /\ u \in Throttles /\ u.iBytesCurInterval = i
        /\ u.level = l /\ u.aborted = t.aborted /\ u.on = t.on
        /\ u.most = m /\ u.uncharged = t.uncharged
    BY <1>2 DEF Throttles
  <1> HIDE DEF u
  <1>4. Paid(u, w)
    <2> SUFFICES ASSUME t.on PROVE u.level + u.iBytesCurInterval <= u.most + u.uncharged
                                   /\ u.iBytesCurInterval + w + u.aborted >= 0
      BY <1>3 DEF Paid
    <2>1. /\ t.level + t.iBytesCurInterval <= t.most + t.uncharged
          /\ t.iBytesCurInterval + w + t.aborted >= 0
      BY DEF Paid
    <2>2. i <= t.iBytesCurInterval + g /\ i <= g
          /\ (i = t.iBytesCurInterval + g \/ i = g)
      BY <1>1 DEF AtMost
    <2> QED
      BY <1>1, <1>3, <2>1, <2>2
  <1> QED
    BY <1>3, <1>4 DEF u

(* A step of a thread that may also change the quota.                      *)
LEMMA QuotaStep ==
    ASSUME ConnectionInv, NEW r \in Threads, NEW q, NEW s, NEW n,
           Becomes(r, q, s, n), Fits(scope, q, s, n), r \in scope.threads,
           q.session = req[r].session, HoldsSession(q) <=> HoldsSession(req[r]),
           UNCHANGED <<SessionMap, settings, invalidated, setter>>,
           throttle' \in Throttles,
           QuotaInv'
    PROVE  ConnectionInv'
  <1> USE DEF ConnectionInv
  <1>1. /\ ThreadsOK'
        /\ scope' \in Scopes
        /\ req' \in [Threads -> Requests]
        /\ state' \in [Threads -> States]
        /\ net' \in [Threads -> Handles]
    BY ThreadsKeep
  <1>2. TypeOK'
    BY <1>1 DEF TypeOK
  <1>3. SessionsHeld'
    BY SessionsKeep
  <1>4. SettingsTakeHold'
    BY DEF SettingsTakeHold
  <1> QED
    BY <1>1, <1>2, <1>3, <1>4

LEMMA MovedKeeps ==
    ASSUME ConnectionInv, NEW r \in Threads, Moved(r)
    PROVE  ConnectionInv'
  <1>1. TypeOK /\ ThreadsOK /\ QuotaInv
    BY DEF ConnectionInv
  <1>2. /\ Fits(scope, req[r], state[r], net[r])
        /\ scope.body \in Nat /\ scope.response \in Nat
        /\ req[r] \in Requests
        /\ req[r].pc = "next" /\ req[r].cmd \in {"write", "read"}
        /\ r \in scope.threads
    BY <1>1, ThreadFits DEF Moved
  <1> DEFINE q == [req[r] EXCEPT !.sent = @ + One(req[r].cmd = "write"),
                                 !.rcvd = @ + One(req[r].cmd = "read"), !.pc = "throttle"]
  <1>3. Fits(scope, q, state[r], net[r])
    BY <1>2, MovedOK
  <1>4. /\ q \in Requests /\ q.session = req[r].session /\ q.pc = "throttle"
        /\ q.cmd = req[r].cmd /\ q.sent = req[r].sent + One(req[r].cmd = "write")
        /\ HoldsSession(q) <=> HoldsSession(req[r])
    BY <1>2, <1>3 DEF Requests, HoldsSession, Fits
  <1>5. UNCHANGED <<scope, state, net, SessionMap, settings, invalidated, setter>>
    BY DEF Moved
  <1> DEFINE w == Cardinality(Throttled)
  <1>0. throttle \in Throttles /\ w \in Nat /\ Paid(throttle, w)
    BY <1>1, ThrottledFacts DEF TypeOK, QuotaInv
  <1> DEFINE charged == /\ req[r].throttled
                        /\ IfCharged(req[r].cmd, req[r].sent + One(req[r].cmd = "write"))
  <1> DEFINE sent == req[r].sent + One(req[r].cmd = "write")
             rcvd == req[r].rcvd + One(req[r].cmd = "read")
             m == [req[r] EXCEPT !.sent = sent, !.rcvd = rcvd]
  <1>8. m.cmd = req[r].cmd
    BY <1>2 DEF Requests
  <1>9. \/ /\ charged
           /\ req' = [req EXCEPT ![r] = [m EXCEPT !.pc = "throttle"]]
           /\ throttle' = IF throttle.on
                          THEN [throttle EXCEPT !.iBytesCurInterval = @ - 1, !.level = @ + 1]
                          ELSE throttle
        \/ /\ ~charged
           /\ req' = [req EXCEPT ![r] = [m EXCEPT !.pc = "call", !.cmd = AfterPiece(m.cmd, sent)]]
           /\ throttle' \in {throttle, [throttle EXCEPT !.uncharged = @ + 1, !.level = @ + 1]}
    BY <1>8 DEF Moved, One
  <1>10. [m EXCEPT !.pc = "throttle"] = q
    OBVIOUS
  <1> HIDE DEF charged, m
  <1>6. CASE charged
    <2>1. Becomes(r, q, state[r], net[r])
      BY <1>1, <1>5, <1>6, <1>9, <1>10 DEF TypeOK, Becomes
    <2>2. w' = w + 1
      BY <1>1, <1>2, <1>4, <2>1, OneMoreThrottled
    <2> HIDE DEF q, w
    <2>3. throttle' \in Throttles /\ Paid(throttle', w + 1)
      <3>1. CASE throttle.on
        <4>1. throttle' = [throttle EXCEPT !.iBytesCurInterval = @ - 1, !.level = @ + 1]
          BY <1>6, <1>9, <3>1
        <4> QED
          BY <1>0, <3>1, <4>1, ChargedOK
      <3>2. CASE ~throttle.on
        <4>1. throttle' = throttle
          BY <1>6, <1>9, <3>2
        <4> QED
          BY <1>0, <3>2, <4>1 DEF Paid
      <3> QED
        BY <3>1, <3>2
    <2>4. QuotaInv'
      BY <1>5, <2>2, <2>3 DEF QuotaInv, w
    <2> QED
      BY <1>2, <1>3, <1>4, <1>5, <2>1, <2>3, <2>4, QuotaStep
  <1>7. CASE ~charged
    <2> DEFINE p == [q EXCEPT !.pc = "call", !.cmd = AfterPiece(q.cmd, q.sent)]
    <2>1. /\ Becomes(r, p, state[r], net[r])
          /\ throttle' \in {throttle, [throttle EXCEPT !.uncharged = @ + 1, !.level = @ + 1]}
      <3> DEFINE d == [m EXCEPT !.pc = "call", !.cmd = AfterPiece(m.cmd, sent)]
      <3>1. /\ req' = [req EXCEPT ![r] = d]
            /\ throttle' \in {throttle, [throttle EXCEPT !.uncharged = @ + 1, !.level = @ + 1]}
        BY <1>7, <1>9
      <3>2. d = p
        BY <1>2, <1>4, <1>8 DEF Requests, m
      <3> HIDE DEF d, p
      <3> QED
        BY <1>1, <1>5, <3>1, <3>2 DEF TypeOK, Becomes
    <2> HIDE DEF q
    <2>2. Fits(scope, p, state[r], net[r])
      BY <1>2, <1>3, <1>4, GoOnOK DEF AfterPiece
    <2>3. /\ p.session = req[r].session /\ p.pc = "call"
          /\ HoldsSession(p) <=> HoldsSession(req[r])
      BY <1>2, <1>4 DEF Requests, HoldsSession
    <2> HIDE DEF p
    <2>4. throttle' \in Throttles /\ Paid(throttle', w)
      BY <1>0, <2>1, UnchargedOK
    <2>5. QuotaInv'
      <3>1. Throttled' = Throttled
        BY <1>1, <1>2, <2>1, <2>3, ThrottledKeep
      <3> QED
        BY <2>4, <3>1 DEF QuotaInv
    <2> QED
      BY <1>2, <1>5, <2>1, <2>2, <2>3, <2>4, <2>5, QuotaStep
  <1> QED
    BY <1>6, <1>7

LEMMA WaitThrottleKeeps ==
    ASSUME ConnectionInv, NEW r \in Threads, WaitThrottle(r)
    PROVE  ConnectionInv'
  <1>1. TypeOK /\ ThreadsOK /\ QuotaInv
    BY DEF ConnectionInv
  <1>2. /\ Fits(scope, req[r], state[r], net[r])
        /\ scope.body \in Nat /\ scope.response \in Nat
        /\ req[r] \in Requests /\ req[r].pc = "throttle"
        /\ r \in scope.threads
    BY <1>1, ThreadFits DEF WaitThrottle
  <1> DEFINE q == [req[r] EXCEPT !.pc = "call", !.cmd = AfterPiece(req[r].cmd, req[r].sent)]
  <1>3. Becomes(r, q, state[r], net[r]) /\ UNCHANGED <<SessionMap, settings, invalidated, setter, throttle>>
    BY <1>1 DEF TypeOK, Becomes, WaitThrottle, Continue
  <1>4. Fits(scope, q, state[r], net[r])
    BY <1>2, GoOnOK DEF AfterPiece
  <1>5. /\ q.session = req[r].session /\ q.pc = "call"
        /\ HoldsSession(q) <=> HoldsSession(req[r])
    BY <1>2 DEF Requests, HoldsSession
  <1> HIDE DEF q
  <1>7. QuotaInv'
    <2> DEFINE w == Cardinality(Throttled)
    <2>1. throttle \in Throttles /\ w \in Nat /\ Paid(throttle, w)
      BY <1>1, ThrottledFacts, ScopeFacts DEF TypeOK, QuotaInv
    <2>2. w' = w - 1 /\ w - 1 \in Nat
      BY <1>1, <1>2, <1>3, <1>5, OneLessThrottled
    <2> HIDE DEF w
    <2>3. Paid(throttle, w - 1)
      BY <2>1, <2>2, AbortedOK DEF WaitThrottle, GoesOn
    <2> QED
      BY <1>3, <2>2, <2>3 DEF QuotaInv, Becomes, w
  <1>8. throttle' \in Throttles
    BY <1>1, <1>3 DEF TypeOK
  <1> QED
    BY <1>2, <1>3, <1>4, <1>5, <1>7, <1>8, QuotaStep

LEMMA AbortedThrottleKeeps ==
    ASSUME ConnectionInv, NEW r \in Threads, TestAbort(r), req[r].pc = "throttle"
    PROVE  ConnectionInv'
  <1>1. TypeOK /\ ThreadsOK /\ QuotaInv
    BY DEF ConnectionInv
  <1>2. /\ Fits(scope, req[r], state[r], net[r])
        /\ scope.body \in Nat /\ scope.response \in Nat
        /\ req[r] \in Requests /\ state[r] \in States
        /\ r \in scope.threads
    BY <1>1, ThreadFits
  <1> DEFINE q == [req[r] EXCEPT !.pc = "close", !.Error = "aborted"]
  <1>3. Becomes(r, q, state[r], net[r]) /\ UNCHANGED <<SessionMap, settings, invalidated, setter>>
    BY <1>1 DEF TypeOK, Becomes, TestAbort, Throw
  <1>4. Fits(scope, q, state[r], net[r])
    BY <1>2, ThrowOK
  <1>5. /\ q.session = req[r].session /\ q.pc = "close"
        /\ HoldsSession(q) <=> HoldsSession(req[r])
    BY <1>2 DEF Requests, HoldsSession
  <1> HIDE DEF q
  <1> DEFINE w == Cardinality(Throttled)
  <1>6. throttle \in Throttles /\ w \in Nat /\ Paid(throttle, w)
    BY <1>1, ThrottledFacts, ScopeFacts DEF TypeOK, QuotaInv
  <1>7. w' = w - 1 /\ w - 1 \in Nat
    BY <1>1, <1>3, <1>5, OneLessThrottled
  <1> HIDE DEF w
  <1>8. throttle' \in Throttles /\ Paid(throttle', w - 1)
    BY <1>6, <1>7, AbortedOK DEF TestAbort, GoesOn
  <1>9. QuotaInv'
    BY <1>3, <1>7, <1>8 DEF QuotaInv, Becomes, w
  <1> QED
    BY <1>2, <1>3, <1>4, <1>5, <1>8, <1>9, QuotaStep

(* The setters of the throttle and its timer.                              *)
LEMMA ThrottleStep ==
    ASSUME ConnectionInv, UNCHANGED <<scope, req, state, net, SessionMap, settings, invalidated>>,
           setter' \in {"idle", "kill timer", "clear map", setter},
           setter = "kill sessions" => setter' = setter,
           throttle' \in Throttles,
           QuotaInv'
    PROVE  ConnectionInv'
  <1> USE DEF ConnectionInv
  <1>1. TypeOK'
    BY DEF TypeOK
  <1>2. ThreadsOK'
    BY DEF ThreadsOK
  <1>3. SessionsHeld'
    BY DEF SessionsHeld
  <1>4. SettingsTakeHold'
    BY DEF SettingsTakeHold
  <1> QED
    BY <1>1, <1>2, <1>3, <1>4

LEMMA SetThrottleKeeps ==
    ASSUME ConnectionInv, SetThrottle
    PROVE  ConnectionInv'
  <1>1. /\ throttle \in Throttles /\ scope.Rate \in Nat
        /\ Cardinality(Throttled) \in Nat /\ TypeOK
    BY ThrottledFacts, ScopeFacts DEF TypeOK, ConnectionInv
  <1>2. throttle' = [on |-> TRUE, iBytesCurInterval |-> scope.Rate,
                     timer |-> IF throttle.timer = "off" THEN "new" ELSE throttle.timer,
                     level |-> 0, calls |-> throttle.calls + 1,
                     aborted |-> 0, uncharged |-> 0, most |-> scope.Rate]
    BY DEF SetThrottle
  <1>3. throttle.calls + 1 \in Nat
    BY <1>1 DEF Throttles
  <1>4. throttle' \in Throttles /\ Paid(throttle', Cardinality(Throttled))
    BY <1>1, <1>2, <1>3 DEF Throttles, Paid
  <1>5. UNCHANGED <<scope, req, state, net, SessionMap, settings, invalidated, setter>>
    BY DEF SetThrottle
  <1>6. QuotaInv'
    BY <1>4, <1>5 DEF QuotaInv, Throttled
  <1> QED
    BY <1>4, <1>5, <1>6, ThrottleStep

(* The throttle is removed, or loses its timer: the quota is not touched.  *)
LEMMA RemovedThrottleKeeps ==
    ASSUME ConnectionInv, RemoveThrottle \/ KillTimer \/ TerminateThrottle
    PROVE  ConnectionInv'
  <1>1. throttle \in Throttles /\ Paid(throttle, Cardinality(Throttled))
    BY DEF TypeOK, ConnectionInv, QuotaInv
  <1>2. /\ UNCHANGED <<scope, req, state, net, SessionMap, settings, invalidated>>
        /\ setter # "kill sessions" /\ setter' \in {"idle", "kill timer", "clear map"}
        /\ \/ throttle' = [throttle EXCEPT !.on = FALSE]
           \/ throttle' = [throttle EXCEPT !.timer = "off"]
    BY DEF RemoveThrottle, KillTimer, TerminateThrottle, ClearThrottleMap
  <1>3. throttle' \in Throttles /\ Paid(throttle', Cardinality(Throttled))
    BY <1>1, <1>2 DEF Throttles, Paid
  <1>4. QuotaInv'
    BY <1>2, <1>3 DEF QuotaInv, Throttled
  <1> QED
    BY <1>2, <1>3, <1>4, ThrottleStep

LEMMA TimerKeeps ==
    ASSUME ConnectionInv, TimerDoWork
    PROVE  ConnectionInv'
  <1>1. PICK elapsed \in 1 .. (IF throttle.timer = "new" THEN 1 ELSE scope.late) :
          LET granted == elapsed * scope.Rate IN
          throttle' = [throttle EXCEPT
            !.timer = "on",
            !.iBytesCurInterval = IF throttle.on THEN Refilled(@, granted) ELSE @,
            !.level = IF @ > granted THEN @ - granted ELSE 0,
            !.most = IF @ > granted THEN @ ELSE granted]
    BY DEF TimerDoWork
  <1> DEFINE g == elapsed * scope.Rate
             w == Cardinality(Throttled)
             i == IF throttle.on THEN AtMost(throttle.iBytesCurInterval + g, g)
                  ELSE throttle.iBytesCurInterval
             l == IF throttle.level > g THEN throttle.level - g ELSE 0
             m == IF throttle.most > g THEN throttle.most ELSE g
  <1>2. /\ throttle \in Throttles /\ w \in Nat /\ Paid(throttle, w)
    BY ThrottledFacts DEF TypeOK, ConnectionInv, QuotaInv
  <1>3. g \in Nat
    <2>1. elapsed \in Nat /\ scope.Rate \in Nat
      BY ScopeFacts DEF ConnectionInv
    <2> QED
      BY ONLY <2>1
  <1>4. throttle' = [throttle EXCEPT !.timer = "on", !.iBytesCurInterval = i, !.level = l, !.most = m]
    BY <1>1 DEF Refilled
  <1> HIDE DEF g
  <1>5. throttle' \in Throttles /\ Paid(throttle', w)
    <2>1. throttle.iBytesCurInterval \in Int /\ throttle.level \in Nat /\ throttle.most \in Nat
      BY <1>2 DEF Throttles
    <2>2. i \in Int /\ l \in Int /\ m \in Int
      BY <1>3, <2>1 DEF AtMost
    <2> QED
      BY <1>2, <1>3, <1>4, <2>2, RefilledOK
  <1> HIDE DEF i, l, m
  <1>6. UNCHANGED <<scope, req, state, net, SessionMap, settings, invalidated, setter>>
    BY DEF TimerDoWork
  <1>7. QuotaInv'
    BY <1>5, <1>6 DEF QuotaInv, Throttled
  <1> QED
    BY <1>5, <1>6, <1>7, ThrottleStep
-----------------------------------------------------------------------------
LEMMA InitConnectionInv == Init => ConnectionInv
  <1> SUFFICES ASSUME Init PROVE ConnectionInv
    OBVIOUS
  <1> USE DEF Init
  <1>1. NoRequest \in Requests /\ NoState \in States /\ NoHandle \in Handles
    BY DEF NoRequest, NoState, NoHandle, Requests, States, Handles
  <1>2. throttle \in Throttles
    BY DEF Throttles, NoThrottle
  <1>3. TypeOK
    BY <1>1, <1>2 DEF TypeOK
  <1>4. ThreadsOK
    BY DEF ThreadsOK, ThreadOK, Referenced, HandleAt, OneCommand, PiecesAgree, Succeeded,
           NoRequest, NoState, NoHandle
  <1>5. SessionsHeld /\ SettingsTakeHold
    BY DEF SessionsHeld, HoldsSession, SettingsTakeHold, NoRequest
  <1>6. QuotaInv
    BY DEF QuotaInv, Paid, NoThrottle
  <1> QED
    BY <1>3, <1>4, <1>5, <1>6 DEF ConnectionInv

LEMMA StepKeeps ==
    ASSUME ConnectionInv, NEW r \in Threads, Step(r)
    PROVE  ConnectionInv'
  <1>1. TestAbort(r) => ConnectionInv'
    BY AbortedWaitKeeps, AbortedThrottleKeeps DEF TestAbort
  <1> QED
    BY <1>1, AllocSessionKeeps, InitSessionKeeps, OpenRequestKeeps, IssueKeeps,
       WaitCompleteKeeps, AfterSendKeeps, MovedKeeps, WaitThrottleKeeps, HeadersKeeps,
       AvailableKeeps, CloseRequestKeeps, ReleaseSessionKeeps, ReturnKeeps
       DEF Step

LEMMA CallbackKeeps ==
    ASSUME ConnectionInv, NEW r \in Threads, Callback(r)
    PROVE  ConnectionInv'
  BY CommandDoneKeeps, HeadersDoneKeeps, CommandFailsKeeps, HandleClosingKeeps,
     CallbackExitKeeps DEF Callback

LEMMA SetterKeeps ==
    ASSUME ConnectionInv, Setter
    PROVE  ConnectionInv'
  BY ChangeSettingKeeps, InvalidateSessionsKeeps, SetThrottleKeeps, RemovedThrottleKeeps
     DEF Setter

LEMMA ConnectionNextKeeps == ConnectionInv /\ [Next]_vars => ConnectionInv'
  <1> SUFFICES ASSUME ConnectionInv, [Next]_vars
               PROVE  ConnectionInv'
    OBVIOUS
  <1>1. CASE Next
    BY <1>1, StepKeeps, WaitTimeoutKeeps, SetAbortKeeps, CallbackKeeps, BeginKeeps,
       RemoveStateKeeps, RemoveSessionKeeps, TimerKeeps, SetterKeeps DEF Next
  <1>2. CASE UNCHANGED vars
    <2> USE <1>2 DEF vars, ConnectionInv
    <2>1. TypeOK'
      BY DEF TypeOK
    <2>2. ThreadsOK'
      BY DEF ThreadsOK
    <2>3. SessionsHeld' /\ SettingsTakeHold'
      BY DEF SessionsHeld, SettingsTakeHold
    <2>4. QuotaInv'
      BY DEF QuotaInv, Throttled
    <2> QED
      BY <2>1, <2>2, <2>3, <2>4
  <1> QED
    BY <1>1, <1>2

(* The invariant of SendRequestInternal, the sessions and the throttle     *)
(* holds in every state, for every system the assumption allows.           *)
THEOREM ConnectionInductive == Spec => []ConnectionInv
  BY InitConnectionInv, ConnectionNextKeeps, PTL DEF Spec

(* The connection's variables always have their types: in particular the   *)
(* pool never runs out of keys, and no callback counts below zero.         *)
THEOREM ConnectionTypeCorrect == Spec => []TypeOK
  <1>1. ConnectionInv => TypeOK
    BY DEF ConnectionInv
  <1> QED
    BY <1>1, ConnectionInductive, PTL

(* WaitForCallbackDone and CStateRef: no callback of WinHTTP runs in a     *)
(* context that GarbageCollect has deleted, unless the request gave up its *)
(* wait for HANDLE_CLOSING; and AllocSession never gives a session to two  *)
(* requests.                                                               *)
THEOREM ContextAliveHolds == Spec => []ContextAlive
  <1>1. ConnectionInv => ContextAlive
    <2> SUFFICES ASSUME ConnectionInv PROVE ContextAlive
      OBVIOUS
    <2>1. ASSUME NEW r \in Threads, ~state[r].alive, net[r].hRequest \notin {"abandoned", "late"}
          PROVE  net[r].hRequest = "none" /\ ~net[r].inside
      BY <2>1 DEF ConnectionInv, ThreadsOK, ThreadOK, Referenced, HandleAt
    <2>2. ASSUME NEW r \in Threads, req[r].session # 0
          PROVE  /\ req[r].session \in DOMAIN SessionMap
                 /\ SessionMap[req[r].session].bInUse
                 /\ \A q \in Threads \ {r} : req[q].session # req[r].session
      BY <2>2 DEF ConnectionInv, SessionsHeld
    <2> QED
      BY <2>1, <2>2 DEF ContextAlive
  <1> QED
    BY <1>1, ConnectionInductive, PTL

(* SendRequestInternal never issues a command while another is pending,    *)
(* and a request that succeeds has sent its whole body on the attempt that *)
(* was answered and read the whole response, whatever was sent again.      *)
THEOREM AnswerIsWholeHolds == Spec => []AnswerIsWhole
  <1>1. ConnectionInv => AnswerIsWhole
    BY DEF ConnectionInv, ThreadsOK, ThreadOK, OneCommand, Succeeded, AnswerIsWhole
  <1> QED
    BY <1>1, ConnectionInductive, PTL

(* KillHostSessions and ReleaseSession: once a setter that invalidates the *)
(* sessions has returned, no request gets a session that was opened with   *)
(* the settings of before.                                                 *)
THEOREM SettingsTakeHoldHolds == Spec => []SettingsTakeHold
  <1>1. ConnectionInv => SettingsTakeHold
    BY DEF ConnectionInv
  <1> QED
    BY <1>1, ConnectionInductive, PTL

(* The throttle: what its requests are charged for exceeds the rate by     *)
(* what the timer thread granted at once, a piece for each thread and one  *)
(* for each request aborted in debt, whatever the rate, the number of      *)
(* threads and the delays of the timer thread.                             *)
THEOREM ThrottleHoldsHolds == Spec => []ThrottleHolds
  <1>1. ConnectionInv => ThrottleHolds
    <2> SUFFICES ASSUME ConnectionInv, throttle.on
                 PROVE  throttle.level <= throttle.most + Cardinality(scope.threads)
                                            + throttle.aborted + throttle.uncharged
      BY DEF ThrottleHolds
    <2> DEFINE w == Cardinality(Throttled)
               m == Cardinality(scope.threads)
    <2>1. TypeOK /\ ThreadsOK /\ QuotaInv
      BY DEF ConnectionInv
    <2>2. w \in Nat /\ m \in Nat /\ w <= m
      BY <2>1, ThrottledFacts
    <2>3. /\ throttle.level \in Nat /\ throttle.aborted \in Nat
          /\ throttle.most \in Nat /\ throttle.uncharged \in Nat
          /\ throttle.iBytesCurInterval \in Int
      BY <2>1 DEF TypeOK, Throttles
    <2>4. /\ throttle.level + throttle.iBytesCurInterval <= throttle.most + throttle.uncharged
          /\ throttle.iBytesCurInterval + w + throttle.aborted >= 0
      BY <2>1 DEF QuotaInv, Paid
    <2> HIDE DEF w, m
    <2>5. throttle.level <= throttle.most + m + throttle.aborted + throttle.uncharged
      BY <2>2, <2>3, <2>4
    <2> QED
      BY <2>5 DEF m
  <1> QED
    BY <1>1, ConnectionInductive, PTL

=============================================================================
