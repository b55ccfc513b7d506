----------------------------- MODULE Connection -----------------------------
(***************************************************************************)
(* What lies under a request of CECSConnection (ECSConnection.cpp):        *)
(* SendRequestInternal drives WinHTTP in asynchronous mode, one command    *)
(* after the other, and a callback thread of WinHTTP answers through a     *)
(* context that is part of the state the connection keeps for each of its  *)
(* threads.  The requests share the map of pooled sessions, which setters  *)
(* of the connection invalidate, and the quota of the throttle, which a    *)
(* timer thread refills.                                                   *)
(*                                                                         *)
(* A block that holds csContext, csSessionMap or csThrottleMap is one      *)
(* step.  Bodies are counted in pieces: what one WinHTTP call moves.       *)
(* Time is counted in cycles of the timer thread.                          *)
(***************************************************************************)
EXTENDS Integers, FiniteSets

CONSTANT Scopes            \* the bounds, one record for each kind of system

(* threads: those that send requests with the connection, rounds: how many *)
(* each of them, body and response: the pieces of a request and of its     *)
(* response, tail: 0 if the body is a buffer, and if it is a stream how    *)
(* many of its last pieces come after the last entry was taken (one, with  *)
(* the chunks of signature version 4 up to three), statuses: the answers   *)
(* of the server, faults: what can go wrong, changes: calls of setters (of *)
(* SetThrottle if there is a Rate), Rate: the throttle in pieces for each  *)
(* cycle, for the one direction in which there is a body, late: the most   *)
(* cycles that may pass before the timer thread runs.  prompt: callbacks   *)
(* come before anything else happens, where their timing is left to other  *)
(* systems.                                                                *)
Faults == {"setup", "call", "error", "resend", "timeout", "closing", "abort"}
Statuses == {"2xx", "4xx", "auth"}

Threads == UNION {s.threads : s \in Scopes}

ASSUME ConnectionAssumption ==
    /\ IsFiniteSet(Threads)
    /\ \A s \in Scopes :
        /\ s.rounds \in [s.threads -> Nat]
        /\ s.body \in Nat /\ s.response \in Nat
        /\ s.tail \in 0 .. s.body /\ s.late \in Nat \ {0}
        /\ s.changes \in Nat /\ s.Rate \in Nat /\ s.prompt \in BOOLEAN
        /\ s.Rate > 0 => s.body = 0 \/ s.response = 0
        /\ s.statuses \subseteq Statuses /\ s.faults \subseteq Faults

VARIABLES scope,           \* the element of Scopes this behaviour is about
          req,             \* the requests, by thread
          state,           \* StateMap: CallbackContext, of each thread
          net,             \* WinHTTP: the request handle of each thread
          SessionMap,
          settings,        \* how often a setter changed the connection
          invalidated,     \* settings, of the last change that ends the sessions
          setter,          \* the thread that calls the setters
          throttle         \* ThrottleMap and TimerThread

vars == <<scope, req, state, net, SessionMap, settings, invalidated, setter, throttle>>

(* The commands: the callback that WaitComplete expects has the same name. *)
Commands == {"send", "write", "headers", "available", "read", "closing"}

NoState == [alive |-> FALSE, CallbacksReceived |-> {}, bFailed |-> FALSE,
            Result |-> "none", evCmd |-> FALSE, lExitFlag |-> 0, refs |-> 0]

NoHandle == [hRequest |-> "none", op |-> "none", inside |-> FALSE,
             server |-> 0, status |-> "none", left |-> 0]

NoRequest == [pc |-> "idle", cmd |-> "none", sent |-> 0, rcvd |-> 0, iRetryAuth |-> 0,
              throttled |-> FALSE, session |-> 0, Error |-> "none", abort |-> FALSE,
              resends |-> 0, round |-> 0]

(* Session keys: one for each thread, and one that nobody uses.            *)
Keys == 1 .. Cardinality(Threads) + 1

NoSession == [bInUse |-> FALSE, bKillWhenDone |-> FALSE, opened |-> -1]

Requests ==
    [pc : {"idle", "alloc", "init", "open", "call", "wait", "next", "throttle",
           "close", "release", "exit"},
     cmd : Commands \cup {"none"}, sent : Nat, rcvd : Nat, iRetryAuth : 0 .. 2,
     throttled : BOOLEAN, session : Keys \cup {0}, abort : BOOLEAN,
     Error : {"none", "ok", "http", "setup", "error", "resend", "aborted", "timeout"},
     resends : Nat, round : Nat]

States ==
    [alive : BOOLEAN, CallbacksReceived : SUBSET (Commands \cup {"error"}),
     bFailed : BOOLEAN, Result : {"none", "error", "resend"}, evCmd : BOOLEAN,
     lExitFlag : {0, 1}, refs : {0, 1}]

Handles ==
    [hRequest : {"none", "open", "closing", "abandoned", "late"}, op : Commands \cup {"none"},
     inside : BOOLEAN, server : Nat, status : Statuses \cup {"none"}, left : Nat]

Sessions == [bInUse : BOOLEAN, bKillWhenDone : BOOLEAN, opened : Nat \cup {-1}]

Throttles == [on : BOOLEAN, iBytesCurInterval : Int, timer : {"off", "new", "on"},
              level : Nat, calls : Nat, aborted : Nat, uncharged : Nat, most : Nat]

NoThrottle == [on |-> FALSE, iBytesCurInterval |-> 0, timer |-> "off",
               level |-> 0, calls |-> 0, aborted |-> 0, uncharged |-> 0, most |-> 0]

TypeOK ==
    /\ scope \in Scopes
    /\ req \in [Threads -> Requests]
    /\ state \in [Threads -> States]
    /\ net \in [Threads -> Handles]
    /\ DOMAIN SessionMap \subseteq Keys
    /\ SessionMap \in [DOMAIN SessionMap -> Sessions]
    /\ {settings, invalidated} \subseteq Nat
    /\ setter \in {"idle", "kill sessions", "kill timer", "clear map"}
    /\ throttle \in Throttles

Init ==
    /\ scope \in Scopes
    /\ req = [r \in Threads |-> NoRequest]
    /\ state = [r \in Threads |-> NoState]
    /\ net = [r \in Threads |-> NoHandle]
    /\ SessionMap = [k \in {} |-> NoSession]
    /\ settings = 0 /\ invalidated = 0
    /\ setter = "idle"
    /\ throttle = NoThrottle

May(fault) == fault \in scope.faults

To(r, pc) == req' = [req EXCEPT ![r].pc = pc]

-----------------------------------------------------------------------------
(* WinHTTP, as SendRequestInternal uses it: one command at a time, whose   *)
(* callback may come at any time.  The callbacks of a handle do not        *)
(* overlap, a command that is pending when the handle is closed completes  *)
(* or fails first, and HANDLE_CLOSING is the last.                         *)

(* HttpStatusCallback up to the end of its lock on csContext.  (What it    *)
(* does in a context that has been deleted is undefined: it has no step.)  *)
HttpStatusCallback(r, status, result) ==
    /\ state[r].alive
    /\ state' = [state EXCEPT
         ![r].lExitFlag = 0, ![r].evCmd = TRUE,
         ![r].CallbacksReceived = @ \cup {status},
         ![r].bFailed = @ \/ status = "error",
         ![r].Result = IF status = "error" THEN result ELSE @]
    /\ UNCHANGED <<scope, req, SessionMap, settings, invalidated, setter, throttle>>

(* HttpStatusCallback after the lock: now the context may be deleted.      *)
CallbackExit(r) ==
    /\ net[r].inside /\ state[r].alive
    /\ net' = [net EXCEPT ![r].inside = FALSE,
                          ![r].hRequest = IF @ = "late" THEN "none" ELSE @]
    /\ state' = [state EXCEPT ![r].lExitFlag = 1]
    /\ UNCHANGED <<scope, req, SessionMap, settings, invalidated, setter, throttle>>

Pending(r) == net[r].op # "none" /\ ~net[r].inside

IfStream == scope.tail > 0

(* The first piece of a buffer goes with the headers, unless a throttle    *)
(* is to control it.                                                       *)
FirstPieces(r) == IF scope.body > 0 /\ ~IfStream /\ ~req[r].throttled THEN 1 ELSE 0

Done(r) == [net[r] EXCEPT !.op = "none", !.inside = TRUE]

CommandDone(r) ==
    /\ Pending(r)
    /\ \/ /\ net[r].op = "send"
          /\ net' = [net EXCEPT ![r] = [Done(r) EXCEPT !.server = FirstPieces(r)]]
       \/ /\ net[r].op = "write"
          /\ net' = [net EXCEPT ![r] = [Done(r) EXCEPT !.server = @ + 1]]
       \/ /\ net[r].op = "headers"
          /\ \E status \in scope.statuses :
               net' = [net EXCEPT ![r] = [Done(r) EXCEPT
                         !.status = status, !.left = scope.response]]
       \/ /\ net[r].op = "available"
          /\ net' = [net EXCEPT ![r] = Done(r)]
       \/ /\ net[r].op = "read"
          /\ net' = [net EXCEPT ![r] = [Done(r) EXCEPT !.left = @ - 1]]
    /\ HttpStatusCallback(r, net[r].op, "none")

(* A closed handle cancels the command.                                    *)
CommandFails(r, result) ==
    /\ Pending(r)
    /\ \/ result = "error" /\ (May("error") \/ net[r].hRequest # "open")
       \/ /\ result = "resend" /\ May("resend")
          /\ net[r].op = "send" /\ net[r].hRequest = "open" /\ req[r].resends = 0
    /\ net' = [net EXCEPT ![r] = Done(r)]
    /\ HttpStatusCallback(r, "error", result)

(* The last callback of a handle, which nobody may be waiting for any more.*)
HandleClosing(r) ==
    /\ net[r].hRequest \in {"closing", "abandoned"} /\ net[r].op = "none" /\ ~net[r].inside
    /\ net' = [net EXCEPT ![r].hRequest = IF @ = "closing" THEN "none" ELSE "late",
                          ![r].inside = TRUE]
    /\ HttpStatusCallback(r, "closing", "none")

-----------------------------------------------------------------------------
(* The state of a thread.                                                  *)

(* GetStateBuf and CStateRef: the entry of the thread, a new one if there  *)
(* is none, with a reference until the request returns.  (Bound: a thread  *)
(* whose last handle still owes callbacks sends no other request.)         *)
Begin(r) ==
    /\ req[r].pc = "idle" /\ r \in scope.threads /\ req[r].round < scope.rounds[r]
    /\ net[r].hRequest = "none"
    /\ req' = [req EXCEPT ![r] = [NoRequest EXCEPT !.pc = "alloc", !.round = req[r].round + 1]]
    /\ state' = [state EXCEPT ![r] = [IF @.alive THEN @ ELSE [NoState EXCEPT !.alive = TRUE]
                                      EXCEPT !.refs = 1]]
    /\ UNCHANGED <<scope, net, SessionMap, settings, invalidated, setter, throttle>>

(* GarbageCollect, for an entry that was not used for two minutes, and     *)
(* the destructor of the connection.                                       *)
RemoveState(r) ==
    /\ state[r].alive /\ state[r].refs = 0
    /\ state' = [state EXCEPT ![r] = NoState]
    /\ UNCHANGED <<scope, req, net, SessionMap, settings, invalidated, setter, throttle>>

PrepareCmd(s) ==
    [s EXCEPT !.evCmd = FALSE, !.CallbacksReceived = {}, !.bFailed = FALSE, !.Result = "none"]

-----------------------------------------------------------------------------
(* The sessions.                                                           *)

Without(map, keys) == [k \in DOMAIN map \ keys |-> map[k]]

(* AllocSession: an idle session of the pool, or a new one.                *)
Claimed(r) ==
    LET idle == {k \in DOMAIN SessionMap : ~SessionMap[k].bInUse}
    IN IF idle # {} THEN idle
       ELSE {CHOOSE k \in Keys : k \notin DOMAIN SessionMap}

AllocSession(r) ==
    /\ req[r].pc = "alloc"
    /\ \E k \in Claimed(r) :
         /\ SessionMap' = [j \in DOMAIN SessionMap \cup {k} |->
                             IF j # k THEN SessionMap[j]
                             ELSE [IF k \in DOMAIN SessionMap THEN SessionMap[k] ELSE NoSession
                                   EXCEPT !.bInUse = TRUE]]
         /\ req' = [req EXCEPT ![r].session = k, ![r].pc = "init"]
    /\ UNCHANGED <<scope, state, net, settings, invalidated, setter, throttle>>

Throw(r, error) ==
    req' = [req EXCEPT ![r].pc = "close", ![r].Error = error]

(* InitSession: WinHttpOpen and WinHttpConnect with the settings of now,   *)
(* unless the session is open.                                             *)
InitSession(r) ==
    /\ req[r].pc = "init"
    /\ IF SessionMap[req[r].session].opened = -1
       THEN \/ /\ SessionMap' = [SessionMap EXCEPT ![req[r].session].opened = settings]
               /\ To(r, "open")
            \/ /\ May("setup")
               /\ Throw(r, "setup")
               /\ UNCHANGED SessionMap
       ELSE To(r, "open") /\ UNCHANGED SessionMap
    /\ UNCHANGED <<scope, state, net, settings, invalidated, setter, throttle>>

(* WinHttpOpenRequest and the options of the handle; IfThrottle.  A        *)
(* failure before bCallbackRegistered is set leaves nothing that calls     *)
(* back, a later one leaves an open handle to the catch block.             *)
OpenRequest(r) ==
    /\ req[r].pc = "open"
    /\ \/ /\ net' = [net EXCEPT ![r] = [NoHandle EXCEPT !.hRequest = "open"]]
          /\ req' = [req EXCEPT ![r].pc = "call", ![r].cmd = "send",
                                ![r].throttled = throttle.on]
       \/ /\ May("setup")
          /\ Throw(r, "setup")
          /\ \/ UNCHANGED net
             \/ net' = [net EXCEPT ![r] = [NoHandle EXCEPT !.hRequest = "open"]]
    /\ UNCHANGED <<scope, state, SessionMap, settings, invalidated, setter, throttle>>

(* Seeded fault: a request always gives its session back to the pool.      *)
ReleasedKept(k) == [SessionMap EXCEPT ![k].bInUse = FALSE]

(* ReleaseSession: an invalidated session is erased.                       *)
Released(k) ==
    IF k \notin DOMAIN SessionMap THEN SessionMap
    ELSE IF SessionMap[k].bKillWhenDone THEN Without(SessionMap, {k})
    ELSE [SessionMap EXCEPT ![k].bInUse = FALSE]

(* KillHostSessions: the sessions of all hosts.                            *)
KillHostSessions ==
    LET used == {k \in DOMAIN SessionMap : SessionMap[k].bInUse}
    IN [k \in used |-> [SessionMap[k] EXCEPT !.bKillWhenDone = TRUE]]

(* SetSecret, SetUser, SetHost, SetIPList, SetSSL, SetPort, SetProxy: the  *)
(* member is assigned before the sessions are invalidated.                 *)
ChangeSetting ==
    /\ setter = "idle" /\ settings < scope.changes /\ scope.Rate = 0
    /\ settings' = settings + 1 /\ invalidated' = settings + 1
    /\ setter' = "kill sessions"
    /\ UNCHANGED <<scope, req, state, net, SessionMap, throttle>>

(* SetUserAgent, SetHttpsProtocol, SetGlobalHttpsProtocol: InitSession     *)
(* uses what they set, and the sessions that are open stay as they are.    *)
ChangeForNewSessions ==
    /\ setter = "idle" /\ settings < scope.changes /\ scope.Rate = 0
    /\ settings' = settings + 1
    /\ UNCHANGED <<scope, req, state, net, SessionMap, invalidated, setter, throttle>>

InvalidateSessions ==
    /\ setter = "kill sessions"
    /\ SessionMap' = KillHostSessions
    /\ setter' = "idle"
    /\ UNCHANGED <<scope, req, state, net, settings, invalidated, throttle>>

(* GarbageCollect, for a session that was idle for an hour.                *)
RemoveSession(k) ==
    /\ ~SessionMap[k].bInUse
    /\ SessionMap' = Without(SessionMap, {k})
    /\ UNCHANGED <<scope, req, state, net, settings, invalidated, setter, throttle>>

-----------------------------------------------------------------------------
(* The commands of SendRequestInternal.                                    *)

Continue(r, cmd) == req' = [req EXCEPT ![r].pc = "call", ![r].cmd = cmd]

(* A command is issued, or refused.  (WinHttpSendRequest that is refused   *)
(* with ERROR_WINHTTP_RESEND_REQUEST is issued again at once.)             *)
Issue(r) ==
    /\ req[r].pc = "call"
    /\ state' = [state EXCEPT ![r] = PrepareCmd(@)]
    /\ \/ /\ net' = [net EXCEPT ![r].op = req[r].cmd]
          /\ To(r, "wait")
       \/ /\ May("call")
          /\ Throw(r, "error")
          /\ UNCHANGED net
    /\ UNCHANGED <<scope, SessionMap, settings, invalidated, setter, throttle>>

GotIt(r) == req[r].cmd \in state[r].CallbacksReceived

(* The callback ends a wait for its command, a failure every wait but the  *)
(* one for HANDLE_CLOSING.                                                 *)
WaitEnds(r) == GotIt(r) \/ (state[r].bFailed /\ req[r].cmd # "closing")

(* Seeded fault: what was sent before the request has to be sent again     *)
(* still counts.                                                           *)
SendAgainCounted(r) ==
    req' = [req EXCEPT ![r].pc = "call", ![r].cmd = "send", ![r].iRetryAuth = @ + 1]

(* The next round of the loop for authorization.                           *)
SendAgain(r) ==
    req' = [req EXCEPT ![r].pc = "call", ![r].cmd = "send", ![r].iRetryAuth = @ + 1,
                       ![r].sent = 0]

(* WaitComplete, when evCmd (a manual reset event) is set.                 *)
WaitComplete(r) ==
    /\ req[r].pc = "wait" /\ state[r].evCmd
    /\ state' = [state EXCEPT ![r].CallbacksReceived = {}]
    /\ \/ /\ ~WaitEnds(r)
          /\ UNCHANGED req
       \/ /\ WaitEnds(r) /\ req[r].cmd = "closing"
          /\ To(r, "release")
       \/ /\ WaitEnds(r) /\ req[r].cmd # "closing" /\ ~state[r].bFailed
          /\ To(r, "next")
       \/ /\ WaitEnds(r) /\ req[r].cmd # "closing" /\ state[r].bFailed
          /\ IF req[r].cmd = "send" /\ state[r].Result = "resend"
             THEN req' = [req EXCEPT ![r].pc = "call", ![r].resends = @ + 1]
             ELSE Throw(r, state[r].Result)
    /\ UNCHANGED <<scope, net, SessionMap, settings, invalidated, setter, throttle>>

(* WaitComplete, when it has waited longer than the longest time-out, or   *)
(* the wait fails.  CloseRequest does not look at the result: the handle   *)
(* is left to WinHTTP with the callbacks it still owes.                    *)
WaitTimeout(r) ==
    /\ req[r].pc = "wait" /\ ~state[r].evCmd
    /\ \/ /\ req[r].cmd # "closing" /\ May("timeout")
          /\ Throw(r, "timeout")
          /\ UNCHANGED net
       \/ /\ req[r].cmd = "closing" /\ May("closing")
          /\ To(r, "release")
          /\ net' = [net EXCEPT ![r].hRequest = "abandoned"]
    /\ UNCHANGED <<scope, state, SessionMap, settings, invalidated, setter, throttle>>

(* An abort entry of the thread becomes true.                              *)
SetAbort(r) ==
    /\ May("abort") /\ req[r].pc # "idle"
    /\ req' = [req EXCEPT ![r].abort = TRUE]
    /\ UNCHANGED <<scope, state, net, SessionMap, settings, invalidated, setter, throttle>>

GoesOn == ~throttle.on \/ throttle.iBytesCurInterval >= 0

(* TestAbort, in WaitComplete and in the throttle loops.  "aborted" is not *)
(* in the code: how many requests left the loops with the quota overdrawn, *)
(* since the throttle was set.                                             *)
TestAbort(r) ==
    /\ req[r].abort
    /\ \/ /\ req[r].pc = "wait" /\ req[r].cmd # "closing"
          /\ UNCHANGED throttle
       \/ /\ req[r].pc = "throttle"
          /\ throttle' = IF GoesOn THEN throttle ELSE [throttle EXCEPT !.aborted = @ + 1]
    /\ Throw(r, "aborted")
    /\ UNCHANGED <<scope, state, net, SessionMap, settings, invalidated, setter>>

(* The command after a piece was moved.                                    *)
AfterPiece(cmd, sent) ==
    IF cmd = "read" THEN "available" ELSE IF sent < scope.body THEN "write" ELSE "headers"

(* A stream that was sent before an authorization failed has no more data: *)
(* WaitStreamSend gives up.                                                *)
AfterSend(r) ==
    /\ req[r].pc = "next" /\ req[r].cmd = "send"
    /\ IF IfStream /\ req[r].iRetryAuth > 0
       THEN Throw(r, "timeout")
       ELSE req' = [req EXCEPT
              ![r].sent = @ + FirstPieces(r), ![r].pc = "call",
              ![r].cmd = AfterPiece("send", req[r].sent + FirstPieces(r))]
    /\ UNCHANGED <<scope, state, net, SessionMap, settings, invalidated, setter, throttle>>

(* The loop over the body ends, when the last entry of a stream was taken, *)
(* before it looks at the throttle.                                        *)
IfCharged(cmd, sent) == cmd = "read" \/ sent <= scope.body - scope.tail

(* A piece was written or read: with a throttle, it is charged.  "level"   *)
(* and "uncharged" are not in the code: what was moved under the throttle  *)
(* and has not yet leaked away at its rate, and how much of what was moved *)
(* since it was set was not charged.                                       *)
Moved(r) ==
    LET sent == req[r].sent + (IF req[r].cmd = "write" THEN 1 ELSE 0)
        rcvd == req[r].rcvd + (IF req[r].cmd = "read" THEN 1 ELSE 0)
        q == [req[r] EXCEPT !.sent = sent, !.rcvd = rcvd]
    IN /\ req[r].pc = "next" /\ req[r].cmd \in {"write", "read"}
       /\ \/ /\ req[r].throttled /\ IfCharged(q.cmd, sent)
             /\ req' = [req EXCEPT ![r] = [q EXCEPT !.pc = "throttle"]]
             /\ throttle' = IF throttle.on
                            THEN [throttle EXCEPT !.iBytesCurInterval = @ - 1, !.level = @ + 1]
                            ELSE throttle
          \/ /\ ~(req[r].throttled /\ IfCharged(q.cmd, sent))
             /\ req' = [req EXCEPT ![r] = [q EXCEPT !.pc = "call", !.cmd = AfterPiece(@, sent)]]
             /\ throttle' = IF req[r].throttled /\ throttle.on
                            THEN [throttle EXCEPT !.uncharged = @ + 1, !.level = @ + 1]
                            ELSE throttle
       /\ UNCHANGED <<scope, state, net, SessionMap, settings, invalidated, setter>>

(* The loops that wait for evThrottle: it is polled every two seconds.     *)
WaitThrottle(r) ==
    /\ req[r].pc = "throttle" /\ ~req[r].abort /\ GoesOn
    /\ Continue(r, AfterPiece(req[r].cmd, req[r].sent))
    /\ UNCHANGED <<scope, state, net, SessionMap, settings, invalidated, setter, throttle>>

(* The status of the response: authorization is tried three times.         *)
Headers(r) ==
    /\ req[r].pc = "next" /\ req[r].cmd = "headers"
    /\ IF net[r].status = "auth" /\ req[r].iRetryAuth < 2
       THEN SendAgain(r)
       ELSE Continue(r, "available")
    /\ UNCHANGED <<scope, state, net, SessionMap, settings, invalidated, setter, throttle>>

(* WinHttpQueryDataAvailable: no more data ends the response.              *)
Available(r) ==
    /\ req[r].pc = "next" /\ req[r].cmd = "available"
    /\ IF net[r].left > 0 THEN Continue(r, "read")
       ELSE Throw(r, IF net[r].status = "2xx" THEN "ok" ELSE "http")
    /\ UNCHANGED <<scope, state, net, SessionMap, settings, invalidated, setter, throttle>>

(* CloseRequest, of the normal end and of the catch block.                 *)
CloseRequest(r) ==
    /\ req[r].pc = "close"
    /\ IF net[r].hRequest = "open"
       THEN /\ state' = [state EXCEPT ![r] = PrepareCmd(@)]
            /\ net' = [net EXCEPT ![r].hRequest = "closing"]
            /\ req' = [req EXCEPT ![r].pc = "wait", ![r].cmd = "closing"]
       ELSE To(r, "release") /\ UNCHANGED <<state, net>>
    /\ UNCHANGED <<scope, SessionMap, settings, invalidated, setter, throttle>>

(* The catch block sets bKillWhenDone; ReleaseSession.  An error answer    *)
(* without a body is not thrown.                                           *)
ReleaseSession(r) ==
    /\ req[r].pc = "release"
    /\ SessionMap' = IF req[r].Error = "ok" \/ (req[r].Error = "http" /\ req[r].rcvd = 0)
                     THEN Released(req[r].session)
                     ELSE Without(SessionMap, {req[r].session})
    /\ req' = [req EXCEPT ![r].pc = "exit", ![r].session = 0]
    /\ UNCHANGED <<scope, state, net, settings, invalidated, setter, throttle>>

(* Seeded fault: the request returns without looking at the flag.          *)
CallbackIsDoneAlways(r) == TRUE

(* WaitForCallbackDone: lExitFlag is polled.                               *)
CallbackIsDone(r) == state[r].lExitFlag = 1

Return(r) ==
    /\ req[r].pc = "exit" /\ CallbackIsDone(r)
    /\ To(r, "idle")
    /\ state' = [state EXCEPT ![r].refs = 0]
    /\ UNCHANGED <<scope, net, SessionMap, settings, invalidated, setter, throttle>>

-----------------------------------------------------------------------------
(* The throttle.                                                           *)

(* SetThrottle with a rate: the entry is set and the timer thread started. *)
SetThrottle ==
    /\ setter = "idle" /\ scope.Rate > 0 /\ throttle.calls < scope.changes
    /\ throttle' = [on |-> TRUE, iBytesCurInterval |-> scope.Rate,
                    timer |-> IF throttle.timer = "off" THEN "new" ELSE throttle.timer,
                    level |-> 0, calls |-> throttle.calls + 1,
                    aborted |-> 0, uncharged |-> 0, most |-> scope.Rate]
    /\ UNCHANGED <<scope, req, state, net, SessionMap, settings, invalidated, setter>>

(* SetThrottle(0, 0): the entry is erased, then the thread is killed.      *)
RemoveThrottle ==
    /\ setter = "idle" /\ throttle.on
    /\ throttle' = [throttle EXCEPT !.on = FALSE]
    /\ setter' = "kill timer"
    /\ UNCHANGED <<scope, req, state, net, SessionMap, settings, invalidated>>

KillTimer ==
    /\ setter = "kill timer"
    /\ throttle' = [throttle EXCEPT !.timer = "off"]
    /\ setter' = "idle"
    /\ UNCHANGED <<scope, req, state, net, SessionMap, settings, invalidated>>

(* Seeded fault: the map is left as it is.                                 *)
ClearThrottleMapNever(t) == t

ClearThrottleMap(t) == [t EXCEPT !.on = FALSE]

(* TerminateThrottle: the thread is killed, then the map cleared.          *)
TerminateThrottle ==
    /\ \/ /\ setter = "idle" /\ throttle.on
          /\ throttle' = [throttle EXCEPT !.timer = "off"]
          /\ setter' = "clear map"
       \/ /\ setter = "clear map"
          /\ throttle' = ClearThrottleMap(throttle)
          /\ setter' = "idle"
    /\ UNCHANGED <<scope, req, state, net, SessionMap, settings, invalidated>>

AtMost(n, max) == IF n > max THEN max ELSE n

(* Seeded fault: a new interval forgets what was sent too much.            *)
RefilledFully(quota, granted) == granted

(* A quota that is overdrawn is made up for in the next intervals.         *)
Refilled(quota, granted) == AtMost(quota + granted, granted)

(* CThrottleTimerThread::DoWork: the rate is granted for the time since    *)
(* the thread was here last, and for one cycle the first time.  "most" is  *)
(* not in the code: the most that was granted since the throttle was set.  *)
TimerDoWork ==
    /\ throttle.timer # "off"
    /\ \E elapsed \in 1 .. (IF throttle.timer = "new" THEN 1 ELSE scope.late) :
         LET granted == elapsed * scope.Rate IN
         throttle' = [throttle EXCEPT
           !.timer = "on",
           !.iBytesCurInterval = IF throttle.on THEN Refilled(@, granted) ELSE @,
           !.level = IF @ > granted THEN @ - granted ELSE 0,
           !.most = IF @ > granted THEN @ ELSE granted]
    /\ UNCHANGED <<scope, req, state, net, SessionMap, settings, invalidated, setter>>

-----------------------------------------------------------------------------
Callback(r) ==
    \/ CommandDone(r) \/ \E result \in {"error", "resend"} : CommandFails(r, result)
    \/ HandleClosing(r) \/ CallbackExit(r)

NoCallbackDue(r) ==
    \/ net[r].op = "none" /\ ~net[r].inside /\ net[r].hRequest \notin {"closing", "abandoned"}
    \/ ~state[r].alive

Settled == scope.prompt => \A r \in Threads : NoCallbackDue(r)

Step(r) ==
    /\ Settled
    /\ \/ AllocSession(r) \/ InitSession(r) \/ OpenRequest(r) \/ Issue(r)
       \/ WaitComplete(r) \/ TestAbort(r) \/ AfterSend(r) \/ Moved(r) \/ WaitThrottle(r)
       \/ Headers(r) \/ Available(r) \/ CloseRequest(r) \/ ReleaseSession(r) \/ Return(r)

Setter ==
    /\ Settled
    /\ \/ ChangeSetting \/ ChangeForNewSessions \/ InvalidateSessions
       \/ SetThrottle \/ RemoveThrottle \/ KillTimer \/ TerminateThrottle

Next ==
    \/ \E r \in Threads : Step(r) \/ WaitTimeout(r) \/ SetAbort(r) \/ Callback(r)
    \/ Settled /\ \E r \in Threads : Begin(r) \/ RemoveState(r)
    \/ Settled /\ \E k \in DOMAIN SessionMap : RemoveSession(k)
    \/ Settled /\ TimerDoWork
    \/ Setter

Spec == Init /\ [][Next]_vars

(* A request and WinHTTP go on, the timer thread runs when its cycle is    *)
(* over, and a setter that has begun ends.                                 *)
FairSpec ==
    /\ Spec
    /\ \A r \in Threads : WF_vars(Step(r)) /\ WF_vars(Callback(r))
    /\ WF_vars(Settled /\ TimerDoWork)
    /\ WF_vars(setter # "idle" /\ Setter)

-----------------------------------------------------------------------------
(* No callback runs in a context that is gone, or will: a thread leaves    *)
(* SendRequestInternal, and its state may be deleted, only when the handle *)
(* is closed and the last callback has released everything; except for a   *)
(* handle whose closing it waited for until the time-out.  And the session *)
(* of a request stays, and is its own, whatever KillHostSessions and the   *)
(* requests of other threads do.                                           *)
ContextAlive ==
    /\ \A r \in Threads : ~state[r].alive /\ net[r].hRequest \notin {"abandoned", "late"} =>
         net[r].hRequest = "none" /\ ~net[r].inside
    /\ \A r \in Threads : req[r].session # 0 =>
         /\ req[r].session \in DOMAIN SessionMap
         /\ SessionMap[req[r].session].bInUse
         /\ \A q \in Threads \ {r} : req[q].session # req[r].session

(* A command is issued only when WinHTTP has completed the one before, and *)
(* a request that succeeds has sent its whole body on the attempt that was *)
(* answered, whatever had to be sent again, and read the whole response.   *)
AnswerIsWhole ==
    \A r \in Threads :
        /\ req[r].pc = "call" => net[r].op = "none"
        /\ req[r].pc = "idle" /\ req[r].Error = "ok" =>
             net[r].server = scope.body /\ req[r].rcvd = scope.response

(* When a setter that invalidates the sessions has returned, no later      *)
(* request gets a session that was opened with the settings of before,     *)
(* whichever other settings were changed since.                            *)
SettingsTakeHold ==
    setter # "kill sessions" =>
        \A k \in DOMAIN SessionMap :
            SessionMap[k].opened # -1 /\ SessionMap[k].opened < invalidated =>
                SessionMap[k].bInUse /\ SessionMap[k].bKillWhenDone

(* The throttle: however many requests share the quota and however late    *)
(* the timer thread is, what they move exceeds the rate by no more than    *)
(* what was granted for its longest delay, a piece for each of them, and a *)
(* piece for each request that was aborted while it owed one, at any time; *)
(* not counting the last pieces of streams, which are not charged.         *)
ThrottleHolds ==
    throttle.on =>
        throttle.level <= throttle.most + Cardinality(scope.threads)
                            + throttle.aborted + throttle.uncharged

(* Every request returns, also when it is throttled while the throttle is  *)
(* removed or terminated; but not when its set-up fails in a state that no *)
(* callback has used yet.                                                  *)
NeverCalledBack(r) ==
    req[r].pc = "exit" /\ req[r].Error = "setup" /\ state[r].lExitFlag = 0

RequestReturns ==
    \A r \in Threads : req[r].pc # "idle" ~> req[r].pc = "idle" \/ NeverCalledBack(r)

=============================================================================
