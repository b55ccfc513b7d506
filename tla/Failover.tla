------------------------------ MODULE Failover ------------------------------
(***************************************************************************)
(* CECSConnection::SendRequest (ECSConnection.cpp): the attempts of a      *)
(* request, the choice of the server address for each, and the map of bad  *)
(* addresses that all requests to a host share.                            *)
(*                                                                         *)
(* A member that holds csBadIPMap throughout is one step.  An attempt is   *)
(* one step with the class of its outcome; an entry of BadIPMap may be     *)
(* found too old whenever GetNextECSIP looks.                              *)
(***************************************************************************)
EXTENDS Naturals, Sequences, Functions

CONSTANT Scopes            \* the bounds: sets of requests, lists, outcomes,
                           \* and the configured dwMaxRetryCount

(* Requests: threads with a request to the host.  IPLists: the address     *)
(* lists SetIPList is called with.  Outcomes: what attempts come back with.*)
Requests == UNION {s.requests : s \in Scopes}
IPLists == UNION {s.lists : s \in Scopes}
Outcomes == UNION {s.outcomes : s \in Scopes}

(* The outcomes of SendRequestInternal, by what SendRequest does with them:*)
(* those with bGotServerResponse ("auth" is an access key or clock that is *)
(* refused, "broken" an error after the response has begun), those that    *)
(* IfMarkIPBad selects ("reset" is ERROR_WINHTTP_CONNECTION_ERROR), and    *)
(* the others ("invalid" is ERROR_WINHTTP_INVALID_SERVER_RESPONSE,         *)
(* "unreachable" no error and no response).                                *)
Answered    == {"ok", "3xx", "4xx", "auth", "5xx", "broken"}
MarksIPBad  == {"comm", "timeout", "reset", "secure"}
AllOutcomes == Answered \cup MarksIPBad
                 \cup {"unreachable", "cancelled", "invalid", "aborted"}

ASSUME FailoverAssumption ==
    /\ Outcomes \subseteq AllOutcomes
    /\ \A s \in Scopes : s.lists # {} /\ s.dwMaxRetryCount \in Nat \ {0}
    /\ \A list \in IPLists : list \in Seq(Range(list)) /\ list # << >>

VARIABLES scope,           \* the element of Scopes this behaviour is about
          IPListHost, BadIPMap,
          LoadBal,         \* LoadBalMap[sHost], counted from 0
          dwMaxRetryCount,
          req              \* the requests

vars == <<scope, IPListHost, BadIPMap, LoadBal, dwMaxRetryCount, req>>

AllIPs == UNION {Range(list) : list \in IPLists}

NoRequest == [pc |-> "idle", list |-> << >>, iIPList |-> 0, i |-> 0, IPUsed |-> {},
              stream |-> FALSE, test |-> FALSE, Error |-> "ok", ip |-> 0,
              attempts |-> << >>, DisconnectCB |-> FALSE]

Request ==
    [pc : {"idle", "first", "all bad", "second", "send", "log", "next", "done", "failed"},
     list : IPLists \cup {<< >>}, iIPList : Nat, i : Nat, IPUsed : SUBSET AllIPs,
     stream : BOOLEAN, test : BOOLEAN, Error : Outcomes \cup {"ok", "no addresses"},
     ip : AllIPs \cup {0}, attempts : Seq(Outcomes), DisconnectCB : BOOLEAN]

TypeOK ==
    /\ scope \in Scopes
    /\ IPListHost \in scope.lists
    /\ BadIPMap \in SUBSET AllIPs
    /\ LoadBal \in Nat /\ dwMaxRetryCount \in Nat
    /\ req \in [Requests -> Request]

Init ==
    /\ scope \in Scopes
    /\ IPListHost \in scope.lists
    /\ BadIPMap = {}
    /\ LoadBal = 0
    /\ dwMaxRetryCount = scope.dwMaxRetryCount
    /\ req = [r \in Requests |-> NoRequest]

-----------------------------------------------------------------------------
(* SetIPList: requests under way keep their own copy.                      *)
SetIPList(list) ==
    /\ IPListHost' = list
    /\ UNCHANGED <<scope, BadIPMap, LoadBal, dwMaxRetryCount, req>>

(* The address of list (counted from 0) that comes k places after start.   *)
At(list, start, k) == list[((start + k) % Len(list)) + 1]

(* GetNextECSIP: forget the entries that are too old, advance the load     *)
(* balancer, and skip the addresses in BadIPMap.  The index is left where  *)
(* the search ended.                                                       *)
Start(list) == IF LoadBal + 1 >= Len(list) THEN 0 ELSE LoadBal + 1

GoodPlaces(list, bad) ==
    {k \in 0 .. Len(list) - 1 : At(list, Start(list), k) \notin bad}

FirstPlace(list, bad) ==
    CHOOSE k \in GoodPlaces(list, bad) : \A j \in GoodPlaces(list, bad) : k <= j

Place(list, bad) ==
    IF GoodPlaces(list, bad) # {}
    THEN (Start(list) + FirstPlace(list, bad)) % Len(list)
    ELSE IF Start(list) = 0 THEN Len(list) ELSE Start(list)

GetNextECSIP(r, tooOld, found, notFound) ==
    LET list == req[r].list
        bad == BadIPMap \ tooOld
        place == Place(list, bad)
    IN /\ BadIPMap' = bad
       /\ LoadBal' = place
       /\ req' = [req EXCEPT
                    ![r] = IF GoodPlaces(list, bad) # {}
                           THEN [found EXCEPT !.iIPList = place, !.ip = list[place + 1]]
                           ELSE [notFound EXCEPT !.iIPList = place]]
       /\ UNCHANGED <<scope, IPListHost>>

(* Seeded fault: the map is left as it is.                                 *)
TestAllIPBadKept(list, bad) == bad

(* TestAllIPBad, for the address list of a request.                        *)
TestAllIPBad(list, bad) == IF Range(list) \subseteq bad THEN {} ELSE bad

(* The catch block: the disconnect callback for an error that is thrown.   *)
CallsDisconnect(q, error) ==
    /\ ~q.test
    /\ error \notin Answered \/ error = "auth"
    /\ error \notin {"aborted", "invalid", "reset"}

Throw(q, error) ==
    [q EXCEPT !.pc = "failed", !.Error = error,
              !.DisconnectCB = CallsDisconnect(q, error)]

-----------------------------------------------------------------------------
(* SendRequest: a copy of the address list for this request.               *)
Begin(r, stream, test) ==
    /\ req[r].pc = "idle"
    /\ req' = [req EXCEPT ![r] = [NoRequest EXCEPT
                 !.pc = "first", !.list = IPListHost, !.stream = stream, !.test = test]]
    /\ UNCHANGED <<scope, IPListHost, BadIPMap, LoadBal, dwMaxRetryCount>>

(* A test connection lowers the retry count that all requests share.       *)
LowerRetries(test) ==
    dwMaxRetryCount' = IF test /\ dwMaxRetryCount > 2 THEN 2 ELSE dwMaxRetryCount

FirstIP(r, tooOld) ==
    /\ req[r].pc = "first"
    /\ GetNextECSIP(r, tooOld, [req[r] EXCEPT !.pc = "send"],
                               [req[r] EXCEPT !.pc = "all bad"])
    /\ LowerRetries(req[r].test /\ req'[r].pc = "send")

AllBad(r) ==
    /\ req[r].pc = "all bad"
    /\ BadIPMap' = TestAllIPBad(req[r].list, BadIPMap)
    /\ req' = [req EXCEPT ![r].pc = "second"]
    /\ UNCHANGED <<scope, IPListHost, LoadBal, dwMaxRetryCount>>

SecondIP(r, tooOld) ==
    /\ req[r].pc = "second"
    /\ GetNextECSIP(r, tooOld, [req[r] EXCEPT !.pc = "send"],
                               Throw(req[r], "no addresses"))
    /\ LowerRetries(req[r].test /\ req'[r].pc = "send")

(* Seeded fault: a stream is retried like any request.                     *)
GivesUpNoStream(q, error) ==
    \/ error \in (Answered \ {"5xx"}) \cup {"secure"}
    \/ error = "timeout" /\ (q.i > 1 \/ q.test)

(* Errors that are thrown after an attempt: any for a stream; an answer    *)
(* below 500 or a certificate that is refused; the third timeout, or the   *)
(* first one of a test connection.                                         *)
GivesUp(q, error) ==
    \/ q.stream
    \/ error \in (Answered \ {"5xx"}) \cup {"secure"}
    \/ error = "timeout" /\ (q.i > 1 \/ q.test)

Attempt(r, error) ==
    LET q == [req[r] EXCEPT !.attempts = Append(@, error), !.Error = error]
    IN /\ req[r].pc = "send"
       /\ req' = [req EXCEPT
            ![r] = IF error = "ok"
                     THEN [q EXCEPT !.pc = IF q.IPUsed = {} THEN "done" ELSE "log"]
                   ELSE IF GivesUp(q, error) THEN Throw(q, error)
                   ELSE IF error = "aborted" THEN [q EXCEPT !.pc = "failed"]
                   ELSE [q EXCEPT !.pc = "next",
                                  !.IPUsed = IF error \in MarksIPBad THEN @ \cup {q.ip} ELSE @]]
       /\ UNCHANGED <<scope, IPListHost, BadIPMap, LoadBal, dwMaxRetryCount>>

(* LogBadIPAddr: the addresses that failed on the way to the success.      *)
LogBadIPAddr(r) ==
    /\ req[r].pc = "log"
    /\ BadIPMap' = IF req[r].test THEN BadIPMap
                   ELSE TestAllIPBad(req[r].list, BadIPMap \cup req[r].IPUsed)
    /\ req' = [req EXCEPT ![r].pc = "done"]
    /\ UNCHANGED <<scope, IPListHost, LoadBal, dwMaxRetryCount>>

(* Seeded fault: the attempts are not counted.                             *)
NextIPForever(r, tooOld) ==
    /\ req[r].pc = "next"
    /\ GetNextECSIP(r, tooOld, [req[r] EXCEPT !.pc = "send", !.attempts = << >>],
                               [req[r] EXCEPT !.pc = "failed"])
    /\ UNCHANGED dwMaxRetryCount

(* Another address, and around the loop; the loop may end here, with the   *)
(* error of the last attempt and outside the catch block.                  *)
NextIP(r, tooOld) ==
    /\ req[r].pc = "next"
    /\ GetNextECSIP(r, tooOld,
         [req[r] EXCEPT !.i = @ + 1,
                        !.pc = IF req[r].i + 1 < dwMaxRetryCount THEN "send" ELSE "failed"],
         [req[r] EXCEPT !.pc = "failed"])
    /\ UNCHANGED dwMaxRetryCount

(* The caller goes on.                                                     *)
Return(r) ==
    /\ req[r].pc \in {"done", "failed"}
    /\ req' = [req EXCEPT ![r] = NoRequest]
    /\ UNCHANGED <<scope, IPListHost, BadIPMap, LoadBal, dwMaxRetryCount>>

RequestStep(r) ==
    \/ \E tooOld \in SUBSET BadIPMap :
          FirstIP(r, tooOld) \/ SecondIP(r, tooOld) \/ NextIP(r, tooOld)
    \/ AllBad(r)
    \/ \E error \in scope.outcomes : Attempt(r, error)
    \/ LogBadIPAddr(r)

Next ==
    \/ \E list \in scope.lists : SetIPList(list)
    \/ \E r \in scope.requests :
          \/ \E stream, test \in BOOLEAN : Begin(r, stream, test)
          \/ RequestStep(r)
          \/ Return(r)

Spec == Init /\ [][Next]_vars

(* WinHTTP completes every attempt, if only with a timeout; an attempt     *)
(* that hangs because its set-up failed in a new state of the connection   *)
(* (WaitForCallbackDone) is left to the module Connection.                 *)
FairSpec == Spec /\ \A r \in Requests : WF_vars(RequestStep(r))

-----------------------------------------------------------------------------
Ended(r) == req[r].pc \in {"done", "failed"}

(* A request that the server has answered is never sent again, except after*)
(* a server error: only the last attempt can have another answer.  And a   *)
(* stream, whose data is consumed, is sent once.  "if timeout, don't retry *)
(* more than twice", and there are at most dwMaxRetryCount attempts.       *)
NeverResent ==
    \A r \in Requests :
        LET n == Len(req[r].attempts) IN
        /\ \A k \in 1 .. n - 1 : req[r].attempts[k] \notin Answered \ {"5xx"}
        /\ req[r].stream => n <= 1
        /\ n <= scope.dwMaxRetryCount
        /\ \A k \in 1 .. n - 1 : req[r].attempts[k] = "timeout" => k <= 2

(* BadIPMap never shuts a host out: as long as the address list is not     *)
(* changed, some address of it is usable, whatever overlapping requests    *)
(* have marked.                                                            *)
SomeIPUsable ==
    \A list \in IPLists : scope.lists = {list} => ~(Range(list) \subseteq BadIPMap)

(* When the lists change, a request may find all its addresses marked by   *)
(* earlier ones; TestAllIPBad clears them, so that, unless another request *)
(* marks them again in between, it never fails for want of an address.     *)
AloneFindsAddress ==
    \A r \in Requests : scope.requests = {r} => req[r].Error # "no addresses"

(* Every request comes to an end, if each of its attempts does: the loop   *)
(* over the addresses does not go on for ever.                             *)
RequestEnds == \A r \in Requests : req[r].pc = "first" ~> Ended(r)

=============================================================================
