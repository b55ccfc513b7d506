--------------------------- MODULE FailoverProofs ---------------------------
(* Proofs about Failover, for any set of requests, any address lists and   *)
(* any number of attempts.                                                 *)
EXTENDS Failover, WellFoundedInduction, TLAPS

-----------------------------------------------------------------------------
(* The inductive invariant.                                                *)

(* Test connections only lower the retry count, and not to zero.           *)
RetriesLeft == dwMaxRetryCount > 0 /\ dwMaxRetryCount <= scope.dwMaxRetryCount

(* Nothing that was attempted so far forbids another attempt.              *)
MayRetry(q) ==
    /\ \A k \in 1 .. Len(q.attempts) :
         /\ q.attempts[k] \notin Answered \ {"5xx"}
         /\ q.attempts[k] = "timeout" => k <= 2
    /\ q.stream => Len(q.attempts) = 0
    /\ q.i < scope.dwMaxRetryCount

(* The attempts of a request are counted by i, up to where it is.          *)
Counted(q) ==
    /\ q.pc \in {"idle", "first", "all bad", "second"} => q.i = 0 /\ Len(q.attempts) = 0
    /\ q.pc = "send" => MayRetry(q) /\ Len(q.attempts) = q.i
    /\ q.pc = "next" => q.stream = FALSE /\ q.i < scope.dwMaxRetryCount
                        /\ Len(q.attempts) = q.i + 1
                        /\ \A k \in 1 .. Len(q.attempts) :
                             /\ q.attempts[k] \notin Answered \ {"5xx"}
                             /\ q.attempts[k] = "timeout" => k <= 2

(* NeverResent, for one request.                                           *)
SentOnce(q) ==
    LET n == Len(q.attempts) IN
    /\ \A k \in 1 .. n - 1 : q.attempts[k] \notin Answered \ {"5xx"}
    /\ q.stream => n <= 1
    /\ n <= scope.dwMaxRetryCount
    /\ \A k \in 1 .. n - 1 : q.attempts[k] = "timeout" => k <= 2

(* A request that is under way works on one of the lists of the host.      *)
ReqInv(q) ==
    /\ q \in Request
    /\ q.pc # "idle" => q.list \in scope.lists
    /\ Counted(q)
    /\ SentOnce(q)

(* An attempt has an address.                                              *)
HasIP(q) == q.pc = "send" => q.ip \in AllIPs

FailoverInv ==
    /\ TypeOK /\ RetriesLeft /\ SomeIPUsable
    /\ \A r \in Requests : ReqInv(req[r]) /\ HasIP(req[r])
-----------------------------------------------------------------------------
(* An address list has an address, and its addresses are of AllIPs.        *)
LEMMA Lists ==
    ASSUME NEW list \in IPLists
    PROVE  /\ list \in Seq(AllIPs) /\ Len(list) \in Nat /\ Len(list) > 0
           /\ Range(list) # {}
  <1>1. list \in Seq(Range(list)) /\ list # << >> /\ Range(list) \subseteq AllIPs
    BY FailoverAssumption DEF AllIPs
  <1>2. list \in Seq(AllIPs) /\ Len(list) \in Nat /\ Len(list) > 0
    BY <1>1
  <1>3. list[1] \in Range(list)
    BY <1>2 DEF Range
  <1> QED
    BY <1>2, <1>3

(* The lists of a scope are lists of the host.                             *)
LEMMA ScopeLists ==
    ASSUME scope \in Scopes
    PROVE  scope.lists \subseteq IPLists /\ scope.outcomes \subseteq Outcomes
           /\ scope.requests \subseteq Requests /\ scope.dwMaxRetryCount \in Nat \ {0}
  BY FailoverAssumption DEF IPLists, Outcomes, Requests

(* A set of naturals that is not empty has a least element.                *)
LEMMA LeastNatural ==
    ASSUME NEW S, S \subseteq Nat, S # {}
    PROVE  \E k \in S : \A j \in S : k <= j
  <1> DEFINE less == {ss \in Nat \X Nat : ss[1] < ss[2]}
  <1>1. IsWellFoundedOn(less, Nat)
    BY NatLessThanWellFounded, Zenon DEF OpToRel
  <1>2. PICK k \in S : \A j \in S : ~(<<j, k>> \in less)
    <2> HIDE DEF less
    <2> QED
      BY <1>1, WFMin
  <1>3. ASSUME NEW j \in S PROVE k <= j
    <2>1. j \in Nat /\ k \in Nat /\ <<j, k>> \notin less
      BY <1>2
    <2> QED
      BY <2>1
  <1> QED
    BY <1>3

(* Where the search of GetNextECSIP ends: at an address of the list if one *)
(* is good.                                                                *)
LEMMA PlaceInList ==
    ASSUME NEW list \in IPLists, NEW bad, LoadBal \in Nat
    PROVE  /\ Place(list, bad) \in Nat
           /\ GoodPlaces(list, bad) # {} => list[Place(list, bad) + 1] \in AllIPs
  <1>1. list \in Seq(AllIPs) /\ Len(list) \in Nat /\ Len(list) > 0
    BY Lists
  <1>2. Start(list) \in Nat
    BY <1>1 DEF Start
  <1>3. CASE GoodPlaces(list, bad) = {}
    BY <1>1, <1>2, <1>3 DEF Place
  <1>4. CASE GoodPlaces(list, bad) # {}
    <2>1. GoodPlaces(list, bad) \subseteq Nat
      BY <1>1 DEF GoodPlaces
    <2>2. \E k \in GoodPlaces(list, bad) : \A j \in GoodPlaces(list, bad) : k <= j
      BY <1>4, <2>1, LeastNatural
    <2>3. FirstPlace(list, bad) \in Nat
      BY <2>1, <2>2 DEF FirstPlace
    <2>4. Place(list, bad) \in 0 .. Len(list) - 1
      BY <1>1, <1>2, <1>4, <2>3 DEF Place
    <2> QED
      BY <1>1, <2>4
  <1> QED
    BY <1>3, <1>4

(* The two ways on from GetNextECSIP.                                      *)
Continues(r, found, notFound) ==
    \E place \in Nat, ip \in AllIPs :
        \/ req' = [req EXCEPT ![r] = [found EXCEPT !.iIPList = place, !.ip = ip]]
        \/ req' = [req EXCEPT ![r] = [notFound EXCEPT !.iIPList = place]]

(* GetNextECSIP forgets bad addresses and marks none, and takes the        *)
(* request to one of its two continuations.                                *)
LEMMA NextECSIP ==
    ASSUME TypeOK, NEW r \in Requests, req[r].list \in IPLists,
           NEW tooOld, NEW found, NEW notFound,
           GetNextECSIP(r, tooOld, found, notFound)
    PROVE  /\ scope' = scope /\ IPListHost' = IPListHost
           /\ BadIPMap' \subseteq BadIPMap /\ LoadBal' \in Nat
           /\ Continues(r, found, notFound)
  <1> DEFINE list == req[r].list
             bad == BadIPMap \ tooOld
             place == Place(list, bad)
  <1>1. place \in Nat /\ (GoodPlaces(list, bad) # {} => list[place + 1] \in AllIPs)
    BY PlaceInList DEF TypeOK
  <1>2. /\ scope' = scope /\ IPListHost' = IPListHost
        /\ BadIPMap' = bad /\ LoadBal' = place
        /\ req' = [req EXCEPT
                     ![r] = IF GoodPlaces(list, bad) # {}
                            THEN [found EXCEPT !.iIPList = place, !.ip = list[place + 1]]
                            ELSE [notFound EXCEPT !.iIPList = place]]
    BY DEF GetNextECSIP
  <1> HIDE DEF list, bad, place
  <1>3. list[1] \in AllIPs
    BY Lists DEF list
  <1>4. \E ip \in AllIPs :
          \/ req' = [req EXCEPT ![r] = [found EXCEPT !.iIPList = place, !.ip = ip]]
          \/ req' = [req EXCEPT ![r] = [notFound EXCEPT !.iIPList = place]]
    <2>1. CASE GoodPlaces(list, bad) # {}
      <3>1. req' = [req EXCEPT ![r] = [found EXCEPT !.iIPList = place,
                                                   !.ip = list[place + 1]]]
        BY <1>2, <2>1
      <3> QED
        BY <1>1, <2>1, <3>1
    <2>2. CASE ~(GoodPlaces(list, bad) # {})
      <3>1. req' = [req EXCEPT ![r] = [notFound EXCEPT !.iIPList = place]]
        BY <1>2, <2>2
      <3> QED
        BY <1>3, <3>1
    <2> QED
      BY <2>1, <2>2
  <1>5. BadIPMap' \subseteq BadIPMap
    BY <1>2 DEF bad
  <1>6. Continues(r, found, notFound)
    BY <1>1, <1>4 DEF Continues
  <1> QED
    BY <1>1, <1>2, <1>5, <1>6

(* Where GetNextECSIP left the index does not matter to a request.         *)
LEMMA IndexApart ==
    ASSUME NEW q, ReqInv(q), NEW place \in Nat, NEW ip \in AllIPs
    PROVE  /\ ReqInv([q EXCEPT !.iIPList = place, !.ip = ip])
           /\ ReqInv([q EXCEPT !.iIPList = place])
  <1> DEFINE p == [q EXCEPT !.iIPList = place, !.ip = ip]
             s == [q EXCEPT !.iIPList = place]
  <1>1. /\ p \in Request /\ s \in Request
        /\ p.pc = q.pc /\ p.list = q.list /\ p.i = q.i
        /\ p.stream = q.stream /\ p.attempts = q.attempts
        /\ s.pc = q.pc /\ s.list = q.list /\ s.i = q.i
        /\ s.stream = q.stream /\ s.attempts = q.attempts
    BY DEF ReqInv, Request
  <1> HIDE DEF p, s
  <1>2. ReqInv(p)
    BY <1>1 DEF ReqInv, Counted, MayRetry, SentOnce
  <1>3. ReqInv(s)
    BY <1>1 DEF ReqInv, Counted, MayRetry, SentOnce
  <1> QED
    BY <1>2, <1>3 DEF p, s

(* A step of one request leaves the others as they are.                    *)
LEMMA OneRequest ==
    ASSUME FailoverInv, scope' = scope, NEW r \in Requests, NEW q, ReqInv(q), HasIP(q),
           req' = [req EXCEPT ![r] = q]
    PROVE  /\ req' \in [Requests -> Request]
           /\ \A s \in Requests : ReqInv(req[s])' /\ HasIP(req[s])'
  <1>1. q \in Request /\ req \in [Requests -> Request]
    BY DEF FailoverInv, TypeOK, ReqInv
  <1>2. \A s \in Requests : req'[s] = IF s = r THEN q ELSE req[s]
    BY <1>1
  <1>3. \A s \in Requests : ReqInv(req'[s]) /\ HasIP(req'[s])
    BY <1>2 DEF FailoverInv
  <1>4. \A s \in Requests : ReqInv(req[s])' /\ HasIP(req[s])'
    BY <1>3 DEF ReqInv, Counted, MayRetry, SentOnce, HasIP
  <1> QED
    BY <1>1, <1>4

-----------------------------------------------------------------------------
(* The actions.                                                            *)

(* A call of GetNextECSIP preserves the invariant when both of the request's*)
(* continuations do.                                                       *)
LEMMA TryECSIP ==
    ASSUME FailoverInv, NEW r \in Requests, req[r].pc # "idle",
           NEW tooOld, NEW found, NEW notFound,
           ReqInv(found), ReqInv(notFound), notFound.pc # "send",
           GetNextECSIP(r, tooOld, found, notFound),
           dwMaxRetryCount' \in Nat, RetriesLeft'
    PROVE  FailoverInv'
  <1>1. scope \in Scopes /\ req[r].list \in IPLists /\ TypeOK
    BY ScopeLists DEF FailoverInv, TypeOK, ReqInv
  <1>2. /\ scope' = scope /\ IPListHost' = IPListHost
        /\ BadIPMap' \subseteq BadIPMap /\ LoadBal' \in Nat
        /\ Continues(r, found, notFound)
    BY <1>1, NextECSIP
  <1>3. PICK place \in Nat, ip \in AllIPs :
          \/ req' = [req EXCEPT ![r] = [found EXCEPT !.iIPList = place, !.ip = ip]]
          \/ req' = [req EXCEPT ![r] = [notFound EXCEPT !.iIPList = place]]
    BY <1>2 DEF Continues
  <1>4. /\ ReqInv([found EXCEPT !.iIPList = place, !.ip = ip])
        /\ ReqInv([notFound EXCEPT !.iIPList = place])
    BY IndexApart
  <1> DEFINE f == [found EXCEPT !.iIPList = place, !.ip = ip]
             n == [notFound EXCEPT !.iIPList = place]
  <1>5. f.ip = ip /\ n.pc = notFound.pc
    BY DEF ReqInv, Request
  <1>6. HasIP(f) /\ HasIP(n)
    BY <1>5 DEF HasIP
  <1>7. /\ req' \in [Requests -> Request]
        /\ \A s \in Requests : ReqInv(req[s])' /\ HasIP(req[s])'
    BY <1>2, <1>3, <1>4, <1>6, OneRequest
  <1>8. TypeOK'
    BY <1>1, <1>2, <1>7 DEF TypeOK
  <1>9. SomeIPUsable'
    BY <1>2 DEF FailoverInv, SomeIPUsable
  <1> QED
    BY <1>7, <1>8, <1>9 DEF FailoverInv

(* A test connection lowers the count to 2 at the least.                   *)
LEMMA RetriesLowered ==
    ASSUME FailoverInv, NEW test, LowerRetries(test), scope' = scope
    PROVE  dwMaxRetryCount' \in Nat /\ RetriesLeft'
  BY ScopeLists DEF FailoverInv, TypeOK, RetriesLeft, LowerRetries

(* A request may send once it has an address, and fail for want of one.    *)
LEMMA MaySend ==
    ASSUME FailoverInv, NEW r \in Requests, req[r].pc \in {"first", "second"}
    PROVE  /\ ReqInv([req[r] EXCEPT !.pc = "send"])
           /\ ReqInv([req[r] EXCEPT !.pc = "all bad"])
           /\ ReqInv(Throw(req[r], "no addresses"))
           /\ [req[r] EXCEPT !.pc = "all bad"].pc # "send"
           /\ Throw(req[r], "no addresses").pc # "send"
  <1> DEFINE q == req[r]
             s == [q EXCEPT !.pc = "send"]
             b == [q EXCEPT !.pc = "all bad"]
             t == Throw(q, "no addresses")
  <1>1. /\ q \in Request /\ q.list \in scope.lists /\ q.i = 0
        /\ Len(q.attempts) = 0 /\ scope.dwMaxRetryCount \in Nat \ {0}
        /\ q.attempts \in Seq(Outcomes)
    BY ScopeLists DEF FailoverInv, TypeOK, ReqInv, Counted, Request
  <1>2. CallsDisconnect(q, "no addresses") \in BOOLEAN
    BY DEF CallsDisconnect
  <1>3. /\ s \in Request /\ s.pc = "send" /\ s.list = q.list /\ s.i = 0
        /\ s.attempts = q.attempts
    BY <1>1 DEF Request
  <1>4. /\ b \in Request /\ b.pc = "all bad" /\ b.list = q.list /\ b.i = 0
        /\ b.attempts = q.attempts
    BY <1>1 DEF Request
  <1>5. /\ t \in Request /\ t.pc = "failed" /\ t.list = q.list
        /\ t.attempts = q.attempts
    BY <1>1, <1>2 DEF Request, Throw
  <1> HIDE DEF q, s, b, t
  <1>6. ASSUME NEW p, p.attempts = q.attempts PROVE SentOnce(p)
    BY <1>1, <1>6 DEF SentOnce
  <1>7. Counted(s) /\ Counted(b) /\ Counted(t)
    <2>1. MayRetry(s)
      BY <1>1, <1>3 DEF MayRetry
    <2> QED
      BY <1>1, <1>3, <1>4, <1>5, <2>1 DEF Counted
  <1>8. ReqInv(s) /\ ReqInv(b) /\ ReqInv(t)
    BY <1>1, <1>3, <1>4, <1>5, <1>6, <1>7 DEF ReqInv
  <1> QED
    BY <1>4, <1>5, <1>8 DEF q, s, b, t

(* The first address, with which a test connection lowers the count.       *)
LEMMA FirstIPStep ==
    ASSUME FailoverInv, NEW r \in Requests, NEW tooOld, FirstIP(r, tooOld)
    PROVE  FailoverInv'
  <1>1. /\ req[r].pc = "first" /\ LowerRetries(req[r].test /\ req'[r].pc = "send")
        /\ GetNextECSIP(r, tooOld, [req[r] EXCEPT !.pc = "send"],
                                   [req[r] EXCEPT !.pc = "all bad"])
    BY DEF FirstIP
  <1>2. dwMaxRetryCount' \in Nat /\ RetriesLeft'
    BY <1>1, RetriesLowered DEF GetNextECSIP
  <1> QED
    BY <1>1, <1>2, MaySend, TryECSIP

(* The address asked for again after TestAllIPBad, or the error.           *)
LEMMA SecondIPStep ==
    ASSUME FailoverInv, NEW r \in Requests, NEW tooOld, SecondIP(r, tooOld)
    PROVE  FailoverInv'
  <1>1. /\ req[r].pc = "second" /\ LowerRetries(req[r].test /\ req'[r].pc = "send")
        /\ GetNextECSIP(r, tooOld, [req[r] EXCEPT !.pc = "send"],
                                   Throw(req[r], "no addresses"))
    BY DEF SecondIP
  <1>2. dwMaxRetryCount' \in Nat /\ RetriesLeft'
    BY <1>1, RetriesLowered DEF GetNextECSIP
  <1> QED
    BY <1>1, <1>2, MaySend, TryECSIP

(* Another attempt, after one that may be repeated.                        *)
LEMMA NextIPStep ==
    ASSUME FailoverInv, NEW r \in Requests, NEW tooOld, NextIP(r, tooOld)
    PROVE  FailoverInv'
  <1> DEFINE q == req[r]
             pc == IF q.i + 1 < dwMaxRetryCount THEN "send" ELSE "failed"
             again == [q EXCEPT !.i = @ + 1, !.pc = pc]
             over == [q EXCEPT !.pc = "failed"]
  <1>1. /\ q.pc = "next" /\ GetNextECSIP(r, tooOld, again, over)
        /\ dwMaxRetryCount' = dwMaxRetryCount
    BY DEF NextIP
  <1>2. /\ q \in Request /\ q.list \in scope.lists /\ Counted(q) /\ SentOnce(q)
        /\ q.i \in Nat /\ q.attempts \in Seq(Outcomes)
        /\ dwMaxRetryCount \in Nat /\ dwMaxRetryCount <= scope.dwMaxRetryCount
        /\ scope.dwMaxRetryCount \in Nat
    BY <1>1, ScopeLists DEF FailoverInv, TypeOK, ReqInv, RetriesLeft, Request
  <1>3. /\ over \in Request /\ over.pc = "failed" /\ over.list = q.list
        /\ over.attempts = q.attempts /\ over.stream = q.stream
    BY <1>2 DEF Request
  <1>4. /\ again \in Request /\ again.list = q.list /\ again.i = q.i + 1
        /\ again.attempts = q.attempts /\ again.stream = q.stream
        /\ again.pc = pc
    <2>1. pc \in {"send", "failed"} /\ q.i + 1 \in Nat
      BY <1>2
    <2> HIDE DEF pc
    <2> QED
      BY <1>2, <2>1 DEF Request
  <1> HIDE DEF q, pc, again, over
  <1>5. ReqInv(over)
    BY <1>2, <1>3 DEF ReqInv, Counted, SentOnce
  <1>6. ReqInv(again)
    <2>1. SentOnce(again)
      BY <1>2, <1>4 DEF SentOnce
    <2>2. Counted(again)
      BY <1>1, <1>2, <1>4 DEF Counted, MayRetry, pc
    <2> QED
      BY <1>2, <1>4, <2>1, <2>2 DEF ReqInv
  <1>7. scope' = scope /\ q.pc # "idle"
    BY <1>1 DEF GetNextECSIP
  <1>8. dwMaxRetryCount' \in Nat /\ RetriesLeft'
    BY <1>1, <1>2, <1>7 DEF FailoverInv, RetriesLeft
  <1> QED
    BY <1>1, <1>3, <1>5, <1>6, <1>7, <1>8, TryECSIP DEF q

(* A step of one request that leaves everything but BadIPMap alone.        *)
LEMMA RequestOnly ==
    ASSUME FailoverInv, NEW r \in Requests, NEW q, ReqInv(q), HasIP(q),
           req' = [req EXCEPT ![r] = q], BadIPMap' \in SUBSET AllIPs, SomeIPUsable',
           UNCHANGED <<scope, IPListHost, LoadBal, dwMaxRetryCount>>
    PROVE  FailoverInv'
  <1>1. /\ req' \in [Requests -> Request]
        /\ \A s \in Requests : ReqInv(req[s])' /\ HasIP(req[s])'
    BY OneRequest
  <1>2. TypeOK' /\ RetriesLeft'
    BY <1>1 DEF FailoverInv, TypeOK, RetriesLeft
  <1> QED
    BY <1>1, <1>2 DEF FailoverInv

(* TestAllIPBad leaves an address of the list usable.                      *)
LEMMA TestLeavesOne ==
    ASSUME NEW list \in IPLists, NEW bad
    PROVE  /\ TestAllIPBad(list, bad) \subseteq bad
           /\ ~(Range(list) \subseteq TestAllIPBad(list, bad))
  BY Lists DEF TestAllIPBad

(* TestAllIPBad for a request that found no address only clears marks.     *)
LEMMA AllBadStep ==
    ASSUME FailoverInv, NEW r \in Requests, AllBad(r)
    PROVE  FailoverInv'
  <1> DEFINE q == req[r]
             p == [q EXCEPT !.pc = "second"]
  <1>1. /\ q.pc = "all bad" /\ req' = [req EXCEPT ![r] = p]
        /\ BadIPMap' = TestAllIPBad(q.list, BadIPMap)
        /\ UNCHANGED <<scope, IPListHost, LoadBal, dwMaxRetryCount>>
    BY DEF AllBad
  <1>2. q \in Request /\ q.list \in scope.lists /\ q.list \in IPLists /\ ReqInv(q)
    BY <1>1, ScopeLists DEF FailoverInv, TypeOK, ReqInv
  <1>3. /\ p \in Request /\ p.pc = "second" /\ p.list = q.list /\ p.i = q.i
        /\ p.attempts = q.attempts /\ p.stream = q.stream
    BY <1>2 DEF Request
  <1> HIDE DEF q, p
  <1>4. ReqInv(p) /\ HasIP(p)
    BY <1>1, <1>2, <1>3 DEF ReqInv, Counted, SentOnce, HasIP
  <1>5. BadIPMap' \subseteq BadIPMap
    BY <1>1, <1>2, TestLeavesOne
  <1>6. BadIPMap' \in SUBSET AllIPs /\ SomeIPUsable'
    BY <1>1, <1>5 DEF FailoverInv, TypeOK, SomeIPUsable
  <1> QED
    BY <1>1, <1>4, <1>6, RequestOnly

(* The addresses that are marked all belong to the one list there is, if   *)
(* there is one, and TestAllIPBad has looked at it.                        *)
LEMMA LogBadIPAddrStep ==
    ASSUME FailoverInv, NEW r \in Requests, LogBadIPAddr(r)
    PROVE  FailoverInv'
  <1> DEFINE q == req[r]
             p == [q EXCEPT !.pc = "done"]
  <1>1. /\ q.pc = "log" /\ req' = [req EXCEPT ![r] = p]
        /\ BadIPMap' = IF q.test THEN BadIPMap
                       ELSE TestAllIPBad(q.list, BadIPMap \cup q.IPUsed)
        /\ UNCHANGED <<scope, IPListHost, LoadBal, dwMaxRetryCount>>
    BY DEF LogBadIPAddr
  <1>2. /\ q \in Request /\ q.list \in scope.lists /\ q.list \in IPLists
        /\ q.IPUsed \subseteq AllIPs /\ ReqInv(q)
    BY <1>1, ScopeLists DEF FailoverInv, TypeOK, ReqInv, Request
  <1>3. /\ p \in Request /\ p.pc = "done" /\ p.list = q.list
        /\ p.attempts = q.attempts /\ p.stream = q.stream
    BY <1>2 DEF Request
  <1> HIDE DEF q, p
  <1>4. ReqInv(p) /\ HasIP(p)
    BY <1>1, <1>2, <1>3 DEF ReqInv, Counted, SentOnce, HasIP
  <1>5. BadIPMap' \in SUBSET AllIPs
    BY <1>1, <1>2, TestLeavesOne DEF FailoverInv, TypeOK
  <1>6. SomeIPUsable'
    <2>1. CASE q.test
      BY <1>1, <2>1 DEF FailoverInv, SomeIPUsable
    <2>2. CASE ~q.test
      <3>1. ~(Range(q.list) \subseteq BadIPMap')
        BY <1>1, <1>2, <2>2, TestLeavesOne
      <3> QED
        BY <1>1, <1>2, <3>1 DEF SomeIPUsable
    <2> QED
      BY <2>1, <2>2
  <1> QED
    BY <1>1, <1>4, <1>5, <1>6, RequestOnly

(* What an attempt adds: the outcome, in a request that allowed it.        *)
LEMMA AttemptStep ==
    ASSUME FailoverInv, NEW r \in Requests, NEW error \in scope.outcomes,
           Attempt(r, error)
    PROVE  FailoverInv'
  <1> DEFINE o == req[r]
             sent == Append(o.attempts, error)
             q == [o EXCEPT !.attempts = sent, !.Error = error]
             okpc == IF q.IPUsed = {} THEN "done" ELSE "log"
             used == IF error \in MarksIPBad THEN q.IPUsed \cup {q.ip} ELSE q.IPUsed
             again == [q EXCEPT !.pc = "next", !.IPUsed = used]
             p == IF error = "ok" THEN [q EXCEPT !.pc = okpc]
                  ELSE IF GivesUp(q, error) THEN Throw(q, error)
                  ELSE IF error = "aborted" THEN [q EXCEPT !.pc = "failed"]
                  ELSE again
  <1>1. /\ o.pc = "send" /\ req' = [req EXCEPT ![r] = p]
        /\ UNCHANGED <<scope, IPListHost, BadIPMap, LoadBal, dwMaxRetryCount>>
    BY Zenon DEF Attempt
  <1>2. /\ o \in Request /\ o.list \in scope.lists /\ MayRetry(o)
        /\ Len(o.attempts) = o.i /\ o.ip \in AllIPs /\ error \in Outcomes
        /\ scope.dwMaxRetryCount \in Nat
    BY <1>1, ScopeLists DEF FailoverInv, TypeOK, ReqInv, Counted, HasIP
  <1>3. /\ o.attempts \in Seq(Outcomes) /\ sent \in Seq(Outcomes) /\ o.i \in Nat
        /\ Len(sent) = o.i + 1 /\ sent[o.i + 1] = error
        /\ \A k \in 1 .. o.i : sent[k] = o.attempts[k]
    <2>1. o.attempts \in Seq(Outcomes) /\ o.i \in Nat
      BY <1>2 DEF Request
    <2> HIDE DEF o
    <2> QED
      BY <1>2, <2>1
  <1>4. /\ q \in Request /\ q.list = o.list /\ q.stream = o.stream /\ q.i = o.i
        /\ q.attempts = sent /\ q.ip = o.ip
    <2> HIDE DEF o, sent
    <2> QED
      BY <1>2, <1>3 DEF Request
  <1> HIDE DEF o, sent, q
  <1>5. SentOnce(q)
    <2>1. Len(q.attempts) - 1 = o.i /\ Len(q.attempts) <= scope.dwMaxRetryCount
      BY <1>2, <1>3, <1>4 DEF MayRetry
    <2>2. q.stream => Len(q.attempts) <= 1
      BY <1>2, <1>3, <1>4 DEF MayRetry
    <2>3. \A k \in 1 .. o.i : /\ q.attempts[k] \notin Answered \ {"5xx"}
                              /\ q.attempts[k] = "timeout" => k <= 2
      BY <1>2, <1>3, <1>4 DEF MayRetry
    <2>4. ASSUME NEW k \in 1 .. Len(q.attempts) - 1
          PROVE  /\ q.attempts[k] \notin Answered \ {"5xx"}
                 /\ q.attempts[k] = "timeout" => k <= 2
      <3>1. k \in 1 .. o.i
        BY <1>3, <1>4
      <3> QED
        BY <2>3, <3>1, Zenon
    <2> QED
      BY <2>1, <2>2, <2>4, Zenon DEF SentOnce
  <1>6. ASSUME p \in Request, p.pc \in {"done", "log", "failed"}, p.list = q.list,
               p.stream = q.stream, p.attempts = q.attempts
        PROVE  ReqInv(p) /\ HasIP(p)
    <2> HIDE DEF p
    <2> QED
      BY <1>2, <1>4, <1>5, <1>6 DEF ReqInv, Counted, SentOnce, HasIP
  <1>7. ReqInv(p) /\ HasIP(p)
    <2>1. CASE error = "ok"
      <3>1. okpc \in {"done", "log"} /\ p = [q EXCEPT !.pc = okpc]
        BY <2>1
      <3> HIDE DEF p, okpc
      <3> QED
        BY <1>4, <1>6, <3>1 DEF Request
    <2>2. CASE error # "ok" /\ GivesUp(q, error)
      <3>1. p = Throw(q, error) /\ CallsDisconnect(q, error) \in BOOLEAN
        BY <2>2 DEF CallsDisconnect
      <3> HIDE DEF p
      <3> QED
        BY <1>2, <1>4, <1>6, <3>1 DEF Request, Throw
    <2>3. CASE error = "aborted" /\ ~GivesUp(q, error)
      <3>1. p = [q EXCEPT !.pc = "failed"]
        BY <2>3
      <3> HIDE DEF p
      <3> QED
        BY <1>4, <1>6, <3>1 DEF Request
    <2>4. CASE error \notin {"ok", "aborted"} /\ ~GivesUp(q, error)
      <3>1. p = again /\ used \in SUBSET AllIPs
        BY <1>2, <1>4, <2>4 DEF Request
      <3>2. /\ p \in Request /\ p.pc = "next" /\ p.list = q.list /\ p.i = q.i
            /\ p.stream = q.stream /\ p.attempts = q.attempts
        <4> HIDE DEF p, used
        <4> QED
          BY <1>4, <3>1 DEF Request
      <3>3. q.stream = FALSE /\ error \notin Answered \ {"5xx"}
        BY <1>4, <2>4 DEF GivesUp, Request
      <3>4. error = "timeout" => o.i + 1 <= 2
        BY <1>3, <1>4, <2>4 DEF GivesUp
      <3> HIDE DEF p
      <3>5. ASSUME NEW k \in 1 .. o.i + 1
            PROVE  /\ sent[k] \notin Answered \ {"5xx"}
                   /\ sent[k] = "timeout" => k <= 2
        <4>1. CASE k = o.i + 1
          BY <1>3, <3>3, <3>4, <4>1
        <4>2. CASE k \in 1 .. o.i
          BY <1>2, <1>3, <4>2 DEF MayRetry
        <4> QED
          BY <1>3, <4>1, <4>2
      <3>6. Counted(p)
        BY <1>2, <1>3, <1>4, <3>2, <3>3, <3>5 DEF Counted, MayRetry
      <3> QED
        BY <1>2, <1>4, <1>5, <3>2, <3>6 DEF ReqInv, SentOnce, HasIP
    <2> QED
      BY <2>1, <2>2, <2>3, <2>4
  <1>8. BadIPMap' \in SUBSET AllIPs /\ SomeIPUsable'
    BY <1>1 DEF FailoverInv, TypeOK, SomeIPUsable
  <1> HIDE DEF p
  <1> QED
    BY <1>1, <1>7, <1>8, RequestOnly

(* A request that has not begun.                                           *)
LEMMA Idle ==
    ASSUME scope \in Scopes
    PROVE  NoRequest \in Request /\ ReqInv(NoRequest) /\ HasIP(NoRequest)
  <1>1. /\ NoRequest \in Request /\ NoRequest.pc = "idle" /\ NoRequest.i = 0
        /\ NoRequest.attempts = << >> /\ scope.dwMaxRetryCount \in Nat
        /\ Len(NoRequest.attempts) = 0
    BY ScopeLists DEF NoRequest, Request
  <1> QED
    BY <1>1 DEF ReqInv, Counted, SentOnce, HasIP

(* A request begins with a copy of the current list.                       *)
LEMMA BeginStep ==
    ASSUME FailoverInv, NEW r \in Requests, NEW stream \in BOOLEAN, NEW test \in BOOLEAN,
           Begin(r, stream, test)
    PROVE  FailoverInv'
  <1> DEFINE q == [NoRequest EXCEPT !.pc = "first", !.list = IPListHost,
                                    !.stream = stream, !.test = test]
  <1>1. /\ req' = [req EXCEPT ![r] = q]
        /\ UNCHANGED <<scope, IPListHost, BadIPMap, LoadBal, dwMaxRetryCount>>
    BY DEF Begin
  <1>2. scope \in Scopes /\ IPListHost \in scope.lists /\ IPListHost \in IPLists
    BY ScopeLists DEF FailoverInv, TypeOK
  <1>3. /\ q \in Request /\ q.pc = "first" /\ q.list = IPListHost /\ q.i = 0
        /\ Len(q.attempts) = 0 /\ scope.dwMaxRetryCount \in Nat
    <2>1. /\ NoRequest \in Request /\ NoRequest.i = 0
          /\ NoRequest.attempts = << >> /\ scope.dwMaxRetryCount \in Nat
      BY <1>2, Idle, ScopeLists DEF NoRequest
    <2>2. /\ q \in Request /\ q.pc = "first" /\ q.list = IPListHost /\ q.i = 0
          /\ q.attempts = << >>
      BY <1>2, <2>1 DEF Request
    <2> QED
      BY <2>1, <2>2
  <1> HIDE DEF q
  <1>4. ReqInv(q) /\ HasIP(q)
    BY <1>2, <1>3 DEF ReqInv, Counted, SentOnce, HasIP
  <1>5. BadIPMap' \in SUBSET AllIPs /\ SomeIPUsable'
    BY <1>1 DEF FailoverInv, TypeOK, SomeIPUsable
  <1> QED
    BY <1>1, <1>4, <1>5, RequestOnly

(* A request that has ended gives way to the next one.                     *)
LEMMA ReturnStep ==
    ASSUME FailoverInv, NEW r \in Requests, Return(r)
    PROVE  FailoverInv'
  <1>1. /\ req' = [req EXCEPT ![r] = NoRequest]
        /\ UNCHANGED <<scope, IPListHost, BadIPMap, LoadBal, dwMaxRetryCount>>
    BY DEF Return
  <1>2. ReqInv(NoRequest) /\ HasIP(NoRequest)
    BY Idle DEF FailoverInv, TypeOK
  <1>3. BadIPMap' \in SUBSET AllIPs /\ SomeIPUsable'
    BY <1>1 DEF FailoverInv, TypeOK, SomeIPUsable
  <1> QED
    BY <1>1, <1>2, <1>3, RequestOnly

(* What does not touch the requests, the map or the count.                 *)
LEMMA RequestsKept ==
    ASSUME FailoverInv, UNCHANGED <<scope, BadIPMap, LoadBal, dwMaxRetryCount, req>>,
           IPListHost' \in scope.lists
    PROVE  FailoverInv'
  <1>1. TypeOK' /\ RetriesLeft' /\ SomeIPUsable'
    BY DEF FailoverInv, TypeOK, RetriesLeft, SomeIPUsable
  <1>2. \A r \in Requests : ReqInv(req[r])' /\ HasIP(req[r])'
    BY DEF FailoverInv, ReqInv, Counted, MayRetry, SentOnce, HasIP
  <1> QED
    BY <1>1, <1>2 DEF FailoverInv

-----------------------------------------------------------------------------
(* The invariant holds before the first request.                           *)
LEMMA FailoverInit ==
    Init => FailoverInv
  <1> SUFFICES ASSUME Init PROVE FailoverInv
    OBVIOUS
  <1>1. scope \in Scopes /\ scope.lists \subseteq IPLists
        /\ scope.dwMaxRetryCount \in Nat \ {0}
    BY ScopeLists DEF Init
  <1>2. \A r \in Requests : req[r] = NoRequest
    BY DEF Init
  <1>3. \A r \in Requests : ReqInv(req[r]) /\ HasIP(req[r])
    BY <1>1, <1>2, Idle
  <1>4. TypeOK
    BY <1>1, Idle DEF Init, TypeOK
  <1>5. RetriesLeft
    BY <1>1 DEF Init, RetriesLeft
  <1>6. SomeIPUsable
    BY Lists DEF Init, SomeIPUsable
  <1> QED
    BY <1>3, <1>4, <1>5, <1>6 DEF FailoverInv

(* Every step preserves the invariant.                                     *)
LEMMA FailoverStep ==
    FailoverInv /\ [Next]_vars => FailoverInv'
  <1> SUFFICES ASSUME FailoverInv, [Next]_vars PROVE FailoverInv'
    OBVIOUS
  <1>1. scope.requests \subseteq Requests /\ IPListHost \in scope.lists
    BY ScopeLists DEF FailoverInv, TypeOK
  <1>2. ASSUME NEW list \in scope.lists, SetIPList(list) PROVE FailoverInv'
    BY <1>2, RequestsKept DEF SetIPList
  <1>3. ASSUME NEW r \in scope.requests,
               \E stream, test \in BOOLEAN : Begin(r, stream, test)
        PROVE  FailoverInv'
    BY <1>1, <1>3, BeginStep
  <1>4. ASSUME NEW r \in scope.requests, RequestStep(r) PROVE FailoverInv'
    <2>1. r \in Requests
      BY <1>1
    <2>2. CASE \E tooOld \in SUBSET BadIPMap :
                  FirstIP(r, tooOld) \/ SecondIP(r, tooOld) \/ NextIP(r, tooOld)
      BY <2>1, <2>2, FirstIPStep, SecondIPStep, NextIPStep
    <2>3. CASE AllBad(r)
      BY <2>1, <2>3, AllBadStep
    <2>4. CASE \E error \in scope.outcomes : Attempt(r, error)
      BY <2>1, <2>4, AttemptStep
    <2>5. CASE LogBadIPAddr(r)
      BY <2>1, <2>5, LogBadIPAddrStep
    <2> QED
      BY <1>4, <2>2, <2>3, <2>4, <2>5 DEF RequestStep
  <1>5. ASSUME NEW r \in scope.requests, Return(r) PROVE FailoverInv'
    BY <1>1, <1>5, ReturnStep
  <1>6. CASE UNCHANGED vars
    BY <1>1, <1>6, RequestsKept DEF vars
  <1> QED
    BY <1>2, <1>3, <1>4, <1>5, <1>6 DEF Next

(* The inductive invariant of SendRequest holds throughout.                *)
THEOREM FailoverInvariant ==
    Spec => []FailoverInv
  BY FailoverInit, FailoverStep, PTL DEF Spec

(* The variables of SendRequest and of the host's maps keep their types:   *)
(* GetNextECSIP never leaves an index without an address for an attempt.   *)
THEOREM FailoverTypeOK ==
    Spec => []TypeOK
  <1>1. FailoverInv => TypeOK
    BY DEF FailoverInv
  <1> QED
    BY <1>1, FailoverInvariant, PTL

(* Whatever overlapping requests mark, LogBadIPAddr and TestAllIPBad never *)
(* leave a host with all addresses of its list bad.                        *)
THEOREM FailoverSomeIPUsable ==
    Spec => []SomeIPUsable
  <1>1. FailoverInv => SomeIPUsable
    BY DEF FailoverInv
  <1> QED
    BY <1>1, FailoverInvariant, PTL

(* The loop of SendRequest repeats neither a request that was answered nor *)
(* a stream, and keeps to the limits on timeouts and on attempts, even when*)
(* a test connection lowers the limit under it.                            *)
THEOREM FailoverNeverResent ==
    Spec => []NeverResent
  <1>1. FailoverInv => NeverResent
    BY DEF FailoverInv, ReqInv, SentOnce, NeverResent
  <1> QED
    BY <1>1, FailoverInvariant, PTL

-----------------------------------------------------------------------------
(* AloneFindsAddress: what TestAllIPBad leaves usable is what the second   *)
(* GetNextECSIP finds.                                                     *)

(* The search of GetNextECSIP visits every address of the list.            *)
LEMMA GoodPlaceExists ==
    ASSUME NEW list \in IPLists, LoadBal \in Nat, NEW bad, ~(Range(list) \subseteq bad)
    PROVE  GoodPlaces(list, bad) # {}
  <1> DEFINE n == Len(list)
             st == Start(list)
  <1>1. list \in Seq(AllIPs) /\ n \in Nat /\ n > 0
    BY Lists
  <1>2. st \in 0 .. n - 1
    BY <1>1 DEF Start
  <1>3. PICK j \in 1 .. n : list[j] \notin bad
    BY <1>1 DEF Range
  <1> HIDE DEF n, st
  <1> DEFINE k == IF j - 1 >= st THEN (j - 1) - st ELSE ((j - 1) + n) - st
  <1>4. k \in 0 .. n - 1
    BY <1>1, <1>2
  <1>5. (st + k) % n = j - 1
    <2>1. CASE j - 1 >= st
      <3>1. st + k = j - 1 /\ j - 1 \in 0 .. n - 1
        BY <1>1, <1>2, <2>1
      <3> HIDE DEF k
      <3> QED
        BY <1>1, <3>1
    <2>2. CASE ~(j - 1 >= st)
      <3>1. st + k = (j - 1) + n /\ j - 1 \in 0 .. n - 1
        BY <1>1, <1>2, <2>2
      <3> HIDE DEF k
      <3> QED
        BY <1>1, <3>1
    <2> QED
      BY <2>1, <2>2
  <1> HIDE DEF k
  <1>6. At(list, st, k) = list[j]
    BY <1>1, <1>5 DEF At, n
  <1> QED
    BY <1>3, <1>4, <1>6 DEF GoodPlaces, n, st

(* A request that nobody disturbs has an address when it asks again.       *)
Alone(r) ==
    /\ req[r].Error # "no addresses"
    /\ req[r].pc = "second" => ~(Range(req[r].list) \subseteq BadIPMap)

AloneInv == \A r \in Requests : scope.requests = {r} => Alone(r)

(* GetNextECSIP with an address to find.                                   *)
LEMMA FindsECSIP ==
    ASSUME FailoverInv, NEW r \in Requests, req[r].pc = "second", Alone(r),
           NEW tooOld, SecondIP(r, tooOld)
    PROVE  Alone(r)'
  <1> DEFINE q == req[r]
             bad == BadIPMap \ tooOld
             place == Place(q.list, bad)
             found == [q EXCEPT !.pc = "send"]
             p == [found EXCEPT !.iIPList = place, !.ip = q.list[place + 1]]
  <1>1. /\ q \in Request /\ req \in [Requests -> Request]
        /\ q.list \in IPLists /\ LoadBal \in Nat
    BY ScopeLists DEF FailoverInv, TypeOK, ReqInv
  <1>2. GoodPlaces(q.list, bad) # {}
    BY <1>1, GoodPlaceExists DEF Alone
  <1>3. req' = [req EXCEPT ![r] = p]
    BY <1>2 DEF SecondIP, GetNextECSIP
  <1>4. p.pc = "send" /\ p.Error = q.Error
    BY <1>1 DEF Request
  <1> HIDE DEF p
  <1>5. req'[r] = p
    BY <1>1, <1>3
  <1> QED
    BY <1>4, <1>5 DEF Alone

(* The other steps of the request that look for an address.                *)
LEMMA KeepsError ==
    ASSUME FailoverInv, NEW r \in Requests, req[r].pc # "idle", Alone(r),
           NEW tooOld, NEW found, NEW notFound,
           GetNextECSIP(r, tooOld, found, notFound),
           found \in Request, found.Error = req[r].Error, found.pc # "second",
           notFound \in Request, notFound.Error = req[r].Error, notFound.pc # "second"
    PROVE  Alone(r)'
  <1>1. req \in [Requests -> Request] /\ req[r].list \in IPLists /\ TypeOK
    BY ScopeLists DEF FailoverInv, TypeOK, ReqInv
  <1>2. PICK place \in Nat, ip \in AllIPs :
          \/ req' = [req EXCEPT ![r] = [found EXCEPT !.iIPList = place, !.ip = ip]]
          \/ req' = [req EXCEPT ![r] = [notFound EXCEPT !.iIPList = place]]
    <2>1. Continues(r, found, notFound)
      BY <1>1, NextECSIP
    <2> QED
      BY <2>1 DEF Continues
  <1> DEFINE f == [found EXCEPT !.iIPList = place, !.ip = ip]
             n == [notFound EXCEPT !.iIPList = place]
  <1>3. f.pc = found.pc /\ f.Error = found.Error /\ n.pc = notFound.pc
        /\ n.Error = notFound.Error
    BY DEF Request
  <1>4. req'[r] = f \/ req'[r] = n
    BY <1>1, <1>2
  <1> HIDE DEF f, n
  <1> QED
    BY <1>3, <1>4 DEF Alone

(* The steps of a request that is alone.                                   *)
LEMMA AloneRequestStep ==
    ASSUME FailoverInv, NEW r \in Requests, Alone(r), RequestStep(r)
    PROVE  Alone(r)'
  <1> DEFINE q == req[r]
  <1>1. req \in [Requests -> Request] /\ q \in Request
    BY DEF FailoverInv, TypeOK
  <1>2. ASSUME NEW tooOld, FirstIP(r, tooOld) PROVE Alone(r)'
    <2> DEFINE s == [q EXCEPT !.pc = "send"]
               b == [q EXCEPT !.pc = "all bad"]
    <2>1. q.pc = "first" /\ GetNextECSIP(r, tooOld, s, b)
      BY <1>2 DEF FirstIP
    <2>2. /\ s \in Request /\ s.Error = q.Error /\ s.pc = "send"
          /\ b \in Request /\ b.Error = q.Error /\ b.pc = "all bad"
      BY <1>1 DEF Request
    <2> HIDE DEF s, b
    <2> QED
      BY <2>1, <2>2, KeepsError
  <1>3. ASSUME NEW tooOld, SecondIP(r, tooOld) PROVE Alone(r)'
    BY <1>3, FindsECSIP DEF SecondIP
  <1>4. ASSUME NEW tooOld, NextIP(r, tooOld) PROVE Alone(r)'
    <2> DEFINE pc == IF q.i + 1 < dwMaxRetryCount THEN "send" ELSE "failed"
               a == [q EXCEPT !.i = @ + 1, !.pc = pc]
               o == [q EXCEPT !.pc = "failed"]
    <2>1. q.pc = "next" /\ GetNextECSIP(r, tooOld, a, o)
      BY <1>4 DEF NextIP
    <2>2. pc \in {"send", "failed"} /\ q.i + 1 \in Nat
      <3>1. q.i \in Nat
        BY <1>1 DEF Request
      <3> QED
        BY <3>1
    <2>3. /\ a \in Request /\ a.Error = q.Error /\ a.pc = pc
          /\ o \in Request /\ o.Error = q.Error /\ o.pc = "failed"
      <3> HIDE DEF pc
      <3> QED
        BY <1>1, <2>2 DEF Request
    <2> HIDE DEF pc, a, o
    <2> QED
      BY <2>1, <2>2, <2>3, KeepsError
  <1>5. CASE AllBad(r)
    <2>1. /\ q.list \in IPLists /\ req' = [req EXCEPT ![r].pc = "second"]
          /\ BadIPMap' = TestAllIPBad(q.list, BadIPMap)
      BY <1>5, ScopeLists DEF AllBad, FailoverInv, TypeOK, ReqInv
    <2>2. req'[r].list = q.list /\ req'[r].Error = q.Error
      BY <1>1, <2>1 DEF Request
    <2> QED
      BY <2>1, <2>2, TestLeavesOne DEF Alone
  <1>6. ASSUME NEW error \in scope.outcomes, Attempt(r, error) PROVE Alone(r)'
    <2>1. error # "no addresses"
      BY FailoverAssumption, ScopeLists
      DEF FailoverInv, TypeOK, AllOutcomes, Answered, MarksIPBad
    <2> DEFINE t == [q EXCEPT !.attempts = Append(@, error), !.Error = error]
               p == IF error = "ok"
                      THEN [t EXCEPT !.pc = IF t.IPUsed = {} THEN "done" ELSE "log"]
                    ELSE IF GivesUp(t, error) THEN Throw(t, error)
                    ELSE IF error = "aborted" THEN [t EXCEPT !.pc = "failed"]
                    ELSE [t EXCEPT !.pc = "next",
                            !.IPUsed = IF error \in MarksIPBad THEN @ \cup {t.ip} ELSE @]
    <2>2. req' = [req EXCEPT ![r] = p]
      BY <1>6, Zenon DEF Attempt
    <2>3. p.Error = error /\ p.pc # "second"
      BY <1>1 DEF Request, Throw
    <2> HIDE DEF p
    <2>4. req'[r] = p
      BY <1>1, <2>2
    <2> QED
      BY <2>1, <2>3, <2>4 DEF Alone
  <1>7. CASE LogBadIPAddr(r)
    <2>1. req'[r].pc = "done" /\ req'[r].Error = q.Error
      BY <1>1, <1>7 DEF LogBadIPAddr, Request
    <2> QED
      BY <2>1 DEF Alone
  <1> QED
    BY <1>2, <1>3, <1>4, <1>5, <1>6, <1>7 DEF RequestStep

(* Only the request itself moves when it is alone.                         *)
LEMMA AloneStep ==
    FailoverInv /\ AloneInv /\ [Next]_vars => AloneInv'
  <1> SUFFICES ASSUME FailoverInv, AloneInv, [Next]_vars,
                      NEW r \in Requests, (scope.requests = {r})'
               PROVE  Alone(r)'
    BY DEF AloneInv
  <1>1. scope' = scope /\ req \in [Requests -> Request]
    BY DEF Next, RequestStep, SetIPList, Begin, FirstIP, SecondIP, NextIP, GetNextECSIP,
           AllBad, Attempt, LogBadIPAddr, Return, vars, FailoverInv, TypeOK
  <1>2. scope.requests = {r} /\ Alone(r)
    BY <1>1 DEF AloneInv
  <1>3. CASE UNCHANGED <<req, BadIPMap>>
    BY <1>2, <1>3 DEF Alone
  <1>4. CASE \E stream, test \in BOOLEAN : Begin(r, stream, test)
    <2>1. PICK stream, test \in BOOLEAN : Begin(r, stream, test)
      BY <1>4
    <2>2. req'[r].Error = "ok" /\ req'[r].pc = "first"
      BY <1>1, <2>1 DEF Begin, NoRequest
    <2> QED
      BY <2>2 DEF Alone
  <1>5. CASE RequestStep(r)
    BY <1>2, <1>5, AloneRequestStep
  <1>6. CASE Return(r)
    BY <1>1, <1>6 DEF Return, NoRequest, Alone
  <1> QED
    BY <1>2, <1>3, <1>4, <1>5, <1>6 DEF Next, SetIPList, vars

(* A request with the host to itself always finds an address: TestAllIPBad *)
(* clears the map when all of its list is marked, and the search of        *)
(* GetNextECSIP, from wherever the load balancer is, goes round the list.  *)
THEOREM FailoverAloneFindsAddress ==
    Spec => []AloneFindsAddress
  <1>1. Init => AloneInv
    <2>1. NoRequest.Error = "ok" /\ NoRequest.pc = "idle"
      BY DEF NoRequest
    <2>2. Init => \A r \in Requests : req[r] = NoRequest
      BY DEF Init
    <2> QED
      BY <2>1, <2>2 DEF AloneInv, Alone
  <1>2. FailoverInv /\ AloneInv => AloneFindsAddress
    BY DEF AloneInv, Alone, AloneFindsAddress
  <1> QED
    BY <1>1, <1>2, FailoverInvariant, AloneStep, PTL DEF Spec

=============================================================================
