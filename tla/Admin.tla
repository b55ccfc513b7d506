------------------------------- MODULE Admin -------------------------------
(***************************************************************************)
(* The administrative functions of CECSConnection.  They talk to another   *)
(* port of the server than S3 does: each saves the Port of the connection  *)
(* object, sets its own, sends one request and sets the saved one again.   *)
(* The object is shared by threads; the X-SDS-AUTH-TOKEN of a login is in  *)
(* the state of the calling thread.                                        *)
(***************************************************************************)
EXTENDS Naturals

CONSTANTS AdminThreads,     \* threads that call administrative functions
          S3Port,           \* the port the application has set
          MaxAdminCalls     \* bound on the calls of a thread

ASSUME AdminAssumption == S3Port \in Nat /\ MaxAdminCalls \in Nat

VARIABLES Port,             \* of the connection object
          admin,            \* the call of each thread
          token,            \* whether each thread's state has an sX_SDS_AUTH_TOKEN
          left              \* history: a call has left without setting the port again

adminVars == <<Port, admin, token, left>>
-----------------------------------------------------------------------------
(* The functions: the port, whether there is a body to be written by the   *)
(* XML writer, whether the token goes with the request.                    *)
Function(port, body, sendsToken) == [port |-> port, body |-> body, sendsToken |-> sendsToken]

ECSAdminLogin            == Function(4443, FALSE, FALSE)
ECSAdminLogout           == Function(4443, FALSE, TRUE)
ECSAdminGetUserList      == Function(4443, FALSE, TRUE)
ECSAdminCreateUser       == Function(4443, TRUE, TRUE)
ECSAdminGetKeysForUser   == Function(4443, FALSE, TRUE)
ECSAdminCreateKeyForUser == Function(4443, TRUE, TRUE)
ECSAdminBillingBucket    == Function(4443, FALSE, TRUE)
ECSAdminCapacity         == Function(4443, FALSE, TRUE)
ECSAdminBucketInfo       == Function(4443, FALSE, TRUE)
ECSDTQuery               == Function(9101, FALSE, FALSE)
AdminFunctions ==
    {ECSAdminLogin, ECSAdminLogout, ECSAdminGetUserList, ECSAdminCreateUser,
     ECSAdminGetKeysForUser, ECSAdminCreateKeyForUser, ECSAdminBillingBucket,
     ECSAdminCapacity, ECSAdminBucketInfo, ECSDTQuery}

AdminTypeOK ==
    /\ Port \in {S3Port, 4443, 9101}
    /\ admin \in [AdminThreads -> [pc : {"idle", "set", "request", "restore"},
                                   f : AdminFunctions, wSavePort : {S3Port, 4443, 9101},
                                   reached : {S3Port, 4443, 9101}, calls : 0..MaxAdminCalls]]
    /\ token \in [AdminThreads -> BOOLEAN] /\ left \in BOOLEAN

AdminInit ==
    /\ Port = S3Port /\ left = FALSE
    /\ admin = [t \in AdminThreads |-> [pc |-> "idle", f |-> ECSDTQuery, wSavePort |-> S3Port,
                                        reached |-> S3Port, calls |-> 0]]
    /\ token = [t \in AdminThreads |-> FALSE]
-----------------------------------------------------------------------------
(* wSavePort = Port.                                                       *)
AdminSave(t) ==
    /\ admin[t].pc = "idle" /\ admin[t].calls < MaxAdminCalls
    /\ \E f \in AdminFunctions :
         admin' = [admin EXCEPT ![t].pc = "set", ![t].f = f, ![t].wSavePort = Port,
                                ![t].calls = @ + 1]
    /\ UNCHANGED <<Port, token, left>>

(* SetPort (KillHostSessions is a step of Connection).                     *)
SetPort(port) == Port' = port

AdminSetPort(t) ==
    /\ admin[t].pc = "set"
    /\ SetPort(admin[t].f.port)
    /\ admin' = [admin EXCEPT ![t].pc = "request"]
    /\ UNCHANGED <<token, left>>

(* The XML writer fails: the exception passes the line that sets the port  *)
(* again.                                                                  *)
AdminXmlFails(t) ==
    /\ admin[t].pc = "request" /\ admin[t].f.body
    /\ admin' = [admin EXCEPT ![t].pc = "idle"]
    /\ left' = TRUE
    /\ UNCHANGED <<Port, token>>

(* Seeded fault: a call whose request fails returns at once.               *)
AfterRequestEarly(ok) == IF ok THEN "restore" ELSE "idle"

(* What follows the request, whether it failed or not.                     *)
AfterRequest(ok) == "restore"

(* What becomes of the token when the request succeeds: a login gets one,  *)
(* or keeps the one it has if the answer has none; a logout drops it.      *)
TokenAfter(f, has, given) ==
    CASE f = ECSAdminLogin  -> has \/ given
      [] f = ECSAdminLogout -> FALSE
      [] OTHER              -> has

(* SendRequest, to the port of the object.  Without a token the server     *)
(* refuses what needs one.                                                 *)
AdminRequest(t) ==
    /\ admin[t].pc = "request"
    /\ \E ok \in {FALSE, admin[t].f.sendsToken => token[t]}, given \in BOOLEAN :
         /\ admin' = [admin EXCEPT ![t].pc = AfterRequest(ok), ![t].reached = Port]
         /\ token' = [token EXCEPT ![t] = IF ok THEN TokenAfter(admin[t].f, @, given) ELSE @]
    /\ UNCHANGED <<Port, left>>

(* SetPort(wSavePort); what the answer holds is then copied out.           *)
AdminRestore(t) ==
    /\ admin[t].pc = "restore"
    /\ SetPort(admin[t].wSavePort)
    /\ admin' = [admin EXCEPT ![t].pc = "idle"]
    /\ UNCHANGED <<token, left>>

(* GarbageCollect frees the state of a thread that has not used the object *)
(* for a while, and with it the token.                                     *)
AdminForget(t) ==
    /\ admin[t].pc = "idle" /\ token[t]
    /\ token' = [token EXCEPT ![t] = FALSE]
    /\ UNCHANGED <<Port, admin, left>>

AdminStep(t) ==
    AdminSave(t) \/ AdminSetPort(t) \/ AdminXmlFails(t) \/ AdminRequest(t) \/ AdminRestore(t)
-----------------------------------------------------------------------------
(* Between administrative calls the object has the port the application    *)
(* has set, whatever became of the requests, and the requests of a call go *)
(* to the call's port; a call that left early is excepted.                 *)
PortKept ==
    /\ (~left /\ \A t \in AdminThreads : admin[t].pc = "idle") => Port = S3Port
    /\ \A t \in AdminThreads : admin[t].pc = "restore" => admin[t].reached = admin[t].f.port
=============================================================================
