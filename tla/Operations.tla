---------------------------- MODULE Operations ----------------------------
(***************************************************************************)
(* The operations of CECSConnection that take more than one request: a     *)
(* thread lists a bucket (Listing), deletes (BulkDelete), copies, renames  *)
(* or updates an object (CopyObject), or calls administrative functions    *)
(* (Admin).  Another client works on the same objects.  SendRequest, with  *)
(* its retries and time-outs (Failover, Connection), is one step here.     *)
(***************************************************************************)
EXTENDS BulkDelete, CopyObject, Admin

VARIABLE op     \* the operation the thread has called

vars == <<listVars, deleteVars, copyVars, adminVars, op>>

TypeOK ==
    /\ ListTypeOK /\ DeleteTypeOK /\ CopyTypeOK /\ AdminTypeOK
    /\ op \in {"none", "list", "delete", "copy", "admin"}

Init == ListInit /\ DeleteInit /\ CopyInit /\ AdminInit /\ op = "none"
-----------------------------------------------------------------------------
CallListing ==
    /\ op = "none" /\ op' = "list"
    /\ \E what \in Listings : ListBegin(what)
    /\ UNCHANGED <<objects, changes, deleteVars, copyVars, adminVars>>

CallDelete ==
    /\ op = "none" /\ op' = "delete"
    /\ \E paths \in PathLists :
         DeleteBegin(paths) \/ (Len(paths) = 1 /\ DeleteObject(Head(paths)))
    /\ UNCHANGED <<copyVars, adminVars>>

CallCopy ==
    /\ op = "none" /\ op' = "copy"
    /\ \E what \in Copies : CopyBegin(what)
    /\ UNCHANGED <<listVars, deleteVars, adminVars>>

CallAdmin ==
    /\ op = "none" /\ op' = "admin"
    /\ UNCHANGED <<listVars, deleteVars, copyVars, adminVars>>

(* A step of the operation that was called.                                *)
ListingSteps ==
    /\ op \in {"list", "delete"} /\ ListStep
    /\ UNCHANGED <<deleteVars, copyVars, adminVars, op>>

Deleting == op = "delete" /\ DeleteStep /\ UNCHANGED <<copyVars, adminVars, op>>
Copying == op = "copy" /\ CopyStep /\ UNCHANGED <<listVars, deleteVars, adminVars, op>>
Administering ==
    /\ op = "admin" /\ \E t \in AdminThreads : AdminStep(t)
    /\ UNCHANGED <<listVars, deleteVars, copyVars, op>>

(* Other clients, and the clean-up of thread states.                       *)
Others ==
    \/ /\ op \in {"list", "delete"} /\ \E k \in Keys : DeleteOther(k)
       /\ UNCHANGED <<copyVars, adminVars, op>>
    \/ op = "copy" /\ CopyOther /\ UNCHANGED <<listVars, deleteVars, adminVars, op>>
    \/ /\ op = "admin" /\ \E t \in AdminThreads : AdminForget(t)
       /\ UNCHANGED <<listVars, deleteVars, copyVars, op>>

Next ==
    \/ CallListing \/ CallDelete \/ CallCopy \/ CallAdmin
    \/ ListingSteps \/ Deleting \/ Copying \/ Administering \/ Others

(* The thread goes on with its call: SendRequest returns, unless its       *)
(* set-up fails in a state of the connection that is new (see RequestReturns*)
(* in the module Connection); that is left out here.                       *)
Fairness == WF_vars(ListingSteps) /\ WF_vars(Deleting) /\ WF_vars(Copying) /\ WF_vars(Administering)

Spec == Init /\ [][Next]_vars /\ Fairness
-----------------------------------------------------------------------------
Returned ==
    /\ op = "list" => listing.pc = "done"
    /\ op = "delete" => delete.pc = "done"
    /\ op = "copy" => copy.pc = "done"
    /\ op = "admin" => \A t \in AdminThreads : admin[t].pc = "idle"

(* Every call returns, if each of its requests does: no listing asks for   *)
(* the same page for ever, and no delete goes round in its recursion.      *)
OperationReturns == (op # "none") ~> Returned
===========================================================================
