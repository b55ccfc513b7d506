----------------------------- MODULE BulkDelete -----------------------------
(***************************************************************************)
(* DeleteS3: a list of paths is deleted with everything below its folders. *)
(* DeleteS3Internal lists a folder, calls itself for what it finds and     *)
(* then adds the folder to S3DeletePathList; DeleteS3Send takes keys from  *)
(* the list, MaxS3DeleteObjects at a time, into one request.  A request    *)
(* may fail before or after the server has acted, the server may refuse    *)
(* single keys, and another client changes the bucket all the time.        *)
(*                                                                         *)
(* The recursion is a stack of frames.  Version ids are left out.          *)
(***************************************************************************)
EXTENDS Listing

CONSTANTS PathLists,            \* the lists of paths that are deleted
          OtherBucket,          \* keys of another bucket
          MaxS3DeleteObjects    \* keys of a request

ASSUME DeleteAssumption ==
    /\ PathLists \subseteq Seq(Keys) \ {<< >>}
    /\ OtherBucket \subseteq Keys \ Folders
    /\ MaxS3DeleteObjects \in Nat \ {0}

VARIABLES delete,       \* the call: its frames, S3DeletePathList and result
          doomed,       \* history: objects to delete, there since the call began
          sent          \* history: the keys in the order they were sent

deleteVars == <<delete, doomed, sent>>

Frame(paths) == [todo |-> paths, listed |-> FALSE]

DeleteTypeOK ==
    /\ delete.pc \in {"idle", "paths", "listing", "send", "last send", "done"}
    /\ \A i \in DOMAIN delete.frames : delete.frames[i] \in [todo : Seq(Keys), listed : BOOLEAN]
    /\ delete.S3DeletePathList \in Seq(Keys)
    /\ delete.Error \in {"ok", "failed", "malformed", "refused", "invalid"}
    /\ doomed \subseteq objects /\ sent \in Seq(Keys)

DeleteInit ==
    /\ delete = [pc |-> "idle", frames |-> << >>, S3DeletePathList |-> << >>, Error |-> "ok"]
    /\ doomed = {} /\ sent = << >>
-----------------------------------------------------------------------------
Under(paths) == UNION {{k} \cup (IF k \in Folders THEN Below[k] ELSE {}) : k \in Range(paths)}

(* A listing with a delimiter, of all pages.                               *)
FolderListing(f) ==
    [kind |-> "objects", folder |-> f, delimiter |-> TRUE, single |-> FALSE, paged |-> FALSE]

Throw(error) == delete' = [delete EXCEPT !.pc = "done", !.Error = error]

(* DeleteS3 of a list of paths; a path that ends with a slash is a list    *)
(* of one path.                                                            *)
DeleteBegin(paths) ==
    /\ delete' = [pc |-> "paths", frames |-> <<Frame(paths)>>, S3DeletePathList |-> << >>,
                  Error |-> "ok"]
    /\ doomed' = objects \cap Under(paths)
    /\ UNCHANGED <<sent, listVars>>

(* DeleteS3 of one object: a DELETE request, which may fail before or      *)
(* after the object is gone.                                               *)
DeleteObject(k) ==
    /\ k \notin Folders
    /\ \/ objects' = objects \ {k} /\ doomed' = {} /\ sent' = <<k>>
          /\ \E error \in {"ok", "failed"} : Throw(error)
       \/ Throw("failed") /\ sent' = <<k>> /\ doomed' = objects \cap {k} /\ UNCHANGED objects
    /\ UNCHANGED <<listing, changes, stable, ever>>

(* The path of the loop of DeleteS3Internal, in the innermost call.        *)
Top == delete.frames[Len(delete.frames)]
Path == Head(Top.todo)
InLoop == delete.pc = "paths" /\ delete.frames # << >>

DeleteList ==
    /\ InLoop /\ Top.todo # << >> /\ Path \in Folders /\ ~Top.listed
    /\ delete' = [delete EXCEPT !.pc = "listing"]
    /\ ListBegin(FolderListing(Path))
    /\ UNCHANGED <<objects, changes, doomed, sent>>

(* Seeded fault: a folder that is not found is listed again.               *)
AfterListingAgain(error) ==
    IF error = "ok"
      THEN Append([delete.frames EXCEPT ![Len(delete.frames)].listed = TRUE],
                  Frame(listing.DirList))
      ELSE delete.frames

(* DeleteS3Internal calls itself for what was found.                       *)
AfterListing(error) ==
    LET frames == [delete.frames EXCEPT ![Len(delete.frames)].listed = TRUE]
    IN  IF error = "ok" THEN Append(frames, Frame(listing.DirList)) ELSE frames

(* The listing is back.  A folder that is not found is deleted all the     *)
(* same, any other error ends the whole call.                              *)
DeleteListed ==
    /\ delete.pc = "listing" /\ listing.pc = "done"
    /\ IF listing.Error \in {"ok", "not found"}
         THEN delete' = [delete EXCEPT !.pc = "paths", !.frames = AfterListing(listing.Error)]
         ELSE Throw(listing.Error)
    /\ UNCHANGED <<listVars, doomed, sent>>

(* The path is added to S3DeletePathList.                                  *)
DeleteAdd ==
    /\ InLoop /\ Top.todo # << >> /\ (Path \in Folders => Top.listed)
    /\ LET list == Append(delete.S3DeletePathList, Path)
       IN  delete' = [delete EXCEPT
                        !.frames[Len(delete.frames)] = Frame(Tail(Top.todo)),
                        !.S3DeletePathList = list,
                        !.pc = IF Len(list) > MaxS3DeleteObjects THEN "send" ELSE "paths"]
    /\ UNCHANGED <<listVars, doomed, sent>>

(* The innermost call returns; after the outermost the rest is sent.       *)
DeleteReturn ==
    /\ InLoop /\ Top.todo = << >>
    /\ delete' = [delete EXCEPT !.frames = Front(@),
                                !.pc = IF Len(delete.frames) > 1 THEN "paths" ELSE "last send"]
    /\ UNCHANGED <<listVars, doomed, sent>>

Descending(S) ==
    [i \in 1..Cardinality(S) |-> CHOOSE k \in S : Cardinality({j \in S : j > k}) = i - 1]

(* Seeded fault: the request is filled from the front of the list.         *)
BatchFromFront(list) ==
    LET keys == Ascending(Range(list))
    IN  SubSeq(keys, 1, IF Len(keys) < MaxS3DeleteObjects THEN Len(keys) ELSE MaxS3DeleteObjects)

(* What DeleteS3Send puts into the request: the list is sorted, doubles    *)
(* are dropped, and keys are taken from its end.                           *)
Batch(list) ==
    LET keys == Descending(Range(list))
    IN  SubSeq(keys, 1, IF Len(keys) < MaxS3DeleteObjects THEN Len(keys) ELSE MaxS3DeleteObjects)

Rest(list) == Ascending(Range(list) \ Range(Batch(list)))

OneBucket(batch) == Range(batch) \subseteq OtherBucket \/ Range(batch) \cap OtherBucket = {}

Sending == delete.pc \in {"send", "last send"}

Sent ==
    /\ sent' = sent \o Batch(delete.S3DeletePathList)
    /\ UNCHANGED <<listing, changes, stable, ever>>

Gone(keys) == objects' = objects \ keys /\ doomed' = doomed \ keys

(* Nothing is left to send.                                                *)
DeleteNothing ==
    /\ delete.pc = "last send" /\ delete.S3DeletePathList = << >>
    /\ Throw("ok")
    /\ UNCHANGED <<listVars, doomed, sent>>

(* No request is made: the XML writer fails, or the keys are not all in    *)
(* one bucket (then this is the only thing that can happen).               *)
DeleteInvalid ==
    /\ Sending /\ delete.S3DeletePathList # << >>
    /\ Throw("invalid")
    /\ UNCHANGED <<listVars, doomed, sent>>

(* The request fails, before the server has acted or after it.             *)
DeleteSendFails ==
    /\ Sending /\ delete.S3DeletePathList # << >>
    /\ OneBucket(Batch(delete.S3DeletePathList))
    /\ \E keys \in {{}, Range(Batch(delete.S3DeletePathList))} : Gone(keys)
    /\ Throw("failed")
    /\ Sent

(* Seeded fault: the Error elements of the answer are not looked at.       *)
AnsweredUnread(refused) ==
    delete' = [delete EXCEPT !.S3DeletePathList = Rest(@),
                             !.pc = IF delete.pc = "send" THEN "paths" ELSE "done"]

(* XmlDeleteS3CB collects the Error elements of the answer: one is enough  *)
(* to end the call.                                                        *)
Answered(refused) ==
    IF refused # {} THEN Throw("refused")
    ELSE delete' = [delete EXCEPT !.S3DeletePathList = Rest(@),
                                  !.pc = IF delete.pc = "send" THEN "paths" ELSE "done"]

DeleteSend ==
    /\ Sending /\ delete.S3DeletePathList # << >>
    /\ OneBucket(Batch(delete.S3DeletePathList))
    /\ \E refused \in SUBSET Range(Batch(delete.S3DeletePathList)) :
         /\ Gone(Range(Batch(delete.S3DeletePathList)) \ refused)
         /\ Answered(refused)
    /\ Sent

DeleteStep ==
    \/ DeleteList \/ DeleteListed \/ DeleteAdd \/ DeleteReturn
    \/ DeleteNothing \/ DeleteInvalid \/ DeleteSendFails \/ DeleteSend

(* The other client, as the histories of a delete see it.                  *)
DeleteOther(k) == OtherClient(k) /\ doomed' = doomed \ {k} /\ UNCHANGED <<delete, sent>>
-----------------------------------------------------------------------------
(* A folder is sent after everything below it that is still to be deleted, *)
(* however the keys are spread over the requests: a client that stops in   *)
(* between never leaves objects in a folder whose own entry is gone.       *)
FolderAfterContents ==
    \A i \in DOMAIN sent :
        sent[i] \in Folders => doomed \cap Below[sent[i]] \subseteq {sent[j] : j \in 1..(i - 1)}

(* A delete that succeeds has deleted every object that was at or below    *)
(* its paths when it began, or another client has.                         *)
DeleteIsReal == delete.pc = "done" /\ delete.Error = "ok" => doomed = {}
=============================================================================
