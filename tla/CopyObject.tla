----------------------------- MODULE CopyObject -----------------------------
(***************************************************************************)
(* RenameS3 (which also copies), CopyS3 and UpdateMetadata: calls of many  *)
(* requests on an object that other clients write in between.  A request   *)
(* may fail before or after the server has acted on it.                    *)
(*                                                                         *)
(* An object has a content (one generation per part; a part is what one    *)
(* request of a multi-part copy reads), metadata (the headers it was made  *)
(* with, x-amz-meta- or not) and an ACL.                                   *)
(***************************************************************************)
EXTENDS Naturals, Sequences, FiniteSets

CONSTANTS Headers,      \* names of headers
          MetaHeaders,  \* those that begin with x-amz-meta-
          Empty,        \* those that the writers of the source leave empty
          ContentType,  \* "content-type"
          Parts,        \* parts of an object of 5 GB or more
          Copies,       \* the calls that are made
          MaxWrites     \* bound on the writes of other clients

(* update: UpdateMetadata, one request on the object itself; otherwise     *)
(* RenameS3, with bCopy or without.  large: 5 GB or more.  version: with a *)
(* version id.  same: to the object's own path.  given, deleted: headers;  *)
(* blank: those of the given whose value is empty.                         *)
CopyCalls ==
    [update : BOOLEAN, bCopy : BOOLEAN, large : BOOLEAN, version : BOOLEAN, same : BOOLEAN,
     given : SUBSET Headers, blank : SUBSET Headers, deleted : SUBSET Headers]

ASSUME CopyAssumption ==
    /\ Parts \in Nat \ {0} /\ MaxWrites \in Nat /\ Copies \subseteq CopyCalls
    /\ MetaHeaders \subseteq Headers /\ ContentType \in Headers \ MetaHeaders
    /\ \A what \in Copies :
         what.update => what.same /\ ~what.bCopy /\ ~what.large /\ ~what.version

VARIABLES store,        \* the objects at the two paths
          versions,     \* every generation written to "old", as it was
          copy          \* the call

copyVars == <<store, versions, copy>>

(* Values of headers: the generation of the writer of the object, or these.*)
Given == 0                     \* what the caller of the copy gave
Blank == MaxWrites + 2         \* the empty value
OctetStream == MaxWrites + 3   \* application/octet-stream

(* The ACL of generation g, with its owner and the types of its grantees,  *)
(* and as WriteACL writes it: no owner, every grantee a canonical user,    *)
(* the groups too.  The ACL that a new object has by default is Own(0).    *)
Own(g) == [of |-> g, users |-> FALSE]
AsUsers(g) == [of |-> g, users |-> TRUE]

None == [parts |-> << >>, md |-> << >>, acl |-> Own(0)]
Written(g) ==
    [parts |-> [i \in 1..Parts |-> g],
     md |-> [h \in Headers |-> IF h \in Empty THEN Blank ELSE g],
     acl |-> Own(g)]

CopyTypeOK ==
    /\ DOMAIN store = {"old", "new"} /\ Len(versions) \in 1..(MaxWrites + 1)
    /\ copy.pc \in {"idle", "acl", "head", "copy", "initiate", "part", "abort",
                    "write acl", "delete", "done"}
    /\ copy.Error \in {"ok", "failed"} /\ copy.Acls \in 0..(MaxWrites + 1)
    /\ Len(copy.parts) <= Parts /\ copy.upload \in BOOLEAN

CopyInit ==
    /\ store = [old |-> Written(1), new |-> None]
    /\ versions = <<Written(1)>>
    /\ copy = [pc |-> "idle", what |-> << >>, Acls |-> 0, MDList |-> << >>, parts |-> << >>,
               upload |-> FALSE, Error |-> "ok"]
-----------------------------------------------------------------------------
What == copy.what

(* Where requests for the source go: with a version id to that version.    *)
Source == IF What.version THEN versions[1] ELSE store["old"]

Goto(pc) == copy' = [copy EXCEPT !.pc = pc]
Return(error) == copy' = [copy EXCEPT !.pc = "done", !.Error = error]

(* A request without effect, or one that is lost on the way back.          *)
Fails == Return("failed") /\ UNCHANGED store

(* RenameS3 and UpdateMetadata.                                            *)
CopyBegin(what) ==
    /\ copy' = [copy EXCEPT !.what = what, !.pc = IF what.update THEN "head" ELSE "acl"]
    /\ UNCHANGED <<store, versions>>

(* ReadACL with TranslateACLText: the grants, not the owner.  An error is  *)
(* remembered, it costs the ACL of the target and nothing else.            *)
CopyReadACL ==
    /\ copy.pc = "acl"
    /\ \E read \in {0, Source.acl.of} : copy' = [copy EXCEPT !.pc = "head", !.Acls = read]
    /\ UNCHANGED <<store, versions>>

(* Headers that were read, with what the caller gives in their place, and  *)
(* without what the caller deletes.                                        *)
Merged(read, what) ==
    [h \in (DOMAIN read \cup what.given) \ what.deleted |->
        IF h \in what.blank THEN Blank ELSE IF h \in what.given THEN Given ELSE read[h]]

Metadata(md) == [h \in DOMAIN md \cap MetaHeaders |-> md[h]]

(* HEAD, whose answer has system headers too: UpdateMetadata takes the     *)
(* metadata out of it, RenameS3 takes everything.                          *)
CopyHead ==
    /\ copy.pc = "head"
    /\ \/ Fails
       \/ /\ Source # None
          /\ copy' = [copy EXCEPT !.MDList = Merged(IF What.update THEN Metadata(Source.md)
                                                     ELSE Source.md, What),
                                  !.pc = IF What.large THEN "initiate" ELSE "copy"]
          /\ UNCHANGED store
    /\ UNCHANGED versions

Target == IF What.update \/ What.same THEN "old" ELSE "new"

(* Seeded fault: the rename goes on to the delete when the copy failed.    *)
AfterCopyUnchecked(ok) == Goto(IF What.update THEN "done" ELSE "write acl")

(* What follows CopyS3, or the PUT of UpdateMetadata.                      *)
AfterCopy(ok) ==
    IF ok THEN Goto(IF What.update THEN "done" ELSE "write acl") ELSE Return("failed")

(* The server makes the target with the headers of the request.  Its ACL   *)
(* is the default one; an update leaves it as it is.                       *)
Make(parts, md) ==
    store' = [store EXCEPT ![Target] = [parts |-> parts, md |-> md,
                                        acl |-> IF What.update THEN @.acl ELSE Own(0)]]

(* Of its list CopyS3 sends what is metadata and not empty; UpdateMetadata *)
(* sends all of it.                                                        *)
SentByPut ==
    IF What.update THEN copy.MDList
    ELSE LET md == Metadata(copy.MDList)
         IN  [h \in {m \in DOMAIN md : md[m] # Blank} |-> md[h]]

(* S3MultiPartInitiate sends all of the list, the headers of the HEAD      *)
(* answer included, with a content type of its own.                        *)
SentByInitiate ==
    [h \in DOMAIN copy.MDList \cup {ContentType} |->
        IF h = ContentType THEN OctetStream ELSE copy.MDList[h]]

(* CopyS3 of an object below 5 GB, UpdateMetadata: one request.            *)
CopyPut ==
    /\ copy.pc = "copy"
    /\ \/ /\ Source # None /\ Make(Source.parts, SentByPut)
          /\ \E ok \in BOOLEAN : AfterCopy(ok)
       \/ AfterCopy(FALSE) /\ UNCHANGED store
    /\ UNCHANGED versions

(* CopyS3 of a larger object: S3MultiPartInitiate, which may leave an      *)
(* upload nobody knows of.                                                 *)
CopyInitiate ==
    /\ copy.pc = "initiate"
    /\ \/ copy' = [copy EXCEPT !.pc = "part", !.upload = TRUE, !.parts = << >>]
       \/ copy' = [copy EXCEPT !.upload = TRUE, !.pc = "done", !.Error = "failed"]
       \/ Return("failed")
    /\ UNCHANGED <<store, versions>>

(* S3MultiPartUpload with a source range, for each part in turn.           *)
CopyPart ==
    /\ copy.pc = "part" /\ Len(copy.parts) < Parts
    /\ \/ /\ Source # None
          /\ copy' = [copy EXCEPT !.parts = Append(@, Source.parts[Len(@) + 1])]
       \/ Goto("abort")
    /\ UNCHANGED <<store, versions>>

(* S3MultiPartComplete.                                                    *)
CopyComplete ==
    /\ copy.pc = "part" /\ Len(copy.parts) = Parts
    /\ \/ /\ Make(copy.parts, SentByInitiate)
          /\ \/ copy' = [copy EXCEPT !.pc = "write acl", !.upload = FALSE]
             \/ copy' = [copy EXCEPT !.pc = "abort", !.upload = FALSE]
       \/ Goto("abort") /\ UNCHANGED store
    /\ UNCHANGED versions

(* The catch block: S3MultiPartAbort, whose result is not looked at.       *)
CopyAbort ==
    /\ copy.pc = "abort"
    /\ \E upload \in {FALSE, copy.upload} :
         copy' = [copy EXCEPT !.pc = "done", !.Error = "failed", !.upload = upload]
    /\ UNCHANGED <<store, versions>>

(* WriteACL, if the ACL could be read: "if this fails, don't fail the      *)
(* rename since it is mostly done".  It writes no owner and makes every    *)
(* grantee a canonical user.                                               *)
CopyWriteACL ==
    /\ copy.pc = "write acl"
    /\ Goto(IF What.bCopy THEN "done" ELSE "delete")
    /\ \E acl \in {AsUsers(copy.Acls), store[Target].acl} :
         store' = IF copy.Acls = 0 \/ store[Target] = None THEN store
                  ELSE [store EXCEPT ![Target].acl = acl]
    /\ UNCHANGED versions

(* The DELETE of a rename.                                                 *)
CopyDelete ==
    /\ copy.pc = "delete"
    /\ \/ store' = [store EXCEPT !["old"] = None] /\ \E error \in {"ok", "failed"} : Return(error)
       \/ Fails
    /\ UNCHANGED versions

(* Another client writes the source again, or deletes it.                  *)
CopyOther ==
    /\ copy.pc \notin {"idle", "done"} /\ Len(versions) <= MaxWrites
    /\ \E o \in {Written(Len(versions) + 1), None} :
         versions' = Append(versions, o) /\ store' = [store EXCEPT !["old"] = o]
    /\ UNCHANGED copy

CopyStep ==
    \/ CopyReadACL \/ CopyHead \/ CopyPut \/ CopyInitiate \/ CopyPart \/ CopyComplete
    \/ CopyAbort \/ CopyWriteACL \/ CopyDelete
-----------------------------------------------------------------------------
Alone == Len(versions) = 1
Whole(o) == o # None /\ \A i \in 1..Parts : o.parts[i] = 1
Renaming == ~What.update /\ ~What.bCopy

(* What a call asks for, of the first generation; and that a target has of *)
(* the metadata asked for all that is not empty, and nothing else.         *)
Asked(what) == Merged(Written(1).md, what)

Carries(md, what) ==
    /\ \A h \in DOMAIN md \cap MetaHeaders :
         h \in DOMAIN Asked(what) /\ md[h] = Asked(what)[h]
    /\ \A h \in DOMAIN Asked(what) \cap MetaHeaders :
         h \in DOMAIN md \/ Asked(what)[h] = Blank

(* The call has succeeded on a source that nobody wrote meanwhile or whose *)
(* version is named; the target is not what another client may write (a    *)
(* copy of an object to itself) or the call itself deletes.                *)
Succeeded ==
    /\ copy.pc = "done" /\ copy.Error = "ok" /\ (Alone \/ What.version)
    /\ ~(What.same /\ (Renaming \/ ~Alone))

(* A copy, rename or update that succeeds (CopyS3, UpdateMetadata) has     *)
(* made a target with the whole content of one generation.  Of the         *)
(* metadata asked for, all that is not empty is there, and nothing else:   *)
(* what CopyS3 drops on the way is system headers and empty values.  The   *)
(* ACL is the default one or has the grants of the source, never those of  *)
(* another generation, but after WriteACL neither owner nor groups; only   *)
(* an update keeps it.  And whichever request fails and whether or not the *)
(* server has acted on it, the content is never lost, except by a rename   *)
(* of an object to its own name.                                           *)
CopyIsReal ==
    /\ Succeeded =>
         /\ Whole(store[Target])
         /\ Carries(store[Target].md, What)
         /\ store[Target].acl \in IF What.update THEN {Own(1)} ELSE {Own(0), AsUsers(1)}
    /\ (Alone /\ copy.pc # "idle" /\ ~(What.same /\ Renaming)) =>
         Whole(store["old"]) \/ Whole(store["new"])

=============================================================================
