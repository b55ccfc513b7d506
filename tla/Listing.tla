------------------------------ MODULE Listing ------------------------------
(***************************************************************************)
(* The listings of CECSConnection: DirListingInternal (DirListing,         *)
(* DirListingS3Versions), S3MultiPartList and S3SearchMD.  Each is a loop  *)
(* of requests: an answer holds at most MaxKeys entries and a marker, the  *)
(* marker goes into the next request.  Another client changes the bucket   *)
(* between two requests.                                                   *)
(*                                                                         *)
(* Keys are numbers in the server's order; a folder "a/" is a key too, and *)
(* comes before every key below it.  The fields of an entry other than its *)
(* key (ETag, size, owner, dates) are left out.  DirList is in key order,  *)
(* which the DirList.sort() at the end of a listing leaves as it is.       *)
(***************************************************************************)
EXTENDS Naturals, Sequences, FiniteSets, SequencesExt

CONSTANTS Keys,         \* object keys, in the server's order
          Folders,      \* keys that end with a slash
          Below,        \* [Folders \cup {Bucket} -> SUBSET Keys]: keys with that prefix
          MaxKeys,      \* entries of an answer (max-keys)
          Listings,     \* the listings that are asked for
          Initially,    \* what the bucket may hold at the start
          MaxChanges    \* bound on what the other client changes

Bucket == 0             \* the empty prefix: the whole bucket
Kinds == {"objects", "versions", "uploads", "search"}

ASSUME ListingAssumption ==
    /\ Keys \subseteq Nat \ {Bucket} /\ IsFiniteSet(Keys) /\ Folders \subseteq Keys
    /\ MaxKeys \in Nat \ {0} /\ MaxChanges \in Nat /\ Initially \subseteq SUBSET Keys
    /\ \A what \in Listings : what.kind \in Kinds
    /\ \A f \in Folders : Below[f] \subseteq {k \in Keys : k > f}
    /\ \A f \in Folders : \A g \in Folders \cap Below[f] : Below[g] \subseteq Below[f]
    /\ \A f \in Folders, k \in Keys : (\E b \in Below[f] : f < k /\ k < b) => k \in Below[f]

NoContext == [bIsTruncated |-> FALSE, sNextMarker |-> 0, sLastFullObjName |-> 0, bGotKey |-> FALSE]
NoListing == [kind |-> "objects", folder |-> Bucket, delimiter |-> TRUE, single |-> FALSE, paged |-> FALSE]

VARIABLES objects,      \* keys of the objects on the server
          listing,      \* the listing: where it is, its Context, DirList and markers
          changes,      \* how often the other client has acted
          stable,       \* history: objects there from the start of the listing on
          ever          \* history: objects there at some time of the listing

listVars == <<objects, listing, changes, stable, ever>>

ListTypeOK ==
    /\ {objects, stable, ever} \subseteq SUBSET Keys
    /\ changes \in 0..MaxChanges
    /\ listing.pc \in {"idle", "request", "next call", "done"}
    /\ listing.what \in Listings \cup {NoListing} \cup [kind : {"objects"}, folder : Folders,
                            delimiter : {TRUE}, single : {FALSE}, paged : {FALSE}]
    /\ listing.marker \in Keys \cup {0}
    /\ listing.DirList \in Seq(Keys) /\ listing.pages \in Seq(Keys)
    /\ listing.Error \in {"ok", "failed", "malformed", "not found"}

ListInit ==
    /\ objects \in Initially
    /\ listing = [pc |-> "idle", what |-> NoListing, Context |-> NoContext, marker |-> 0,
                  DirList |-> << >>, pages |-> << >>, Error |-> "ok"]
    /\ changes = 0 /\ stable = {} /\ ever = {}
-----------------------------------------------------------------------------
(* The elements of a set of keys, each once, in the server's order.        *)
Ascending(S) ==
    [i \in 1..Cardinality(S) |-> CHOOSE k \in S : Cardinality({j \in S : j < k}) = i - 1]

(* The server.                                                             *)

Direct(f) == Below[f] \ UNION {Below[g] : g \in Folders \cap Below[f]}

(* What a listing enumerates if the objects are S: with a delimiter, what  *)
(* is below a folder of this folder is one common prefix.                  *)
Items(what, S) ==
    IF what.delimiter
      THEN (S \cap ({what.folder} \cup (Direct(what.folder) \ Folders)))
             \cup {g \in Folders \cap Direct(what.folder) : S \cap ({g} \cup Below[g]) # {}}
      ELSE S \cap ({what.folder} \cup Below[what.folder])

Largest(S) == CHOOSE k \in S : \A j \in S : j <= k

(* An answer.  NextMarker comes with a truncated one, but not with one of  *)
(* an object listing without delimiter.                                    *)
Page(what, marker) ==
    LET rest == {k \in Items(what, objects) : k > marker}
        keys == {k \in rest : Cardinality({j \in rest : j < k}) < MaxKeys}
        truncated == rest # keys
    IN  [keys |-> keys, IsTruncated |-> truncated,
         NextMarker |-> IF truncated /\ (what.kind # "objects" \/ what.delimiter)
                          THEN Largest(keys) ELSE 0]

-----------------------------------------------------------------------------
(* The parsers.                                                            *)

(* The Contents elements of an answer, as opposed to its CommonPrefixes.   *)
Contents(what, page) ==
    {k \in page.keys : what.delimiter => k \notin Folders \ {what.folder}}

(* What the callbacks add to the list: a folder only once, and not the     *)
(* folder's own object, whose name is empty (but its versions).            *)
Added(what, list, page) ==
    CASE what.kind = "objects"  -> {k \in page.keys \ {what.folder} :
                                      ~(k \in Folders /\ k \in Range(list))}
      [] what.kind = "versions" -> {k \in page.keys : ~(k \in Folders /\ k \in Range(list))}
      [] OTHER                  -> page.keys

(* ScanXml with XmlDirListingS3CB, XmlDirListingS3VersionsCB,              *)
(* XmlS3MultiPartListCB: the Context is that of all pages, what an answer  *)
(* does not hold stays as it was.                                          *)
Scanned(what, ctx, page) ==
    [bIsTruncated |-> page.IsTruncated,
     sNextMarker |-> IF page.NextMarker # 0 THEN page.NextMarker ELSE ctx.sNextMarker,
     sLastFullObjName |-> IF Contents(what, page) = {} THEN ctx.sLastFullObjName
                          ELSE Largest(Contents(what, page)),
     bGotKey |-> ctx.bGotKey \/ Contents(what, page) # {}]

(* XmlS3SearchMDCB: S3SearchMD has a Context for each page.                *)
ScannedSearch(what, page) == Scanned(what, NoContext, page)

(* "use last entry as next marker" where the server gives none.            *)
LastAsMarker(what, ctx) ==
    IF what.kind = "objects" /\ ctx.bIsTruncated /\ ctx.sNextMarker = 0
      THEN [ctx EXCEPT !.sNextMarker = ctx.sLastFullObjName] ELSE ctx

(* Seeded fault: the marker is the last object, where it is a prefix too.  *)
NextMarkerLastObject(what, ctx) ==
    IF ctx.bIsTruncated \/ what.kind = "uploads" THEN ctx.sLastFullObjName ELSE 0

(* The marker of the next request.                                         *)
NextMarker(what, ctx) ==
    IF ctx.bIsTruncated \/ what.kind \in {"uploads", "search"} THEN ctx.sNextMarker ELSE 0

(* S3MultiPartList goes on while the list is truncated, the others while   *)
(* there is a marker.                                                      *)
MorePages(what, ctx) ==
    IF what.kind = "uploads" THEN ctx.bIsTruncated ELSE NextMarker(what, ctx) # 0

NotFound(what, ctx, list) ==
    /\ what.kind \in {"objects", "versions"}
    /\ what.folder # Bucket /\ ~ctx.bIsTruncated /\ list = << >> /\ ~ctx.bGotKey

-----------------------------------------------------------------------------
(* The loops.                                                              *)

(* DirListingInternal, S3MultiPartList, S3SearchMD: the call.              *)
ListBegin(what) ==
    /\ listing' = [pc |-> "request", what |-> what, Context |-> NoContext, marker |-> 0,
                   DirList |-> << >>, pages |-> << >>, Error |-> "ok"]
    /\ stable' = objects /\ ever' = objects

(* The request fails, in SendRequest.                                      *)
ListFails ==
    /\ listing.pc = "request"
    /\ listing' = [listing EXCEPT !.pc = "done", !.Error = "failed"]
    /\ UNCHANGED <<objects, changes, stable, ever>>

(* An answer without data, that is not XML, or has another root element    *)
(* ("we don't want total garbage making it look like there are NO entries  *)
(* in the directory").  S3SearchMD only looks for data, S3MultiPartList    *)
(* does not look.                                                          *)
ListGarbage ==
    /\ listing.pc = "request" /\ listing.what.kind # "uploads"
    /\ listing' = [listing EXCEPT !.pc = "done", !.Error = "malformed"]
    /\ UNCHANGED <<objects, changes, stable, ever>>

(* An answer, and what the loop makes of it.                               *)
ListPage ==
    /\ listing.pc = "request"
    /\ LET what == listing.what
           page == Page(what, listing.marker)
           ctx == LastAsMarker(what, IF what.kind = "search" THEN ScannedSearch(what, page)
                                     ELSE Scanned(what, listing.Context, page))
           list == listing.DirList \o Ascending(Added(what, listing.DirList, page))
           more == MorePages(what, ctx)
       IN  listing' =
             [listing EXCEPT
                !.Context = ctx, !.DirList = list, !.marker = NextMarker(what, ctx),
                !.Error = IF NotFound(what, ctx, list) THEN "not found" ELSE "ok",
                !.pc = IF NotFound(what, ctx, list) \/ ~more \/ what.single THEN "done"
                       ELSE IF what.paged THEN "next call" ELSE "request"]
    /\ UNCHANGED <<objects, changes, stable, ever>>

(* With a LISTING_NEXT_MARKER_CONTEXT a call gets one page; the caller     *)
(* keeps the entries and calls again, with the marker.                     *)
ListNextCall ==
    /\ listing.pc = "next call"
    /\ listing' = [listing EXCEPT !.pc = "request", !.Context = NoContext,
                                  !.pages = @ \o listing.DirList, !.DirList = << >>]
    /\ UNCHANGED <<objects, changes, stable, ever>>

(* Another client creates or deletes an object while pages are read.       *)
OtherClient(k) ==
    /\ changes < MaxChanges
    /\ changes' = changes + 1
    /\ IF k \in objects
         THEN objects' = objects \ {k} /\ stable' = stable \ {k} /\ UNCHANGED ever
         ELSE objects' = objects \cup {k} /\ ever' = ever \cup {k} /\ UNCHANGED stable
    /\ UNCHANGED listing

ListStep == ListFails \/ ListGarbage \/ ListPage \/ ListNextCall
-----------------------------------------------------------------------------
Entries == listing.pages \o listing.DirList
Listed(what, S) == Items(what, S) \ (IF what.kind = "objects" THEN {what.folder} ELSE {})

(* However the bucket changes between two pages, no entry is listed twice; *)
(* a listing that succeeds has every object, and every folder with an      *)
(* object, that was there all the time, and nothing that never was.        *)
ListedOnce ==
    /\ \A i, j \in DOMAIN Entries : Entries[i] = Entries[j] => i = j
    /\ listing.pc = "done" /\ listing.Error = "ok" =>
         /\ listing.what.single \/ Listed(listing.what, stable) \subseteq Range(Entries)
         /\ Range(Entries) \subseteq Listed(listing.what, ever)
=============================================================================
