--------------------------- MODULE MCOperations ---------------------------
(* a, d/, d/b, d/e/, d/e/c, f in one bucket and a key of another bucket.   *)
EXTENDS Operations

MCKeys == 1..7
MCFolders == {2, 4}
MCBelow == (Bucket :> 1..6) @@ (2 :> 3..5) @@ (4 :> {5})
MCOtherBucket == {7}
MCInitially == {1..6, {1, 3, 5, 6, 7}}

Ask(kind, folder, delimiter, single, paged) ==
    [kind |-> kind, folder |-> folder, delimiter |-> delimiter, single |-> single, paged |-> paged]

(* A listing without delimiter that is not paged fits into two answers.    *)
MCListings ==
    {Ask(kind, folder, TRUE, FALSE, paged) :
        kind \in {"objects", "versions"}, folder \in {Bucket, 2}, paged \in BOOLEAN}
      \cup {Ask("objects", Bucket, FALSE, FALSE, TRUE), Ask("objects", 2, FALSE, FALSE, FALSE),
            Ask("versions", Bucket, FALSE, FALSE, FALSE), Ask("objects", Bucket, TRUE, TRUE, FALSE),
            Ask("uploads", Bucket, FALSE, FALSE, FALSE), Ask("search", Bucket, FALSE, FALSE, FALSE)}

(* The listing of a whole bucket without delimiter.                        *)
FlatListing == {Ask("objects", Bucket, FALSE, FALSE, FALSE)}

MCPathLists == {<<3>>, <<2>>, <<1, 2, 6, 5>>, <<4, 2>>, <<1, 6, 7>>}

(* w, x, y and z are metadata, z is empty in the source.                   *)
MCGiven == {"w", "x", "content-type"}

MCCopies ==
    {[update |-> FALSE, bCopy |-> bCopy, large |-> large, version |-> version, same |-> same,
      given |-> MCGiven, blank |-> {"w"}, deleted |-> deleted] :
        bCopy, large, version, same \in BOOLEAN, deleted \in {{}, {"y"}}}
      \cup {[update |-> TRUE, bCopy |-> FALSE, large |-> FALSE, version |-> FALSE, same |-> TRUE,
             given |-> MCGiven, blank |-> {"w"}, deleted |-> {"y"}]}
===========================================================================
