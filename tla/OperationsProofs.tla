-------------------------- MODULE OperationsProofs --------------------------
(***************************************************************************)
(* Proofs about the operations of many requests: the port of an            *)
(* administrative function, copies, listings and deletes.  Each operation  *)
(* has an invariant of its own variables; the steps of the others leave    *)
(* them alone.                                                             *)
(***************************************************************************)
EXTENDS Operations, FiniteSetTheorems, SequenceTheorems, TLAPS

-----------------------------------------------------------------------------
(* Administrative functions.                                               *)

Ports == {S3Port, 4443, 9101}

AdminRecords ==
    [pc : {"idle", "set", "request", "restore"}, f : AdminFunctions, wSavePort : Ports,
     reached : Ports, calls : 0..MaxAdminCalls]

(* What the port p of the object and the call a of the only thread have to *)
(* do with each other; gone: an earlier call has left without setting the  *)
(* port again.                                                             *)
PortAt(p, gone, a) ==
    /\ ~gone /\ a.pc # "idle" => a.wSavePort = S3Port
    /\ ~gone /\ a.pc \in {"idle", "set"} => p = S3Port
    /\ a.pc = "request" => p = a.f.port
    /\ a.pc = "restore" => a.reached = a.f.port

AdminInv ==
    /\ AdminTypeOK
    /\ AdminThreads = {} => Port = S3Port
    /\ \A t \in AdminThreads : PortAt(Port, left, admin[t])

LEMMA FunctionPort == \A f \in AdminFunctions : f.port \in {4443, 9101}
BY DEF AdminFunctions, Function, ECSAdminLogin, ECSAdminLogout, ECSAdminGetUserList,
       ECSAdminCreateUser, ECSAdminGetKeysForUser, ECSAdminCreateKeyForUser,
       ECSAdminBillingBucket, ECSAdminCapacity, ECSAdminBucketInfo, ECSDTQuery

LEMMA AdminTyped ==
    AdminTypeOK <=> /\ Port \in Ports /\ admin \in [AdminThreads -> AdminRecords]
                    /\ token \in [AdminThreads -> BOOLEAN] /\ left \in BOOLEAN
BY DEF AdminTypeOK, Ports, AdminRecords

LEMMA AdminStart == AdminInit => AdminInv
<1> SUFFICES ASSUME AdminInit PROVE AdminInv
  OBVIOUS
<1>1. ECSDTQuery \in AdminFunctions
  BY DEF AdminFunctions
<1>2. 0 \in 0..MaxAdminCalls
  BY AdminAssumption
<1>3. admin \in [AdminThreads -> AdminRecords]
  BY <1>1, <1>2 DEF AdminInit, AdminRecords, Ports
<1>4. \A t \in AdminThreads : PortAt(Port, left, admin[t])
  BY DEF AdminInit, PortAt
<1>5. /\ Port \in Ports /\ Port = S3Port /\ left \in BOOLEAN
      /\ token \in [AdminThreads -> BOOLEAN]
  BY DEF AdminInit, Ports
<1> QED
  BY <1>3, <1>4, <1>5, AdminTyped DEF AdminInv

LEMMA AdminKept ==
    ASSUME \A t, u \in AdminThreads : t = u,
           AdminInv, NEW t \in AdminThreads, AdminStep(t) \/ AdminForget(t)
    PROVE  AdminInv'
<1> USE DEF PortAt
<1>t. /\ Port \in Ports /\ admin \in [AdminThreads -> AdminRecords]
      /\ token \in [AdminThreads -> BOOLEAN] /\ left \in BOOLEAN
  BY AdminTyped DEF AdminInv
<1>a. admin[t] \in AdminRecords /\ PortAt(Port, left, admin[t])
  BY <1>t DEF AdminInv
<1> SUFFICES /\ Port' \in Ports /\ admin' \in [AdminThreads -> AdminRecords]
             /\ token' \in [AdminThreads -> BOOLEAN] /\ left' \in BOOLEAN
             /\ PortAt(Port', left', admin'[t])
  BY DEF AdminInv, AdminTypeOK, Ports, AdminRecords
<1>1. CASE AdminSave(t)
  <2>1. PICK f \in AdminFunctions :
          admin' = [admin EXCEPT ![t].pc = "set", ![t].f = f, ![t].wSavePort = Port,
                                 ![t].calls = @ + 1]
    BY <1>1 DEF AdminSave
  <2>2. admin[t].calls + 1 \in 0..MaxAdminCalls
    BY <1>1, <1>a, AdminAssumption DEF AdminSave, AdminRecords
  <2>3. /\ admin'[t].pc = "set" /\ admin'[t].f = f /\ admin'[t].wSavePort = Port
        /\ admin'[t].reached = admin[t].reached /\ admin'[t].calls = admin[t].calls + 1
    BY <2>1, <1>t, <1>a DEF AdminRecords
  <2>4. admin' \in [AdminThreads -> AdminRecords]
    BY <2>1, <2>2, <1>t DEF AdminRecords
  <2> QED
    BY <2>3, <2>4, <1>1, <1>t, <1>a DEF AdminSave
<1>2. CASE AdminSetPort(t)
  <2>1. Port' = admin[t].f.port /\ Port' \in Ports
    BY <1>2, <1>a, FunctionPort DEF AdminSetPort, SetPort, Ports, AdminRecords
  <2>2. /\ admin'[t].pc = "request" /\ admin'[t].f = admin[t].f
        /\ admin'[t].wSavePort = admin[t].wSavePort
        /\ admin' \in [AdminThreads -> AdminRecords]
    BY <1>2, <1>t, <1>a DEF AdminSetPort, AdminRecords
  <2> QED
    BY <2>1, <2>2, <1>2, <1>t, <1>a DEF AdminSetPort
<1>3. CASE AdminXmlFails(t)
  <2>1. admin'[t].pc = "idle" /\ admin' \in [AdminThreads -> AdminRecords]
    BY <1>3, <1>t, <1>a DEF AdminXmlFails, AdminRecords
  <2> QED
    BY <2>1, <1>3, <1>t, <1>a DEF AdminXmlFails
<1>4. CASE AdminRequest(t)
  <2>1. admin' = [admin EXCEPT ![t].pc = "restore", ![t].reached = Port]
    BY <1>4 DEF AdminRequest, AfterRequest
  <2>2. /\ admin'[t].pc = "restore" /\ admin'[t].f = admin[t].f /\ admin'[t].reached = Port
        /\ admin'[t].wSavePort = admin[t].wSavePort
        /\ admin' \in [AdminThreads -> AdminRecords]
    BY <2>1, <1>t, <1>a DEF AdminRecords
  <2>3. PICK b, given \in BOOLEAN :
          token' = [token EXCEPT ![t] = IF b THEN TokenAfter(admin[t].f, @, given) ELSE @]
    BY <1>4, <1>t DEF AdminRequest
  <2>4. token' \in [AdminThreads -> BOOLEAN]
    BY <2>3, <1>t DEF TokenAfter
  <2> QED
    BY <2>2, <2>4, <1>4, <1>t, <1>a DEF AdminRequest
<1>5. CASE AdminRestore(t)
  <2>1. admin'[t].pc = "idle" /\ admin' \in [AdminThreads -> AdminRecords]
    BY <1>5, <1>t, <1>a DEF AdminRestore, AdminRecords
  <2>2. Port' = admin[t].wSavePort /\ Port' \in Ports
    BY <1>5, <1>a DEF AdminRestore, SetPort, AdminRecords
  <2> QED
    BY <2>1, <2>2, <1>5, <1>t, <1>a DEF AdminRestore
<1>6. CASE AdminForget(t)
  BY <1>6, <1>t, <1>a DEF AdminForget
<1> QED
  BY <1>1, <1>2, <1>3, <1>4, <1>5, <1>6 DEF AdminStep

LEMMA AdminNext ==
    ASSUME \A t, u \in AdminThreads : t = u,
           AdminInv, [Next]_vars
    PROVE  AdminInv'
<1>1. CASE UNCHANGED adminVars
  BY <1>1 DEF AdminInv, AdminTypeOK, PortAt, adminVars
<1>2. CASE \E t \in AdminThreads : AdminStep(t) \/ AdminForget(t)
  BY <1>2, AdminKept
<1> QED
  BY <1>1, <1>2 DEF Next, vars, CallListing, CallDelete, CallCopy, CallAdmin, ListingSteps,
                    Deleting, Copying, Administering, Others

(* An object whose administrative functions are called by one thread at a  *)
(* time keeps the port of the application between the calls, whatever      *)
(* becomes of the requests, and a call's request goes to the call's port   *)
(* (SetPort(wSavePort) in ECSAdminLogin and the others).                   *)
THEOREM PortKeptHolds ==
    ASSUME \A t, u \in AdminThreads : t = u
    PROVE  Spec => []PortKept
<1>1. Init => AdminInv
  BY AdminStart DEF Init
<1>2. AdminInv /\ [Next]_vars => AdminInv'
  BY AdminNext
<1>3. AdminInv => PortKept
  BY DEF AdminInv, AdminTypeOK, PortAt, PortKept
<1> QED
  BY <1>1, <1>2, <1>3, PTL DEF Spec
-----------------------------------------------------------------------------
(* Copies, renames and metadata updates.                                   *)

MDs == UNION {[H -> Nat] : H \in SUBSET Headers}
ACLs == [of : Nat, users : BOOLEAN]
ObjectRecords == [parts : Seq(Nat), md : MDs, acl : ACLs]
Objects == {o \in ObjectRecords : o = None \/ Len(o.parts) = Parts}

Calls ==
    [pc : {"idle", "acl", "head", "copy", "initiate", "part", "abort", "write acl", "delete",
           "done"},
     what : Copies \cup {<< >>}, Acls : Nat, MDList : MDs, parts : Seq(Nat), upload : BOOLEAN,
     Error : {"ok", "failed"}]

CopyShape ==
    /\ store \in [{"old", "new"} -> Objects]
    /\ versions \in Seq(Objects) /\ versions # << >> /\ versions[1] = Written(1)
    /\ copy \in Calls

(* Where the target of a call is, and what it has to be like.              *)
TargetOf(w) == IF w.update \/ w.same THEN "old" ELSE "new"
Made(o, w) ==
    /\ Whole(o) /\ Carries(o.md, w)
    /\ o.acl \in IF w.update THEN {Own(1)} ELSE {Own(0), AsUsers(1)}

(* What the call c has read and made so far, where s is the store and n    *)
(* versions of the source have been written.  Nothing is said of a target  *)
(* that another client may write (a copy of an object to itself), or that  *)
(* the call itself deletes (a rename of an object to itself).              *)
ReadSoFar(c, s, n) ==
    /\ c.pc = "idle" <=> c.what \notin Copies
    /\ c.pc \in {"idle", "acl", "head", "copy", "initiate", "part"} /\ n = 1 =>
         s["old"] = Written(1)
    /\ c.pc \in {"copy", "initiate", "part"} /\ (n = 1 \/ c.what.version) =>
         c.MDList = IF c.what.update THEN Merged(Metadata(Written(1).md), c.what)
                                     ELSE Asked(c.what)
    /\ c.pc # "idle" /\ (n = 1 \/ c.what.version) => c.Acls \in {0, 1}
    /\ c.pc = "part" /\ (n = 1 \/ c.what.version) => \A i \in 1..Len(c.parts) : c.parts[i] = 1
    /\ c.pc = "part" => Len(c.parts) <= Parts
    /\ c.pc \in {"initiate", "part", "write acl", "abort"} => ~c.what.update
    /\ c.pc = "delete" => ~c.what.update /\ ~c.what.bCopy
    /\ c.pc \notin {"done", "abort"} => c.Error = "ok"
    /\ c.pc = "idle" => n = 1 /\ c.Acls = 0

MadeSoFar(c, s, n) ==
    /\ /\ c.pc \in {"write acl", "delete", "done"} /\ c.Error = "ok"
       /\ n = 1 \/ c.what.version
       /\ ~(c.what.same /\ ((~c.what.update /\ ~c.what.bCopy) \/ n # 1))
       => Made(s[TargetOf(c.what)], c.what)
    /\ n = 1 /\ c.pc # "idle" /\ ~(c.what.same /\ ~c.what.update /\ ~c.what.bCopy) =>
         Whole(s["old"]) \/ Whole(s["new"])

CopyInv ==
    /\ CopyShape
    /\ ReadSoFar(copy, store, Len(versions)) /\ MadeSoFar(copy, store, Len(versions))

LEMMA WrittenIsObject ==
    ASSUME NEW g \in Nat
    PROVE  /\ Written(g) \in Objects /\ Written(g).acl = Own(g)
           /\ Written(g) # None /\ Len(Written(g).parts) = Parts
           /\ \A i \in 1..Parts : Written(g).parts[i] = g
           /\ Written(g).md \in MDs /\ DOMAIN Written(g).md = Headers
<1>1. [i \in 1..Parts |-> g] \in Seq(Nat) /\ Len([i \in 1..Parts |-> g]) = Parts
  BY CopyAssumption
<1>2. /\ [h \in Headers |-> IF h \in Empty THEN Blank ELSE g] \in [Headers -> Nat]
      /\ [Headers -> Nat] \subseteq MDs
  BY CopyAssumption DEF MDs, Blank
<1>3. Len(None.parts) = 0 /\ Own(g) \in ACLs /\ Own(g).of = g
  BY DEF None, Own, ACLs
<1> QED
  BY <1>1, <1>2, <1>3, CopyAssumption DEF Written, Objects, ObjectRecords

LEMMA NoneIsObject == None \in Objects
<1>1. << >> \in [{} -> Nat]
  OBVIOUS
<1>2. << >> \in MDs
  BY <1>1 DEF MDs
<1>3. << >> \in Seq(Nat) /\ Own(0) \in ACLs
  BY DEF Own, ACLs
<1> QED
  BY <1>2, <1>3 DEF None, Objects, ObjectRecords

(* The lists of headers that the calls make of others.                     *)
LEMMA MergedIsMD ==
    ASSUME NEW read \in MDs, NEW what \in CopyCalls
    PROVE  Merged(read, what) \in MDs
<1>1. PICK H \in SUBSET Headers : read \in [H -> Nat]
  BY DEF MDs
<1>2. Merged(read, what) \in [(H \cup what.given) \ what.deleted -> Nat]
  BY <1>1, CopyAssumption DEF Merged, Given, Blank
<1>3. (H \cup what.given) \ what.deleted \in SUBSET Headers
  BY DEF CopyCalls
<1> QED
  BY <1>2, <1>3 DEF MDs

LEMMA MetadataIsMD ==
    ASSUME NEW md \in MDs
    PROVE  Metadata(md) \in MDs
<1>1. PICK H \in SUBSET Headers : md \in [H -> Nat]
  BY DEF MDs
<1>2. Metadata(md) \in [H \cap MetaHeaders -> Nat]
  BY <1>1 DEF Metadata
<1> QED
  BY <1>2 DEF MDs

LEMMA SentIsMD ==
    ASSUME copy.MDList \in MDs
    PROVE  SentByPut \in MDs /\ SentByInitiate \in MDs
<1>1. PICK H \in SUBSET Headers : copy.MDList \in [H -> Nat]
  BY DEF MDs
<1>2. SentByInitiate \in [H \cup {ContentType} -> Nat]
  BY <1>1, CopyAssumption DEF SentByInitiate, OctetStream
<1>3. H \cup {ContentType} \in SUBSET Headers
  BY CopyAssumption
<1>4. PICK M \in SUBSET Headers : Metadata(copy.MDList) \in [M -> Nat]
  BY MetadataIsMD DEF MDs
<1> DEFINE full == {m \in M : Metadata(copy.MDList)[m] # Blank}
<1>5. [h \in full |-> Metadata(copy.MDList)[h]] \in [full -> Nat] /\ full \in SUBSET Headers
  BY <1>4
<1>6. SentByPut = copy.MDList \/ SentByPut = [h \in full |-> Metadata(copy.MDList)[h]]
  BY <1>4 DEF SentByPut
<1> QED
  BY <1>2, <1>3, <1>5, <1>6 DEF MDs

LEMMA MergedFields ==
    ASSUME NEW read, NEW what
    PROVE  /\ DOMAIN Merged(read, what) = (DOMAIN read \cup what.given) \ what.deleted
           /\ \A h \in DOMAIN Merged(read, what) :
                Merged(read, what)[h] = IF h \in what.blank THEN Blank
                                        ELSE IF h \in what.given THEN Given ELSE read[h]
BY DEF Merged

LEMMA MetadataFields ==
    ASSUME NEW md
    PROVE  /\ DOMAIN Metadata(md) = DOMAIN md \cap MetaHeaders
           /\ \A h \in DOMAIN md \cap MetaHeaders : Metadata(md)[h] = md[h]
BY DEF Metadata

(* What the requests send is the metadata asked for.                       *)
LEMMA PutCarries ==
    ASSUME What.update => copy.MDList = Merged(Metadata(Written(1).md), What),
           ~What.update => copy.MDList = Asked(What)
    PROVE  Carries(SentByPut, What)
<1> DEFINE W == Written(1).md
<1>1. CASE What.update
  <2> DEFINE m == Merged(Metadata(W), What)
  <2>1. SentByPut = m
    BY <1>1 DEF SentByPut
  <2>6. DOMAIN Metadata(W) = DOMAIN W \cap MetaHeaders
    BY MetadataFields
  <2>7. /\ DOMAIN m = (DOMAIN Metadata(W) \cup What.given) \ What.deleted
        /\ \A h \in DOMAIN m : m[h] = IF h \in What.blank THEN Blank
                                      ELSE IF h \in What.given THEN Given ELSE Metadata(W)[h]
    BY MergedFields, Zenon
  <2>2. /\ DOMAIN m = ((DOMAIN W \cap MetaHeaders) \cup What.given) \ What.deleted
        /\ \A h \in DOMAIN m : m[h] = IF h \in What.blank THEN Blank
                                      ELSE IF h \in What.given THEN Given ELSE Metadata(W)[h]
    BY <2>6, <2>7, Zenon
  <2>3. /\ DOMAIN Asked(What) = (DOMAIN W \cup What.given) \ What.deleted
        /\ \A h \in DOMAIN Asked(What) :
             Asked(What)[h] = IF h \in What.blank THEN Blank
                              ELSE IF h \in What.given THEN Given ELSE W[h]
    BY MergedFields DEF Asked
  <2> HIDE DEF m
  <2>4. \A h \in DOMAIN m \cap MetaHeaders : h \in DOMAIN Asked(What) /\ m[h] = Asked(What)[h]
    BY <2>2, <2>3, MetadataFields
  <2>5. \A h \in DOMAIN Asked(What) \cap MetaHeaders : h \in DOMAIN m
    BY <2>2, <2>3
  <2> QED
    BY <2>1, <2>4, <2>5 DEF Carries
<1>2. CASE ~What.update
  <2> DEFINE md == Metadata(Asked(What))
             m == [h \in {k \in DOMAIN md : md[k] # Blank} |-> md[h]]
  <2>1. SentByPut = m
    BY <1>2 DEF SentByPut
  <2>2. /\ DOMAIN md = DOMAIN Asked(What) \cap MetaHeaders
        /\ \A h \in DOMAIN md : md[h] = Asked(What)[h]
    BY MetadataFields
  <2> HIDE DEF md
  <2>3. /\ DOMAIN m = {k \in DOMAIN md : md[k] # Blank}
        /\ \A h \in DOMAIN m : m[h] = md[h]
    OBVIOUS
  <2> HIDE DEF m
  <2> QED
    BY <2>1, <2>2, <2>3 DEF Carries
<1> QED
  BY <1>1, <1>2

LEMMA InitiateCarries ==
    ASSUME copy.MDList = Asked(What)
    PROVE  Carries(SentByInitiate, What)
<1>1. /\ DOMAIN SentByInitiate = DOMAIN Asked(What) \cup {ContentType}
      /\ \A h \in DOMAIN Asked(What) \ {ContentType} : SentByInitiate[h] = Asked(What)[h]
  BY DEF SentByInitiate
<1>2. ContentType \notin MetaHeaders
  BY CopyAssumption
<1> QED
  BY <1>1, <1>2 DEF Carries

LEMMA CopyStart == CopyInit => CopyInv
<1> SUFFICES ASSUME CopyInit PROVE CopyInv
  OBVIOUS
<1>1. Written(1) \in Objects /\ None \in Objects
  BY WrittenIsObject, NoneIsObject
<1>2. store \in [{"old", "new"} -> Objects] /\ store["old"] = Written(1)
  BY <1>1 DEF CopyInit
<1>3. /\ versions \in Seq(Objects) /\ versions # << >> /\ versions[1] = Written(1)
      /\ Len(versions) = 1
  BY <1>1 DEF CopyInit
<1>4. << >> \in MDs /\ << >> \in Seq(Nat)
  BY NoneIsObject DEF None, Objects, ObjectRecords
<1>5. copy \in Calls
  BY <1>4 DEF CopyInit, Calls
<1>6. << >> \notin Copies
  BY CopyAssumption DEF CopyCalls
<1>7. ReadSoFar(copy, store, Len(versions)) /\ MadeSoFar(copy, store, Len(versions))
  BY <1>2, <1>3, <1>6 DEF CopyInit, ReadSoFar, MadeSoFar
<1> QED
  BY <1>2, <1>3, <1>5, <1>7 DEF CopyInv, CopyShape

(* What the other lemmas know of a call under way.                         *)
LEMMA CallFacts ==
    ASSUME CopyInv, copy.pc # "idle"
    PROVE  /\ copy.what \in Copies /\ copy.what \in CopyCalls
           /\ copy.what.update => /\ copy.what.same /\ ~copy.what.bCopy
                                  /\ ~copy.what.large /\ ~copy.what.version
           /\ store["old"] \in Objects /\ store["new"] \in Objects /\ Source \in Objects
           /\ Target = TargetOf(copy.what) /\ store[Target] \in Objects
           /\ Len(versions) \in Nat \ {0}
<1>1. copy.what \in Copies
  BY DEF CopyInv, CopyShape, ReadSoFar, Calls
<1>2. store["old"] \in Objects /\ store["new"] \in Objects /\ versions[1] \in Objects
  BY WrittenIsObject DEF CopyInv, CopyShape
<1>3. Len(versions) \in Nat \ {0}
  BY DEF CopyInv, CopyShape
<1> QED
  BY <1>1, <1>2, <1>3, CopyAssumption DEF Source, Target, TargetOf, What

(* A request for the source gets the first generation, if nobody has       *)
(* written another or the first is the version that is named.              *)
LEMMA SourceIsFirst ==
    ASSUME CopyInv, copy.pc \in {"acl", "head", "copy", "part"},
           Len(versions) = 1 \/ copy.what.version
    PROVE  Source = Written(1)
BY DEF CopyInv, CopyShape, ReadSoFar, Source, What

LEMMA CopyBegins ==
    ASSUME CopyInv, copy.pc = "idle", NEW what \in Copies, CopyBegin(what)
    PROVE  CopyInv'
<1>1. /\ store' = store /\ versions' = versions
      /\ copy' = [copy EXCEPT !.what = what, !.pc = IF what.update THEN "head" ELSE "acl"]
  BY DEF CopyBegin
<1>2. copy \in Calls /\ Len(versions) \in Nat
  BY DEF CopyInv, CopyShape
<1>3. /\ copy' \in Calls /\ copy'.what = what /\ copy'.pc \in {"head", "acl"}
      /\ copy'.Acls = copy.Acls
  BY <1>1, <1>2 DEF Calls
<1>4. copy.Acls = 0 /\ store["old"] = Written(1) /\ Len(versions) = 1
  BY DEF CopyInv, ReadSoFar
<1>5. Whole(store["old"])
  BY <1>4, WrittenIsObject DEF Whole
<1> QED
  BY <1>1, <1>3, <1>4, <1>5 DEF CopyInv, CopyShape, ReadSoFar, MadeSoFar

(* A call that returns an error and leaves the store alone.                *)
LEMMA CopyReturns ==
    ASSUME CopyInv, copy.pc # "idle", UNCHANGED <<store, versions>>,
           copy' \in Calls, copy'.what = copy.what, copy'.Acls = copy.Acls,
           copy'.pc = "done", copy'.Error = "failed"
    PROVE  CopyInv'
<1>1. copy.what \in Copies
  BY CallFacts
<1> QED
  BY <1>1 DEF CopyInv, CopyShape, ReadSoFar, MadeSoFar

LEMMA ReturnFields ==
    ASSUME copy \in Calls, Return("failed")
    PROVE  /\ copy' \in Calls /\ copy'.what = copy.what /\ copy'.Acls = copy.Acls
           /\ copy'.pc = "done" /\ copy'.Error = "failed"
BY DEF Return, Calls

LEMMA GotoFields ==
    ASSUME copy \in Calls, Goto("abort") \/ Goto("write acl") \/ Goto("delete") \/ Goto("done")
    PROVE  /\ copy' \in Calls /\ copy'.what = copy.what /\ copy'.Acls = copy.Acls
           /\ copy'.Error = copy.Error
           /\ Goto("abort") => copy'.pc = "abort"
           /\ Goto("write acl") => copy'.pc = "write acl"
           /\ Goto("delete") => copy'.pc = "delete"
           /\ Goto("done") => copy'.pc = "done"
BY DEF Goto, Calls

LEMMA CopyReadACLKept ==
    ASSUME CopyInv, CopyReadACL
    PROVE  CopyInv'
<1>1. PICK read \in {0, Source.acl.of} : copy' = [copy EXCEPT !.pc = "head", !.Acls = read]
  BY DEF CopyReadACL
<1>2. /\ copy.pc = "acl" /\ copy \in Calls /\ UNCHANGED <<store, versions>>
      /\ Source.acl.of \in Nat /\ copy.what \in Copies
  BY CallFacts DEF CopyReadACL, CopyInv, CopyShape, Objects, ObjectRecords, ACLs
<1>5. Written(1).acl.of = 1
  BY DEF Written, Own
<1>3. read \in Nat /\ (Len(versions) = 1 \/ copy.what.version => read \in {0, 1})
  BY <1>1, <1>2, <1>5, SourceIsFirst
<1>4. /\ copy' \in Calls /\ copy'.pc = "head" /\ copy'.Acls = read /\ copy'.what = copy.what
      /\ copy'.Error = copy.Error
  BY <1>1, <1>2, <1>3 DEF Calls
<1> QED
  BY <1>2, <1>3, <1>4 DEF CopyInv, CopyShape, ReadSoFar, MadeSoFar

LEMMA CopyHeadKept ==
    ASSUME CopyInv, CopyHead
    PROVE  CopyInv'
<1>1. /\ copy.pc = "head" /\ copy \in Calls /\ UNCHANGED <<store, versions>>
      /\ copy.what \in Copies /\ copy.what \in CopyCalls
      /\ copy.what.update => ~copy.what.large
  BY CallFacts DEF CopyHead, Fails, CopyInv, CopyShape
<1>2. CASE Fails
  BY <1>1, <1>2, ReturnFields, CopyReturns DEF Fails
<1>3. CASE copy' = [copy EXCEPT !.MDList = Merged(IF What.update THEN Metadata(Source.md)
                                                  ELSE Source.md, What),
                                !.pc = IF What.large THEN "initiate" ELSE "copy"]
  <2> DEFINE read == IF copy.what.update THEN Metadata(Source.md) ELSE Source.md
  <2>1. read \in MDs
    BY <1>1, CallFacts, MetadataIsMD DEF Objects, ObjectRecords
  <2>2. Merged(read, copy.what) \in MDs
    BY <1>1, <2>1, MergedIsMD
  <2>3. /\ copy' \in Calls /\ copy'.what = copy.what /\ copy'.Acls = copy.Acls
        /\ copy'.Error = copy.Error
        /\ copy'.pc \in {"initiate", "copy"}
        /\ copy'.pc = "initiate" => copy.what.large
        /\ copy'.MDList = Merged(read, copy.what)
    BY <1>1, <1>3, <2>2 DEF Calls, What
  <2>4. Len(versions) = 1 \/ copy.what.version =>
          copy'.MDList = IF copy.what.update THEN Merged(Metadata(Written(1).md), copy.what)
                                             ELSE Asked(copy.what)
    BY <1>1, <2>3, SourceIsFirst DEF Asked
  <2> QED
    BY <1>1, <2>3, <2>4 DEF CopyInv, CopyShape, ReadSoFar, MadeSoFar
<1> QED
  BY <1>2, <1>3 DEF CopyHead

(* The target that the server makes.                                       *)
LEMMA MakeMakes ==
    ASSUME CopyInv, copy.pc \in {"copy", "part"}, NEW parts \in Seq(Nat), NEW md \in MDs,
           Make(parts, md), Len(parts) = Parts,
           Len(versions) = 1 \/ copy.what.version =>
             (\A i \in 1..Parts : parts[i] = 1) /\ Carries(md, copy.what)
    PROVE  /\ store' \in [{"old", "new"} -> Objects]
           /\ \A p \in {"old", "new"} : p # Target => store'[p] = store[p]
           /\ Len(versions) = 1 \/ copy.what.version =>
                Whole(store'[Target]) /\ Made(store'[Target], copy.what)
<1>1. /\ Target \in {"old", "new"} /\ store[Target] \in Objects
      /\ store \in [{"old", "new"} -> Objects]
  BY CallFacts DEF CopyInv, CopyShape, Calls, TargetOf
<1> DEFINE o == [parts |-> parts, md |-> md,
                 acl |-> IF What.update THEN store[Target].acl ELSE Own(0)]
<1>2. store' = [store EXCEPT ![Target] = o]
  BY <1>1 DEF Make
<1>3. /\ o \in Objects /\ o.parts = parts /\ o.md = md
      /\ o.acl = IF copy.what.update THEN store[Target].acl ELSE Own(0)
  BY <1>1 DEF Objects, ObjectRecords, What, ACLs, Own
<1> HIDE DEF o
<1>4. ASSUME Len(versions) = 1 \/ copy.what.version
      PROVE  Whole(o) /\ Made(o, copy.what)
  <2>1. None.parts # o.parts
    BY <1>3, <1>4, CopyAssumption DEF None
  <2>2. o # None
    BY <2>1
  <2>3. Whole(o)
    BY <1>3, <1>4, <2>2 DEF Whole
  <2>4. Carries(o.md, copy.what)
    BY <1>3, <1>4
  <2>5. copy.what.update => Target = "old" /\ Len(versions) = 1
    BY <1>4, CallFacts DEF TargetOf
  <2>6. copy.what.update => store[Target] = Written(1)
    BY <2>5 DEF CopyInv, ReadSoFar
  <2>7. o.acl \in IF copy.what.update THEN {Own(1)} ELSE {Own(0), AsUsers(1)}
    BY <1>3, <2>6, WrittenIsObject
  <2> QED
    BY <2>3, <2>4, <2>7 DEF Made
<1> QED
  BY <1>1, <1>2, <1>3, <1>4

(* After the target has been made.                                         *)
LEMMA MadeKept ==
    ASSUME CopyInv, copy.pc \in {"copy", "part"}, NEW parts \in Seq(Nat), NEW md \in MDs,
           Make(parts, md), Len(parts) = Parts,
           Len(versions) = 1 \/ copy.what.version =>
             (\A i \in 1..Parts : parts[i] = 1) /\ Carries(md, copy.what),
           UNCHANGED versions, copy' \in Calls, copy'.what = copy.what, copy'.Acls = copy.Acls,
           copy'.pc \in {"write acl", "abort", "done"},
           copy'.pc # "done" => ~copy.what.update,
           copy'.pc = "write acl" => copy'.Error = "ok"
    PROVE  CopyInv'
<1>1. /\ store' \in [{"old", "new"} -> Objects]
      /\ Len(versions) = 1 \/ copy.what.version =>
           Whole(store'[Target]) /\ Made(store'[Target], copy.what)
  BY MakeMakes, Zenon
<1>2. Target = TargetOf(copy.what) /\ Target \in {"old", "new"} /\ copy.what \in Copies
  BY CallFacts DEF TargetOf
<1>3. CopyShape' /\ ReadSoFar(copy', store', Len(versions'))
  BY <1>1, <1>2 DEF CopyInv, CopyShape, ReadSoFar
<1>4. MadeSoFar(copy', store', Len(versions'))
  BY <1>1, <1>2 DEF MadeSoFar
<1> QED
  BY <1>3, <1>4 DEF CopyInv

LEMMA CopyPutKept ==
    ASSUME CopyInv, CopyPut
    PROVE  CopyInv'
<1>1. /\ copy.pc = "copy" /\ copy \in Calls /\ UNCHANGED versions /\ Source.parts \in Seq(Nat)
      /\ copy.Error = "ok" /\ copy.MDList \in MDs
  BY CallFacts DEF CopyPut, CopyInv, CopyShape, Objects, ObjectRecords, Calls,
                    ReadSoFar
<1>2. ASSUME NEW ok \in BOOLEAN, AfterCopy(ok)
      PROVE  /\ copy' \in Calls /\ copy'.what = copy.what /\ copy'.Acls = copy.Acls
             /\ copy'.pc \in {"write acl", "abort", "done"}
             /\ copy'.pc # "done" => ~copy.what.update
             /\ copy'.pc = "write acl" => copy'.Error = "ok"
  BY <1>1, <1>2, GotoFields, ReturnFields DEF AfterCopy, What
<1>3. CASE /\ Source # None /\ Make(Source.parts, SentByPut)
           /\ \E ok \in BOOLEAN : AfterCopy(ok)
  <2>1. Len(versions) = 1 \/ copy.what.version => \A i \in 1..Parts : Source.parts[i] = 1
    BY <1>1, SourceIsFirst, WrittenIsObject
  <2>2. Len(Source.parts) = Parts
    BY <1>1, <1>3, CallFacts DEF Objects
  <2>3. Len(versions) = 1 \/ copy.what.version => Carries(SentByPut, copy.what)
    BY <1>1, PutCarries DEF CopyInv, ReadSoFar, What
  <2>4. SentByPut \in MDs
    BY <1>1, SentIsMD
  <2> QED
    BY <1>1, <1>2, <1>3, <2>1, <2>2, <2>3, <2>4, MadeKept
<1>4. CASE AfterCopy(FALSE) /\ UNCHANGED store
  BY <1>1, <1>4, ReturnFields, CopyReturns DEF AfterCopy
<1> QED
  BY <1>3, <1>4 DEF CopyPut

LEMMA CopyInitiateKept ==
    ASSUME CopyInv, CopyInitiate
    PROVE  CopyInv'
<1>1. /\ copy.pc = "initiate" /\ copy \in Calls /\ UNCHANGED <<store, versions>>
      /\ copy.what \in Copies /\ << >> \in Seq(Nat) /\ Len(<< >>) = 0
  BY CallFacts DEF CopyInitiate, CopyInv, CopyShape
<1>2. CASE copy' = [copy EXCEPT !.pc = "part", !.upload = TRUE, !.parts = << >>]
  <2>1. /\ copy' \in Calls /\ copy'.what = copy.what /\ copy'.Acls = copy.Acls
        /\ copy'.Error = copy.Error /\ copy'.pc = "part" /\ copy'.parts = << >>
        /\ copy'.MDList = copy.MDList
    BY <1>1, <1>2 DEF Calls
  <2> QED
    BY <1>1, <2>1, CopyAssumption DEF CopyInv, CopyShape, ReadSoFar, MadeSoFar
<1>3. CASE copy' = [copy EXCEPT !.upload = TRUE, !.pc = "done", !.Error = "failed"]
  <2>1. /\ copy' \in Calls /\ copy'.what = copy.what /\ copy'.Acls = copy.Acls
        /\ copy'.pc = "done" /\ copy'.Error = "failed"
    BY <1>1, <1>3 DEF Calls
  <2> QED
    BY <1>1, <2>1, CopyReturns
<1>4. CASE Return("failed")
  BY <1>1, <1>4, ReturnFields, CopyReturns
<1> QED
  BY <1>2, <1>3, <1>4 DEF CopyInitiate

(* A call that gives up a multi-part copy, or has given it up.             *)
LEMMA CopyAborts ==
    ASSUME CopyInv, copy.pc = "part", UNCHANGED <<store, versions>>, Goto("abort")
    PROVE  CopyInv'
<1>1. copy \in Calls /\ copy.what \in Copies
  BY CallFacts DEF CopyInv, CopyShape
<1>2. /\ copy' \in Calls /\ copy'.what = copy.what /\ copy'.Acls = copy.Acls
      /\ copy'.Error = copy.Error /\ copy'.pc = "abort"
  BY <1>1, GotoFields
<1> QED
  BY <1>1, <1>2 DEF CopyInv, CopyShape, ReadSoFar, MadeSoFar

LEMMA CopyPartKept ==
    ASSUME CopyInv, CopyPart
    PROVE  CopyInv'
<1>1. /\ copy.pc = "part" /\ copy \in Calls /\ UNCHANGED <<store, versions>>
      /\ copy.what \in Copies /\ Len(copy.parts) < Parts /\ copy.parts \in Seq(Nat)
  BY CallFacts DEF CopyPart, CopyInv, CopyShape, Calls
<1>2. CASE Goto("abort")
  BY <1>1, <1>2, CopyAborts
<1>3. CASE /\ Source # None
           /\ copy' = [copy EXCEPT !.parts = Append(@, Source.parts[Len(@) + 1])]
  <2> DEFINE ps == Append(copy.parts, Source.parts[Len(copy.parts) + 1])
  <2>0. Source.parts \in Seq(Nat) /\ Len(Source.parts) = Parts
    BY <1>1, <1>3, CallFacts DEF Objects, ObjectRecords
  <2>1. Source.parts[Len(copy.parts) + 1] \in Nat
    BY <1>1, <2>0, CopyAssumption
  <2>2. /\ ps \in Seq(Nat) /\ Len(ps) = Len(copy.parts) + 1 /\ Len(copy.parts) \in Nat
        /\ \A i \in 1..Len(copy.parts) : ps[i] = copy.parts[i]
        /\ ps[Len(copy.parts) + 1] = Source.parts[Len(copy.parts) + 1]
    BY <1>1, <2>1
  <2>3. copy' = [copy EXCEPT !.parts = ps]
    BY <1>3
  <2> HIDE DEF ps
  <2>4. /\ copy' \in Calls /\ copy'.what = copy.what /\ copy'.Acls = copy.Acls
        /\ copy'.Error = copy.Error /\ copy'.pc = "part" /\ copy'.parts = ps
        /\ copy'.MDList = copy.MDList
    BY <1>1, <2>2, <2>3 DEF Calls
  <2>5. ASSUME Len(versions) = 1 \/ copy.what.version
        PROVE  \A i \in 1..Len(ps) : ps[i] = 1
    <3>1. Source = Written(1) /\ \A i \in 1..Len(copy.parts) : copy.parts[i] = 1
      BY <1>1, <2>5, SourceIsFirst DEF CopyInv, ReadSoFar
    <3>4. \A i \in 1..Parts : Written(1).parts[i] = 1
      BY DEF Written
    <3>2. ps[Len(copy.parts) + 1] = 1
      BY <1>1, <2>2, <3>1, <3>4, CopyAssumption
    <3>3. \A i \in 1..Len(ps) : i \in 1..Len(copy.parts) \/ i = Len(copy.parts) + 1
      BY <2>2
    <3> QED
      BY <2>2, <3>1, <3>2, <3>3
  <2>6. Len(ps) <= Parts
    BY <1>1, <2>2, CopyAssumption
  <2> QED
    BY <1>1, <2>4, <2>5, <2>6 DEF CopyInv, CopyShape, ReadSoFar, MadeSoFar
<1> QED
  BY <1>2, <1>3 DEF CopyPart

LEMMA CopyCompleteKept ==
    ASSUME CopyInv, CopyComplete
    PROVE  CopyInv'
<1>1. /\ copy.pc = "part" /\ copy \in Calls /\ UNCHANGED versions
      /\ Len(copy.parts) = Parts /\ copy.parts \in Seq(Nat) /\ copy.Error = "ok"
      /\ ~copy.what.update /\ copy.MDList \in MDs
  BY DEF CopyComplete, CopyInv, CopyShape, Calls, ReadSoFar
<1>2. CASE /\ Make(copy.parts, SentByInitiate)
           /\ \/ copy' = [copy EXCEPT !.pc = "write acl", !.upload = FALSE]
              \/ copy' = [copy EXCEPT !.pc = "abort", !.upload = FALSE]
  <2>1. /\ copy' \in Calls /\ copy'.what = copy.what /\ copy'.Acls = copy.Acls
        /\ copy'.Error = copy.Error /\ copy'.pc \in {"write acl", "abort"}
    BY <1>1, <1>2 DEF Calls
  <2>2. Len(versions) = 1 \/ copy.what.version => \A i \in 1..Parts : copy.parts[i] = 1
    BY <1>1 DEF CopyInv, ReadSoFar
  <2>3. Len(versions) = 1 \/ copy.what.version => Carries(SentByInitiate, copy.what)
    BY <1>1, InitiateCarries DEF CopyInv, ReadSoFar, What
  <2>4. SentByInitiate \in MDs
    BY <1>1, SentIsMD
  <2> QED
    BY <1>1, <1>2, <2>1, <2>2, <2>3, <2>4, MadeKept
<1>3. CASE Goto("abort") /\ UNCHANGED store
  BY <1>1, <1>3, CopyAborts
<1> QED
  BY <1>2, <1>3 DEF CopyComplete

LEMMA CopyAbortKept ==
    ASSUME CopyInv, CopyAbort
    PROVE  CopyInv'
<1>1. copy.pc = "abort" /\ copy \in Calls /\ UNCHANGED <<store, versions>>
  BY DEF CopyAbort, CopyInv, CopyShape
<1>2. PICK upload \in {FALSE, copy.upload} :
        copy' = [copy EXCEPT !.pc = "done", !.Error = "failed", !.upload = upload]
  BY DEF CopyAbort
<1>3. /\ copy' \in Calls /\ copy'.what = copy.what /\ copy'.Acls = copy.Acls
      /\ copy'.pc = "done" /\ copy'.Error = "failed"
  BY <1>1, <1>2 DEF Calls
<1> QED
  BY <1>1, <1>3, CopyReturns

(* Another ACL leaves the rest of an object as it is.                      *)
LEMMA NewACL ==
    ASSUME NEW o \in Objects, o # None, NEW acl \in ACLs
    PROVE  /\ [o EXCEPT !.acl = acl] \in Objects
           /\ Whole(o) => Whole([o EXCEPT !.acl = acl])
           /\ [o EXCEPT !.acl = acl].md = o.md /\ [o EXCEPT !.acl = acl].acl = acl
<1> DEFINE u == [o EXCEPT !.acl = acl]
<1>1. u \in ObjectRecords /\ u.md = o.md /\ u.acl = acl /\ u.parts = o.parts
  BY DEF Objects, ObjectRecords
<1> HIDE DEF u
<1>2. Len(o.parts) = Parts
  BY DEF Objects
<1>3. u # None
  BY <1>1, <1>2, CopyAssumption DEF None
<1>4. u \in Objects /\ (Whole(o) => Whole(u))
  BY <1>1, <1>2, <1>3 DEF Objects, Whole
<1> QED
  BY <1>1, <1>4 DEF u

LEMMA CopyWriteACLKept ==
    ASSUME CopyInv, CopyWriteACL
    PROVE  CopyInv'
<1>1. /\ copy.pc = "write acl" /\ copy \in Calls /\ UNCHANGED versions
      /\ Goto(IF copy.what.bCopy THEN "done" ELSE "delete")
      /\ copy.what \in Copies /\ ~copy.what.update /\ copy.Error = "ok"
  BY CallFacts DEF CopyWriteACL, CopyInv, CopyShape, ReadSoFar, What
<1>2. /\ copy' \in Calls /\ copy'.what = copy.what /\ copy'.Acls = copy.Acls
      /\ copy'.Error = "ok" /\ copy'.pc \in {"done", "delete"}
      /\ copy'.pc = "delete" => ~copy.what.bCopy
  BY <1>1, GotoFields
<1>3. PICK acl \in {AsUsers(copy.Acls), store[Target].acl} :
        store' = IF copy.Acls = 0 \/ store[Target] = None THEN store
                 ELSE [store EXCEPT ![Target].acl = acl]
  BY DEF CopyWriteACL
<1>4. /\ store \in [{"old", "new"} -> Objects] /\ Target \in {"old", "new"}
      /\ Target = TargetOf(copy.what) /\ store[Target] \in Objects
  BY <1>1, CallFacts DEF CopyInv, CopyShape, TargetOf
<1>5. acl \in ACLs
  <2>1. store[Target].acl \in ACLs
    BY <1>4 DEF Objects, ObjectRecords
  <2>2. copy.Acls \in Nat
    BY <1>1 DEF Calls
  <2>3. AsUsers(copy.Acls) \in ACLs
    BY <2>2 DEF ACLs, AsUsers
  <2> QED
    BY <1>3, <2>1, <2>3
<1> DEFINE o == [store[Target] EXCEPT !.acl = acl]
<1>6. store' = store \/ (store[Target] # None /\ store' = [store EXCEPT ![Target] = o])
  BY <1>3
<1>7. /\ store[Target] # None => o \in Objects /\ (Whole(store[Target]) => Whole(o))
      /\ store[Target] # None => o.md = store[Target].md /\ o.acl = acl
  BY <1>4, <1>5, NewACL
<1> HIDE DEF o
<1>8. /\ store' \in [{"old", "new"} -> Objects]
      /\ \A p \in {"old", "new"} : Whole(store[p]) => Whole(store'[p])
      /\ store'[Target].md = store[Target].md
      /\ \/ store'[Target].acl = store[Target].acl
         \/ copy.Acls # 0 /\ store'[Target].acl = AsUsers(copy.Acls)
  BY <1>3, <1>4, <1>6, <1>7
<1>9. CopyShape' /\ ReadSoFar(copy', store', Len(versions'))
  BY <1>1, <1>2, <1>8 DEF CopyInv, CopyShape, ReadSoFar
<1>10. ASSUME Len(versions) = 1 \/ copy.what.version,
              ~(copy.what.same /\ ((~copy.what.update /\ ~copy.what.bCopy) \/ Len(versions) # 1))
       PROVE  Made(store'[Target], copy.what)
  <2>1. Made(store[Target], copy.what) /\ copy.Acls \in {0, 1}
    BY <1>1, <1>4, <1>10 DEF CopyInv, ReadSoFar, MadeSoFar
  <2> QED
    BY <1>1, <1>4, <1>8, <2>1 DEF Made
<1>11. MadeSoFar(copy', store', Len(versions'))
  BY <1>1, <1>2, <1>4, <1>8, <1>10 DEF CopyInv, MadeSoFar
<1> QED
  BY <1>9, <1>11 DEF CopyInv

LEMMA CopyDeleteKept ==
    ASSUME CopyInv, CopyDelete
    PROVE  CopyInv'
<1>1. /\ copy.pc = "delete" /\ copy \in Calls /\ UNCHANGED versions
      /\ copy.what \in Copies /\ ~copy.what.update /\ ~copy.what.bCopy /\ copy.Error = "ok"
  BY CallFacts DEF CopyDelete, CopyInv, CopyShape, ReadSoFar
<1>2. CASE Fails
  BY <1>1, <1>2, ReturnFields, CopyReturns DEF Fails
<1>3. CASE /\ store' = [store EXCEPT !["old"] = None]
           /\ \E error \in {"ok", "failed"} : Return(error)
  <2>1. /\ copy' \in Calls /\ copy'.what = copy.what /\ copy'.Acls = copy.Acls
        /\ copy'.pc = "done"
    BY <1>1, <1>3 DEF Return, Calls
  <2>2. /\ store' \in [{"old", "new"} -> Objects] /\ store'["new"] = store["new"]
    BY <1>3, NoneIsObject DEF CopyInv, CopyShape
  <2>3. CopyShape' /\ ReadSoFar(copy', store', Len(versions'))
    BY <1>1, <2>1, <2>2 DEF CopyInv, CopyShape, ReadSoFar
  <2>4. ~copy.what.same => TargetOf(copy.what) = "new"
    BY <1>1 DEF TargetOf
  <2>5. ASSUME Len(versions) = 1 \/ copy.what.version, ~copy.what.same
        PROVE  Made(store["new"], copy.what)
    BY <1>1, <2>4, <2>5 DEF CopyInv, MadeSoFar
  <2>6. MadeSoFar(copy', store', Len(versions'))
    BY <1>1, <2>1, <2>2, <2>4, <2>5 DEF MadeSoFar, Made
  <2> QED
    BY <2>3, <2>6 DEF CopyInv
<1> QED
  BY <1>2, <1>3 DEF CopyDelete

LEMMA CopyOtherKept ==
    ASSUME CopyInv, CopyOther
    PROVE  CopyInv'
<1>1. copy.pc \notin {"idle", "done"} /\ UNCHANGED copy /\ Len(versions) \in Nat \ {0}
  BY CallFacts DEF CopyOther
<1>2. PICK o \in {Written(Len(versions) + 1), None} :
        versions' = Append(versions, o) /\ store' = [store EXCEPT !["old"] = o]
  BY DEF CopyOther
<1>3. o \in Objects
  BY <1>1, <1>2, WrittenIsObject, NoneIsObject
<1>4. /\ versions' \in Seq(Objects) /\ versions' # << >> /\ versions'[1] = Written(1)
      /\ Len(versions') # 1
  BY <1>1, <1>2, <1>3 DEF CopyInv, CopyShape
<1>5. store' \in [{"old", "new"} -> Objects] /\ store'["new"] = store["new"]
  BY <1>2, <1>3 DEF CopyInv, CopyShape
<1>6. CopyShape' /\ ReadSoFar(copy', store', Len(versions'))
  BY <1>1, <1>4, <1>5 DEF CopyInv, CopyShape, ReadSoFar
<1>7. copy.what \in Copies /\ (copy.what.update => copy.what.same)
  BY <1>1, CallFacts
<1>8. ~copy.what.same => TargetOf(copy.what) = "new"
  BY <1>7 DEF TargetOf
<1>9. MadeSoFar(copy', store', Len(versions'))
  BY <1>1, <1>4, <1>5, <1>8 DEF CopyInv, MadeSoFar
<1> QED
  BY <1>6, <1>9 DEF CopyInv

LEMMA CopyNext ==
    ASSUME CopyInv, op = "none" => copy.pc = "idle", [Next]_vars
    PROVE  CopyInv' /\ (op' = "none" => copy'.pc = "idle")
<1>1. CASE UNCHANGED <<copyVars, op>>
  BY <1>1 DEF CopyInv, CopyShape, copyVars
<1>2. CASE UNCHANGED copyVars /\ op' # "none"
  BY <1>2 DEF CopyInv, CopyShape, copyVars
<1>3. CASE CallCopy
  BY <1>3, CopyBegins DEF CallCopy
<1>4. CASE Copying
  BY <1>4, CopyReadACLKept, CopyHeadKept, CopyPutKept, CopyInitiateKept, CopyPartKept,
     CopyCompleteKept, CopyAbortKept, CopyWriteACLKept, CopyDeleteKept DEF Copying, CopyStep
<1>5. CASE op = "copy" /\ CopyOther /\ UNCHANGED op
  BY <1>5, CopyOtherKept
<1> QED
  BY <1>1, <1>2, <1>3, <1>4, <1>5 DEF Next, vars, CallListing, CallDelete, CallAdmin,
                    ListingSteps, Deleting, Administering, Others

(* A copy, rename or metadata update that succeeds has made the target it  *)
(* was asked for, where nobody writes the source meanwhile or a version is *)
(* named, for objects of any number of parts; and whichever request fails, *)
(* and whether or not the server has acted on it, the content is still at  *)
(* one of the two paths (RenameS3, CopyS3, UpdateMetadata).                *)
THEOREM CopyIsRealHolds == Spec => []CopyIsReal
<1> DEFINE CInv == CopyInv /\ (op = "none" => copy.pc = "idle")
<1>1. Init => CInv
  BY CopyStart DEF Init, CopyInit
<1>2. CInv /\ [Next]_vars => CInv'
  BY CopyNext
<1>3. CInv => CopyIsReal
  <2> SUFFICES ASSUME CopyInv PROVE CopyIsReal
    OBVIOUS
  <2>1. MadeSoFar(copy, store, Len(versions))
    BY DEF CopyInv
  <2> QED
    BY <2>1 DEF MadeSoFar, Made, CopyIsReal, Succeeded, Alone, What, Target, TargetOf, Renaming
<1> QED
  BY <1>1, <1>2, <1>3, PTL DEF Spec
-----------------------------------------------------------------------------
(* Finite sets of keys in order.                                           *)

(* The elements of a finite set by the number of those before them:        *)
(* before[k] is the set of the elements before k in a strict total order.  *)
LEMMA Ranks ==
    ASSUME NEW S, IsFiniteSet(S), NEW before \in [S -> SUBSET S],
           \A k \in S : k \notin before[k],
           \A k, l \in S : k \in before[l] => before[k] \subseteq before[l],
           \A k, l \in S : k = l \/ k \in before[l] \/ l \in before[k]
    PROVE  /\ Cardinality(S) \in Nat
           /\ \A k \in S : Cardinality(before[k]) \in 0..(Cardinality(S) - 1)
           /\ \A k, l \in S : k \in before[l] <=> Cardinality(before[k]) < Cardinality(before[l])
           /\ \A k, l \in S : Cardinality(before[k]) = Cardinality(before[l]) => k = l
           /\ \A i \in 1..Cardinality(S) : \E k \in S : Cardinality(before[k]) = i - 1
<1> DEFINE n == Cardinality(S)
           rank == [k \in S |-> Cardinality(before[k]) + 1]
<1>1. n \in Nat
  BY FS_CardinalityType
<1>2. \A k \in S : IsFiniteSet(before[k]) /\ Cardinality(before[k]) \in Nat
  BY FS_Subset, FS_CardinalityType
<1>3. \A k \in S : Cardinality(before[k]) \in 0..(n - 1)
  <2> TAKE k \in S
  <2>1. before[k] \in SUBSET (S \ {k})
    OBVIOUS
  <2>2. IsFiniteSet(S \ {k}) /\ Cardinality(S \ {k}) = n - 1
    BY FS_RemoveElement
  <2>3. Cardinality(before[k]) <= Cardinality(S \ {k})
    BY <2>1, <2>2, FS_Subset
  <2> QED
    BY <1>1, <1>2, <2>2, <2>3
<1>4. ASSUME NEW k \in S, NEW l \in S, k \in before[l]
      PROVE  Cardinality(before[k]) < Cardinality(before[l])
  <2>1. before[k] \in SUBSET before[l] /\ before[k] # before[l]
    BY <1>4
  <2>2. /\ Cardinality(before[k]) <= Cardinality(before[l])
        /\ Cardinality(before[l]) # Cardinality(before[k])
    BY <1>2, <2>1, FS_Subset
  <2> QED
    BY <1>2, <2>2
<1>5. \A k, l \in S : Cardinality(before[k]) = Cardinality(before[l]) => k = l
  BY <1>2, <1>4
<1>6. rank \in [S -> 1..n]
  BY <1>1, <1>3
<1>7. rank \in Injection(S, 1..n)
  BY <1>2, <1>5, <1>6 DEF Injection, IsInjective
<1>8. IsFiniteSet(1..n) /\ Cardinality(1..n) = n
  BY <1>1, FS_Interval
<1>9. rank \in Surjection(S, 1..n)
  BY <1>7, <1>8, FS_Injection
<1>10. \A i \in 1..n : \E k \in S : rank[k] = i
  BY <1>9 DEF Surjection
<1>11. \A i \in 1..n : \E k \in S : Cardinality(before[k]) = i - 1
  BY <1>1, <1>2, <1>10
<1>12. \A k, l \in S : Cardinality(before[k]) < Cardinality(before[l]) => k \in before[l]
  BY <1>2, <1>4
<1> QED
  BY <1>1, <1>3, <1>4, <1>5, <1>11, <1>12

(* A sequence of the elements by their numbers.                            *)
LEMMA Ranked ==
    ASSUME NEW S, IsFiniteSet(S), NEW before \in [S -> SUBSET S],
           \A k \in S : k \notin before[k],
           \A k, l \in S : k \in before[l] => before[k] \subseteq before[l],
           \A k, l \in S : k = l \/ k \in before[l] \/ l \in before[k],
           NEW s \in [1..Cardinality(S) -> S],
           \A i \in 1..Cardinality(S) : Cardinality(before[s[i]]) = i - 1
    PROVE  /\ s \in Seq(S) /\ Len(s) = Cardinality(S) /\ Range(s) = S
           /\ \A i, j \in 1..Cardinality(S) : i < j => s[i] \in before[s[j]]
<1> DEFINE n == Cardinality(S)
<1>1. /\ n \in Nat
      /\ \A k \in S : Cardinality(before[k]) \in 0..(n - 1)
      /\ \A k, l \in S : k \in before[l] <=> Cardinality(before[k]) < Cardinality(before[l])
      /\ \A k, l \in S : Cardinality(before[k]) = Cardinality(before[l]) => k = l
  BY Ranks
<1> HIDE DEF n
<1>2. s \in [1..n -> S] /\ \A i \in 1..n : s[i] \in S /\ Cardinality(before[s[i]]) = i - 1
  BY DEF n
<1>3. n \in Nat
  BY <1>1
<1>4. s \in Seq(S) /\ Len(s) = n /\ DOMAIN s = 1..n
  BY ONLY <1>2, <1>3
<1>5. \A k \in S : \E i \in 1..n : s[i] = k
  <2> TAKE k \in S
  <2> DEFINE r == Cardinality(before[k])
  <2>1. r \in 0..(n - 1)
    BY <1>1
  <2> HIDE DEF r
  <2>2. r + 1 \in 1..n /\ (r + 1) - 1 = r
    BY <1>1, <2>1
  <2>3. s[r + 1] \in S /\ Cardinality(before[s[r + 1]]) = r
    BY <1>2, <2>2
  <2>4. s[r + 1] = k
    BY <1>1, <2>3 DEF r
  <2> QED
    BY <2>2, <2>4
<1>6. Range(s) = S
  <2>1. Range(s) = {s[i] : i \in 1..n}
    BY <1>4 DEF Range
  <2> QED
    BY ONLY <1>2, <1>5, <2>1
<1>7. \A i, j \in 1..n : i < j => s[i] \in before[s[j]]
  <2> TAKE i, j \in 1..n
  <2>1. /\ s[i] \in S /\ s[j] \in S
        /\ Cardinality(before[s[i]]) = i - 1 /\ Cardinality(before[s[j]]) = j - 1
    BY <1>2
  <2>2. i < j => i - 1 < j - 1
    BY <1>1
  <2> QED
    BY <1>1, <2>1, <2>2
<1> QED
  BY <1>4, <1>6, <1>7 DEF n

(* What Ascending and Descending return.                                   *)
LEMMA AscendingFacts ==
    ASSUME NEW S \in SUBSET Nat, IsFiniteSet(S)
    PROVE  /\ Ascending(S) \in Seq(S) /\ Len(Ascending(S)) = Cardinality(S)
           /\ Range(Ascending(S)) = S
           /\ \A i, j \in 1..Cardinality(S) : i < j => Ascending(S)[i] < Ascending(S)[j]
<1> DEFINE before == [k \in S |-> {j \in S : j < k}]
           n == Cardinality(S)
<1>1. \A k \in S : before[k] = {j \in S : j < k}
  OBVIOUS
<1>2. /\ before \in [S -> SUBSET S]
      /\ \A k \in S : k \notin before[k]
      /\ \A k, l \in S : k \in before[l] => before[k] \subseteq before[l]
      /\ \A k, l \in S : k = l \/ k \in before[l] \/ l \in before[k]
  <2>1. before \in [S -> SUBSET S]
    OBVIOUS
  <2>2. \A k, l \in S : k \in before[l] <=> k < l
    BY <1>1
  <2> HIDE DEF before
  <2>3. \A k, l, m \in S : k < l /\ l < m => k < m
    OBVIOUS
  <2>4. \A k, l \in S : ~(k < k) /\ (k = l \/ k < l \/ l < k)
    OBVIOUS
  <2> QED
    BY <2>1, <2>2, <2>3, <2>4
<1> HIDE DEF before
<1>3. n \in Nat /\ \A i \in 1..n : \E k \in S : Cardinality(before[k]) = i - 1
  BY <1>2, Ranks
<1>4. \A i \in 1..n : \E k \in S : Cardinality({j \in S : j < k}) = i - 1
  BY <1>1, <1>3
<1> DEFINE pick(i) == CHOOSE k \in S : Cardinality({j \in S : j < k}) = i - 1
<1>5. \A i \in 1..n : pick(i) \in S /\ Cardinality({j \in S : j < pick(i)}) = i - 1
  <2> TAKE i \in 1..n
  <2>1. \E k \in S : Cardinality({j \in S : j < k}) = i - 1
    BY <1>4
  <2> QED
    BY ONLY <2>1
<1>6. Ascending(S) = [i \in 1..n |-> pick(i)]
  BY DEF Ascending
<1> HIDE DEF pick
<1>7. /\ Ascending(S) \in [1..n -> S]
      /\ \A i \in 1..n : Cardinality(before[Ascending(S)[i]]) = i - 1
  BY <1>1, <1>5, <1>6
<1> HIDE DEF n
<1>8. /\ Ascending(S) \in Seq(S) /\ Len(Ascending(S)) = n /\ Range(Ascending(S)) = S
      /\ \A i, j \in 1..n : i < j => Ascending(S)[i] \in before[Ascending(S)[j]]
  BY <1>2, <1>7, Ranked, ZenonT(40) DEF n
<1> QED
  BY <1>1, <1>7, <1>8 DEF n

LEMMA DescendingFacts ==
    ASSUME NEW S \in SUBSET Nat, IsFiniteSet(S)
    PROVE  /\ Descending(S) \in Seq(S) /\ Len(Descending(S)) = Cardinality(S)
           /\ Range(Descending(S)) = S
           /\ \A i, j \in 1..Cardinality(S) : i < j => Descending(S)[j] < Descending(S)[i]
<1> DEFINE before == [k \in S |-> {j \in S : j > k}]
           n == Cardinality(S)
<1>1. \A k \in S : before[k] = {j \in S : j > k}
  OBVIOUS
<1>2. /\ before \in [S -> SUBSET S]
      /\ \A k \in S : k \notin before[k]
      /\ \A k, l \in S : k \in before[l] => before[k] \subseteq before[l]
      /\ \A k, l \in S : k = l \/ k \in before[l] \/ l \in before[k]
  <2>1. before \in [S -> SUBSET S]
    OBVIOUS
  <2>2. \A k, l \in S : k \in before[l] <=> k > l
    BY <1>1
  <2> HIDE DEF before
  <2>3. \A k, l, m \in S : k > l /\ l > m => k > m
    OBVIOUS
  <2>4. \A k, l \in S : ~(k > k) /\ (k = l \/ k > l \/ l > k)
    OBVIOUS
  <2> QED
    BY <2>1, <2>2, <2>3, <2>4
<1> HIDE DEF before
<1>3. n \in Nat /\ \A i \in 1..n : \E k \in S : Cardinality(before[k]) = i - 1
  BY <1>2, Ranks
<1>4. \A i \in 1..n : \E k \in S : Cardinality({j \in S : j > k}) = i - 1
  BY <1>1, <1>3
<1> DEFINE pick(i) == CHOOSE k \in S : Cardinality({j \in S : j > k}) = i - 1
<1>5. \A i \in 1..n : pick(i) \in S /\ Cardinality({j \in S : j > pick(i)}) = i - 1
  <2> TAKE i \in 1..n
  <2>1. \E k \in S : Cardinality({j \in S : j > k}) = i - 1
    BY <1>4
  <2> QED
    BY ONLY <2>1
<1>6. Descending(S) = [i \in 1..n |-> pick(i)]
  BY DEF Descending
<1> HIDE DEF pick
<1>7. /\ Descending(S) \in [1..n -> S]
      /\ \A i \in 1..n : Cardinality(before[Descending(S)[i]]) = i - 1
  BY <1>1, <1>5, <1>6
<1> HIDE DEF n
<1>8. /\ Descending(S) \in Seq(S) /\ Len(Descending(S)) = n /\ Range(Descending(S)) = S
      /\ \A i, j \in 1..n : i < j => Descending(S)[i] \in before[Descending(S)[j]]
  BY <1>2, <1>7, Ranked, ZenonT(40) DEF n
<1> QED
  BY <1>1, <1>7, <1>8 DEF n

(* Largest(S) is in S and bounds it.                                       *)
LEMMA LargestFacts ==
    ASSUME NEW S \in SUBSET Nat, IsFiniteSet(S), S # {}
    PROVE  Largest(S) \in S /\ \A k \in S : k <= Largest(S)
<1>1. Cardinality(S) \in Nat \ {0}
  BY FS_CardinalityType, FS_EmptySet
<1> DEFINE m == Descending(S)[1]
<1>2. m \in S /\ \A k \in S : k <= m
  <2>1. /\ Len(Descending(S)) = Cardinality(S) /\ Descending(S) \in Seq(S)
        /\ Range(Descending(S)) = S
        /\ \A i, j \in 1..Cardinality(S) : i < j => Descending(S)[j] < Descending(S)[i]
    BY DescendingFacts
  <2>2. m \in S
    BY <1>1, <2>1
  <2>3. \A k \in S : \E i \in 1..Cardinality(S) : Descending(S)[i] = k
    BY <2>1 DEF Range
  <2>4. ASSUME NEW i \in 1..Cardinality(S)
        PROVE  Descending(S)[i] <= m
    <3>1. 1 \in 1..Cardinality(S) /\ (i = 1 \/ 1 < i)
      BY <1>1
    <3>2. Descending(S)[i] \in S
      BY <2>1
    <3>3. 1 < i => Descending(S)[i] < m
      BY <2>1, <3>1
    <3>4. i = 1 => Descending(S)[i] = m
      OBVIOUS
    <3>5. Descending(S)[i] \in Nat /\ m \in Nat
      BY <2>2, <3>2
    <3> HIDE DEF m
    <3> QED
      BY <3>1, <3>3, <3>4, <3>5
  <2> QED
    BY <2>2, <2>3, <2>4
<1> HIDE DEF m
<1> QED
  BY <1>2 DEF Largest

LEMMA Smallest ==
    ASSUME NEW S \in SUBSET Nat, IsFiniteSet(S), S # {}
    PROVE  \E m \in S : \A k \in S : m <= k
<1>1. Cardinality(S) \in Nat \ {0}
  BY FS_CardinalityType, FS_EmptySet
<1> DEFINE a == Ascending(S)
<1>2. /\ Len(a) = Cardinality(S) /\ a \in Seq(S) /\ Range(a) = S
      /\ \A i, j \in 1..Cardinality(S) : i < j => a[i] < a[j]
  BY AscendingFacts
<1> HIDE DEF a
<1>3. 1 \in 1..Cardinality(S) /\ a[1] \in S
  BY <1>1, <1>2
<1>4. \A k \in S : \E i \in 1..Cardinality(S) : a[i] = k
  BY <1>2 DEF Range
<1>5. \A i \in 1..Cardinality(S) : i = 1 \/ 1 < i
  BY <1>1
<1>6. \A i \in 1..Cardinality(S) : a[i] = a[1] \/ a[1] < a[i]
  BY <1>2, <1>3, <1>5
<1>7. \A k \in S : k = a[1] \/ a[1] < k
  BY <1>4, <1>6
<1>8. \A k \in S : a[1] <= k
  <2> TAKE k \in S
  <2>1. a[1] \in Nat /\ k \in Nat
    BY <1>3
  <2>2. k = a[1] \/ a[1] < k
    BY <1>7
  <2> QED
    BY ONLY <2>1, <2>2
<1> QED
  BY <1>3, <1>8
-----------------------------------------------------------------------------
(* Listings.                                                               *)

LEMMA KeyFacts ==
    /\ Keys \in SUBSET Nat /\ 0 \notin Keys /\ IsFiniteSet(Keys) /\ Folders \in SUBSET Keys
    /\ \A k \in Keys \cup {0} : k \in Nat
    /\ \A S \in SUBSET Keys : S \in SUBSET Nat /\ IsFiniteSet(S)
<1>1. Keys \in SUBSET Nat /\ 0 \notin Keys /\ IsFiniteSet(Keys) /\ Folders \in SUBSET Keys
  BY ListingAssumption DEF Bucket
<1>2. \A S \in SUBSET Keys : IsFiniteSet(S)
  BY <1>1, FS_Subset
<1> QED
  BY <1>1, <1>2

LEMMA ItemsFacts ==
    ASSUME NEW what, NEW T \in SUBSET Keys, NEW S \in SUBSET T
    PROVE  /\ Items(what, S) \subseteq Items(what, T) /\ Items(what, T) \subseteq Keys
           /\ Listed(what, S) \subseteq Listed(what, T)
BY ListingAssumption DEF Items, Listed

(* What an answer of the server holds of the items after the marker: all   *)
(* of them, or those up to its last one.                                   *)
LEMMA PageFacts ==
    ASSUME objects \in SUBSET Keys, NEW what, NEW marker \in Nat, NEW page,
           page = Page(what, marker)
    PROVE  LET rest == {k \in Items(what, objects) : k > marker}
           IN  /\ page.keys \subseteq rest /\ rest \subseteq Keys
               /\ page.IsTruncated \in BOOLEAN
               /\ ~page.IsTruncated => page.keys = rest /\ page.NextMarker = 0
               /\ page.IsTruncated =>
                    /\ Largest(page.keys) \in page.keys
                    /\ \A k \in page.keys : k <= Largest(page.keys)
                    /\ \A k \in rest : k <= Largest(page.keys) => k \in page.keys
                    /\ page.NextMarker = IF what.kind # "objects" \/ what.delimiter
                                           THEN Largest(page.keys) ELSE 0
<1> DEFINE rest == {k \in Items(what, objects) : k > marker}
           keys == {k \in rest : Cardinality({j \in rest : j < k}) < MaxKeys}
<1>1. rest \in SUBSET Keys
  BY ItemsFacts
<1>2. /\ page.keys = keys /\ page.IsTruncated = (rest # keys)
      /\ page.NextMarker = IF rest # keys /\ (what.kind # "objects" \/ what.delimiter)
                             THEN Largest(keys) ELSE 0
  BY DEF Page
<1>3. keys \in SUBSET rest
  OBVIOUS
<1>4. IsFiniteSet(rest) /\ IsFiniteSet(keys) /\ rest \in SUBSET Nat /\ keys \in SUBSET Nat
  BY <1>1, <1>3, KeyFacts
<1>5. ASSUME rest # keys
      PROVE  /\ Largest(keys) \in keys /\ \A k \in keys : k <= Largest(keys)
             /\ \A k \in rest : k <= Largest(keys) => k \in keys
  <2>1. PICK m \in rest : \A k \in rest : m <= k
    <3>1. rest # {}
      BY <1>3, <1>5
    <3> QED
      BY <1>4, <3>1, Smallest
  <2>2. {j \in rest : j < m} = {}
    BY <1>4, <2>1
  <2>3. Cardinality({j \in rest : j < m}) = 0
    BY <2>2, FS_EmptySet
  <2>4. m \in keys
    BY <2>3, ListingAssumption
  <2> DEFINE last == Largest(keys)
  <2>5. last \in keys /\ \A k \in keys : k <= last
    BY <1>4, <2>4, LargestFacts
  <2> HIDE DEF last
  <2>6. ASSUME NEW k \in rest, k <= last
        PROVE  k \in keys
    <3> DEFINE A == {j \in rest : j < k}
               B == {j \in rest : j < last}
    <3>1. last \in Nat /\ k \in Nat
      BY <1>4, <2>5
    <3>2. A \in SUBSET B
      BY <1>4, <2>6, <3>1
    <3>3. IsFiniteSet(B) /\ IsFiniteSet(A)
      BY <1>4, FS_Subset
    <3>4. Cardinality(A) <= Cardinality(B)
      BY <3>2, <3>3, FS_Subset
    <3>5. Cardinality(A) \in Nat /\ Cardinality(B) \in Nat
      BY <3>3, FS_CardinalityType
    <3>6. Cardinality(B) < MaxKeys
      BY <2>5
    <3>7. Cardinality(A) < MaxKeys
      BY <3>4, <3>5, <3>6, ListingAssumption
    <3> QED
      BY <3>7
  <2> QED
    BY <2>5, <2>6 DEF last
<1> HIDE DEF keys, rest
<1> QED
  BY <1>1, <1>2, <1>3, <1>5 DEF rest

(* A listing of objects without delimiter takes its next marker from the   *)
(* Context, where an earlier one stays: such listings are read one page a  *)
(* call, or only the first page of them.                                   *)
Askable(what) ==
    /\ what.kind \in Kinds
    /\ what.kind = "objects" /\ ~what.delimiter => what.paged \/ what.single

AskedFor == Listings \cup {NoListing} \cup {FolderListing(f) : f \in Folders}

Contexts ==
    [bIsTruncated : BOOLEAN, sNextMarker : Keys \cup {0}, sLastFullObjName : Keys \cup {0},
     bGotKey : BOOLEAN]

ListRecords ==
    [pc : {"idle", "request", "next call", "done"}, what : AskedFor, Context : Contexts,
     marker : Keys \cup {0}, DirList : Seq(Keys), pages : Seq(Keys),
     Error : {"ok", "failed", "malformed", "not found"}]

NoDoubles(s) == \A i, j \in DOMAIN s : s[i] = s[j] => i = j
Seen(l) == Range(l.pages) \cup Range(l.DirList)

(* The listing l, where st are the objects that were there all the time    *)
(* and ev those that were there at some time.  The marker divides what has *)
(* been listed from what has not.                                          *)
ListedSoFar(l, st, ev) ==
    /\ NoDoubles(l.pages) /\ NoDoubles(l.DirList) /\ Range(l.pages) \cap Range(l.DirList) = {}
    /\ Seen(l) \subseteq Listed(l.what, ev)
    /\ l.pc \in {"request", "next call"} =>
         /\ \A k \in Seen(l) : k <= l.marker
         /\ \A k \in Listed(l.what, st) : k <= l.marker => k \in Seen(l)
    /\ l.pc = "done" /\ l.Error \in {"ok", "not found"} =>
         l.what.single \/ Listed(l.what, st) \subseteq Seen(l)

(* Where the listing is in its loop.                                       *)
LoopAt(l) ==
    /\ l.pc = "request" /\ l.what.kind = "objects" /\ ~l.what.delimiter =>
         l.Context.sNextMarker = 0
    /\ l.pc = "next call" => l.what.paged
    /\ l.what.paged \/ l.pages = << >>
    /\ l.pc = "done" /\ l.Error = "not found" => l.DirList = << >>

ListInv ==
    /\ objects \in SUBSET Keys /\ stable \in SUBSET Keys /\ ever \in SUBSET Keys
    /\ listing \in ListRecords
    /\ listing.pc \in {"request", "next call"} => stable \subseteq objects /\ objects \subseteq ever
    /\ ListedSoFar(listing, stable, ever) /\ LoopAt(listing)

LEMMA RangeFacts ==
    ASSUME NEW S, NEW s \in Seq(S)
    PROVE  /\ \A k : k \in Range(s) <=> \E i \in 1..Len(s) : s[i] = k
           /\ Range(s) \subseteq S /\ Range(<< >>) = {} /\ NoDoubles(<< >>)
           /\ DOMAIN s = 1..Len(s)
BY DEF Range, NoDoubles

LEMMA InRange ==
    ASSUME NEW S, NEW s \in Seq(S), NEW k \in Range(s)
    PROVE  s # << >> /\ \E i \in 1..Len(s) : s[i] = k
<1>1. Range(<< >>) = {} /\ \E i \in 1..Len(s) : s[i] = k
  BY RangeFacts
<1> QED
  BY <1>1

LEMMA EmptyRange == Range(<< >>) = {} /\ Len(<< >>) = 0
BY DEF Range

LEMMA ConcatFacts ==
    ASSUME NEW S, NEW s \in Seq(S), NEW t \in Seq(S)
    PROVE  /\ s \o t \in Seq(S) /\ Range(s \o t) = Range(s) \cup Range(t)
           /\ NoDoubles(s) /\ NoDoubles(t) /\ Range(s) \cap Range(t) = {} => NoDoubles(s \o t)
<1>1. /\ s \o t \in Seq(S) /\ Len(s \o t) = Len(s) + Len(t)
      /\ Len(s) \in Nat /\ Len(t) \in Nat
  OBVIOUS
<1>2. \A i \in 1..Len(s) : (s \o t)[i] = s[i] /\ i \in 1..Len(s \o t)
  BY <1>1
<1>3. \A i \in 1..Len(t) : (s \o t)[Len(s) + i] = t[i] /\ Len(s) + i \in 1..Len(s \o t)
  BY <1>1
<1>4. \A i \in 1..Len(s \o t) : \/ i \in 1..Len(s) /\ (s \o t)[i] = s[i]
                                \/ i - Len(s) \in 1..Len(t) /\ (s \o t)[i] = t[i - Len(s)]
  BY <1>1
<1>5. \A k : k \in Range(s \o t) <=> k \in Range(s) \cup Range(t)
  <2> TAKE k
  <2>1. ASSUME k \in Range(s \o t) PROVE k \in Range(s) \cup Range(t)
    <3>1. PICK i \in 1..Len(s \o t) : (s \o t)[i] = k
      BY <1>1, <2>1, RangeFacts
    <3> QED
      BY <1>4, <3>1, RangeFacts
  <2>2. ASSUME k \in Range(s) PROVE k \in Range(s \o t)
    <3>1. PICK i \in 1..Len(s) : s[i] = k
      BY <2>2, RangeFacts
    <3> QED
      BY <1>1, <1>2, <3>1, RangeFacts
  <2>3. ASSUME k \in Range(t) PROVE k \in Range(s \o t)
    <3>1. PICK i \in 1..Len(t) : t[i] = k
      BY <2>3, RangeFacts
    <3> QED
      BY <1>1, <1>3, <3>1, RangeFacts
  <2> QED
    BY <2>1, <2>2, <2>3
<1>6. ASSUME NoDoubles(s), NoDoubles(t), Range(s) \cap Range(t) = {}
      PROVE  NoDoubles(s \o t)
  <2> SUFFICES ASSUME NEW i \in 1..Len(s \o t), NEW j \in 1..Len(s \o t),
                      (s \o t)[i] = (s \o t)[j]
               PROVE  i = j
    <3>1. DOMAIN (s \o t) = 1..Len(s \o t)
      BY <1>1
    <3> QED
      BY <3>1 DEF NoDoubles
  <2>1. CASE i \in 1..Len(s) /\ j \in 1..Len(s)
    BY <1>2, <1>6, <2>1, RangeFacts DEF NoDoubles
  <2>2. CASE i - Len(s) \in 1..Len(t) /\ j - Len(s) \in 1..Len(t)
    <3>1. t[i - Len(s)] = t[j - Len(s)]
      BY <1>1, <2>2
    <3>2. i - Len(s) = j - Len(s)
      BY <1>6, <2>2, <3>1, RangeFacts DEF NoDoubles
    <3> QED
      BY <1>1, <3>2
  <2>3. CASE i \in 1..Len(s) /\ j - Len(s) \in 1..Len(t)
    <3>1. s[i] = t[j - Len(s)]
      BY <1>1, <2>3
    <3> QED
      BY <1>6, <2>3, <3>1, RangeFacts
  <2>4. CASE i - Len(s) \in 1..Len(t) /\ j \in 1..Len(s)
    <3>1. s[j] = t[i - Len(s)]
      BY <1>1, <2>4
    <3> QED
      BY <1>6, <2>4, <3>1, RangeFacts
  <2> QED
    BY <1>4, <2>1, <2>2, <2>3, <2>4
<1> QED
  BY <1>1, <1>5, <1>6

(* What the loop makes of an answer: if it is truncated the next request   *)
(* goes on after its last item, otherwise the loop ends.                   *)
LEMMA ContextFacts ==
    ASSUME ListInv, listing.pc = "request", Askable(listing.what),
           NEW what, what = listing.what, NEW page, page = Page(what, listing.marker),
           NEW ctx, ctx = LastAsMarker(what, IF what.kind = "search" THEN ScannedSearch(what, page)
                                             ELSE Scanned(what, listing.Context, page))
    PROVE  /\ ctx \in Contexts /\ NextMarker(what, ctx) \in Keys \cup {0}
           /\ ctx.bIsTruncated = page.IsTruncated /\ MorePages(what, ctx) = page.IsTruncated
           /\ page.IsTruncated => NextMarker(what, ctx) = Largest(page.keys)
<1> DEFINE old == IF what.kind = "search" THEN NoContext ELSE listing.Context
           new == Scanned(what, old, page)
           contents == Contents(what, page)
<1>1. listing.Context \in Contexts /\ listing.marker \in Nat /\ objects \in SUBSET Keys
  BY KeyFacts DEF ListInv, ListRecords
<1>2. old \in Contexts
  BY <1>1 DEF NoContext, Contexts
<1>3. what.kind = "objects" /\ ~what.delimiter => old.sNextMarker = 0
  BY DEF ListInv, LoopAt
<1>4. what.kind = "search" => old.sNextMarker = 0
  BY DEF NoContext
<1>5. ctx = LastAsMarker(what, new)
  BY DEF ScannedSearch
<1> HIDE DEF old
<1>6. /\ page.keys \in SUBSET Keys /\ page.IsTruncated \in BOOLEAN
      /\ ~page.IsTruncated => page.NextMarker = 0
      /\ page.IsTruncated => /\ Largest(page.keys) \in page.keys
                             /\ page.NextMarker = IF what.kind # "objects" \/ what.delimiter
                                                    THEN Largest(page.keys) ELSE 0
  BY <1>1, PageFacts
<1>7. contents \in SUBSET page.keys /\ (~what.delimiter => contents = page.keys)
  BY DEF Contents
<1>8. contents # {} => Largest(contents) \in contents
  <2>1. contents \in SUBSET Nat /\ IsFiniteSet(contents)
    BY <1>6, <1>7, KeyFacts
  <2> QED
    BY <2>1, LargestFacts
<1>9. /\ new = [bIsTruncated |-> page.IsTruncated,
                sNextMarker |-> IF page.NextMarker # 0 THEN page.NextMarker ELSE old.sNextMarker,
                sLastFullObjName |-> IF contents = {} THEN old.sLastFullObjName
                                     ELSE Largest(contents),
                bGotKey |-> old.bGotKey \/ contents # {}]
  BY DEF Scanned
<1> HIDE DEF new, contents
<1>10. new \in Contexts
  BY <1>2, <1>6, <1>7, <1>8, <1>9 DEF Contexts
<1>11. /\ ctx \in Contexts /\ ctx.bIsTruncated = page.IsTruncated
       /\ page.IsTruncated => ctx.sNextMarker = Largest(page.keys)
       /\ ~page.IsTruncated => ctx.sNextMarker = old.sNextMarker
  <2>1. /\ new.bIsTruncated = page.IsTruncated
        /\ new.sNextMarker = IF page.NextMarker # 0 THEN page.NextMarker ELSE old.sNextMarker
        /\ new.sLastFullObjName = IF contents = {} THEN old.sLastFullObjName
                                  ELSE Largest(contents)
    BY <1>9
  <2>2. CASE ~page.IsTruncated
    BY <1>5, <1>6, <1>10, <2>1, <2>2 DEF LastAsMarker
  <2>3. CASE page.IsTruncated /\ (what.kind # "objects" \/ what.delimiter)
    <3>1. new.sNextMarker = Largest(page.keys) /\ new.sNextMarker # 0
      BY <1>6, <2>1, <2>3, KeyFacts
    <3> QED
      BY <1>5, <1>10, <2>1, <2>3, <3>1 DEF LastAsMarker
  <2>4. CASE page.IsTruncated /\ what.kind = "objects" /\ ~what.delimiter
    <3>1. new.sNextMarker = 0 /\ new.sLastFullObjName = Largest(page.keys)
      BY <1>3, <1>6, <1>7, <2>1, <2>4
    <3>2. ctx = [new EXCEPT !.sNextMarker = new.sLastFullObjName]
      BY <1>5, <2>1, <2>4, <3>1 DEF LastAsMarker
    <3> QED
      BY <1>6, <1>10, <2>1, <2>4, <3>1, <3>2 DEF Contexts
  <2> QED
    BY <1>6, <2>2, <2>3, <2>4
<1>12. NextMarker(what, ctx) \in Keys \cup {0}
  BY <1>11 DEF NextMarker, Contexts
<1>13. page.IsTruncated => NextMarker(what, ctx) = Largest(page.keys) /\ Largest(page.keys) # 0
  BY <1>6, <1>11, KeyFacts DEF NextMarker
<1>14. MorePages(what, ctx) = page.IsTruncated
  <2>1. CASE what.kind = "uploads"
    BY <1>11, <2>1 DEF MorePages
  <2>2. CASE what.kind # "uploads"
    <3>1. ~page.IsTruncated => NextMarker(what, ctx) = 0
      BY <1>4, <1>6, <1>11, <2>2 DEF NextMarker
    <3> QED
      BY <1>6, <1>13, <2>2, <3>1 DEF MorePages
  <2> QED
    BY <2>1, <2>2
<1> QED
  BY <1>11, <1>12, <1>13, <1>14

(* What an answer adds to the list.                                        *)
LEMMA AddedFacts ==
    ASSUME NEW what, what.kind \in Kinds, NEW list, NEW page
    PROVE  /\ Added(what, list, page) \subseteq page.keys
           /\ what.kind = "objects" => what.folder \notin Added(what, list, page)
           /\ \A k \in page.keys : \/ k \in Added(what, list, page) \/ k \in Range(list)
                                   \/ what.kind = "objects" /\ k = what.folder
BY DEF Added, Kinds

LEMMA SortedKeys ==
    ASSUME NEW S \in SUBSET Keys
    PROVE  /\ Ascending(S) \in Seq(Keys) /\ Range(Ascending(S)) = S
           /\ NoDoubles(Ascending(S)) /\ Len(Ascending(S)) = Cardinality(S)
<1>1. S \in SUBSET Nat /\ IsFiniteSet(S)
  BY KeyFacts
<1> DEFINE s == Ascending(S)
           n == Cardinality(S)
<1>2. /\ s \in Seq(S) /\ Len(s) = n /\ Range(s) = S
      /\ \A i, j \in 1..n : i < j => s[i] < s[j]
  BY <1>1, AscendingFacts
<1>3. n \in Nat
  BY <1>1, FS_CardinalityType
<1> HIDE DEF s, n
<1>4. s \in Seq(Keys) /\ DOMAIN s = 1..n /\ \A i \in 1..n : s[i] \in S
  BY <1>2
<1>5. \A i \in 1..n : s[i] \in Nat
  BY <1>1, <1>4
<1>6. NoDoubles(s)
  BY <1>2, <1>3, <1>4, <1>5 DEF NoDoubles
<1> QED
  BY <1>2, <1>4, <1>6 DEF s, n

LEMMA ListPageKept ==
    ASSUME ListInv, Askable(listing.what), ListPage
    PROVE  ListInv'
<1> DEFINE what == listing.what
           page == Page(what, listing.marker)
           ctx == LastAsMarker(what, IF what.kind = "search" THEN ScannedSearch(what, page)
                                     ELSE Scanned(what, listing.Context, page))
           added == Added(what, listing.DirList, page)
           list == listing.DirList \o Ascending(added)
           rest == {k \in Items(what, objects) : k > listing.marker}
           ignored == IF what.kind = "objects" THEN {what.folder} ELSE {}
<1>1. /\ listing.pc = "request" /\ UNCHANGED <<objects, stable, ever>>
      /\ listing' =
           [listing EXCEPT
              !.Context = ctx, !.DirList = list, !.marker = NextMarker(what, ctx),
              !.Error = IF NotFound(what, ctx, list) THEN "not found" ELSE "ok",
              !.pc = IF NotFound(what, ctx, list) \/ ~MorePages(what, ctx) \/ what.single
                       THEN "done"
                     ELSE IF what.paged THEN "next call" ELSE "request"]
  BY DEF ListPage
<1>2. /\ objects \in SUBSET Keys /\ stable \in SUBSET Keys /\ ever \in SUBSET Keys
      /\ listing \in ListRecords /\ stable \subseteq objects /\ objects \subseteq ever
      /\ listing.marker \in Nat /\ what.kind \in Kinds
      /\ listing.DirList \in Seq(Keys) /\ listing.pages \in Seq(Keys)
      /\ ListedSoFar(listing, stable, ever) /\ LoopAt(listing)
  BY <1>1, KeyFacts DEF ListInv, ListRecords, Askable
<1>3. /\ ctx \in Contexts /\ NextMarker(what, ctx) \in Keys \cup {0}
      /\ ctx.bIsTruncated = page.IsTruncated /\ MorePages(what, ctx) = page.IsTruncated
      /\ page.IsTruncated => NextMarker(what, ctx) = Largest(page.keys)
  BY <1>1, ContextFacts
<1>4. /\ page.keys \subseteq rest /\ rest \subseteq Keys /\ page.IsTruncated \in BOOLEAN
      /\ ~page.IsTruncated => page.keys = rest
      /\ page.IsTruncated => /\ \A k \in page.keys : k <= Largest(page.keys)
                             /\ \A k \in rest : k <= Largest(page.keys) => k \in page.keys
                             /\ Largest(page.keys) \in page.keys
  BY <1>2, PageFacts
<1>5. /\ added \subseteq page.keys /\ added \cap ignored = {}
      /\ page.keys \subseteq added \cup Range(listing.DirList) \cup ignored
  BY <1>2, AddedFacts
<1> HIDE DEF page, ctx, added
<1>6. /\ Ascending(added) \in Seq(Keys) /\ Range(Ascending(added)) = added
      /\ NoDoubles(Ascending(added))
  BY <1>4, <1>5, SortedKeys
<1>7. Range(listing.DirList) \subseteq Keys /\ Range(listing.pages) \subseteq Keys
  BY <1>2, RangeFacts
<1>8. \A k \in Seen(listing) : k \in Nat /\ k <= listing.marker
  BY <1>1, <1>2, <1>7, KeyFacts DEF ListedSoFar, Seen
<1>9. \A k \in added : k \in Nat /\ listing.marker < k /\ k \in Keys
  BY <1>2, <1>4, <1>5, KeyFacts
<1>10. added \cap Seen(listing) = {}
  BY <1>2, <1>8, <1>9
<1>11. /\ list \in Seq(Keys) /\ Range(list) = Range(listing.DirList) \cup added
       /\ NoDoubles(list) /\ Range(listing.pages) \cap Range(list) = {}
  <2>0. NoDoubles(listing.DirList) /\ Range(listing.DirList) \cap Range(Ascending(added)) = {}
    BY <1>2, <1>6, <1>10 DEF ListedSoFar, Seen
  <2>1. /\ list \in Seq(Keys) /\ Range(list) = Range(listing.DirList) \cup added
        /\ NoDoubles(list)
    BY <1>2, <1>6, <2>0, ConcatFacts
  <2> QED
    BY <1>2, <1>10, <2>1 DEF ListedSoFar, Seen
<1> HIDE DEF list
<1>12. /\ listing' \in ListRecords /\ listing'.what = what /\ listing'.DirList = list
       /\ listing'.pages = listing.pages /\ listing'.marker = NextMarker(what, ctx)
       /\ listing'.Context = ctx
       /\ listing'.pc = IF NotFound(what, ctx, list) \/ ~MorePages(what, ctx) \/ what.single
                          THEN "done" ELSE IF what.paged THEN "next call" ELSE "request"
       /\ listing'.Error = "not found" => NotFound(what, ctx, list)
  BY <1>1, <1>2, <1>3, <1>11 DEF ListRecords
<1>13. Seen(listing') = Seen(listing) \cup added
  BY <1>11, <1>12 DEF Seen
<1>14. rest \ ignored \subseteq Listed(what, ever) /\ Listed(what, stable) \subseteq Items(what, objects)
       /\ Listed(what, stable) \cap ignored = {}
  BY <1>2, ItemsFacts DEF Listed
<1>15. Seen(listing') \subseteq Listed(what, ever)
  BY <1>2, <1>4, <1>5, <1>13, <1>14 DEF ListedSoFar
<1>16. \A k \in Listed(what, stable) : k \in page.keys \/ k <= listing.marker => k \in Seen(listing')
  BY <1>1, <1>2, <1>5, <1>13, <1>14 DEF ListedSoFar, Seen
<1>17. \A k \in Listed(what, stable) : k \in Nat /\ (k \in rest \/ k <= listing.marker)
  <2> TAKE k \in Listed(what, stable)
  <2>1. k \in Items(what, objects) /\ k \in Keys
    BY <1>2, <1>14, ItemsFacts
  <2>2. k \in Nat
    BY <2>1, KeyFacts
  <2> QED
    BY <1>2, <2>1, <2>2
<1> HIDE DEF rest, ignored, what
<1>18. CASE ~page.IsTruncated
  <2>1. listing'.pc = "done"
    BY <1>3, <1>12, <1>18
  <2>2. Listed(what, stable) \subseteq Seen(listing')
    BY <1>4, <1>16, <1>17, <1>18
  <2>3. ListedSoFar(listing', stable', ever') /\ LoopAt(listing')
    BY <1>1, <1>2, <1>11, <1>12, <1>15, <2>1, <2>2 DEF ListedSoFar, LoopAt, NotFound, what
  <2> QED
    BY <1>1, <1>2, <1>12, <2>1, <2>3 DEF ListInv
<1>19. CASE page.IsTruncated
  <2>1. ~NotFound(what, ctx, list)
    BY <1>3, <1>19 DEF NotFound
  <2>2. /\ listing'.marker = Largest(page.keys) /\ listing'.marker \in Nat
        /\ listing.marker < listing'.marker
    BY <1>2, <1>3, <1>4, <1>12, <1>19, KeyFacts DEF rest
  <2>3. \A k \in Seen(listing') : k <= listing'.marker
    <3>1. \A k \in added : k <= listing'.marker
      BY <1>4, <1>5, <1>19, <2>2
    <3>2. \A k \in Seen(listing) : k <= listing'.marker
      BY <1>2, <1>8, <2>2
    <3> QED
      BY <1>13, <3>1, <3>2
  <2>4. \A k \in Listed(what, stable) : k <= listing'.marker => k \in Seen(listing')
    BY <1>4, <1>16, <1>17, <1>19, <2>2
  <2>5. listing'.pc = "done" => what.single
    BY <1>3, <1>12, <1>19, <2>1
  <2>6. listing'.pc = "request" => ~what.single /\ ~what.paged
    BY <1>12
  <2>7. listing'.pc = "next call" => what.paged
    BY <1>12
  <2>8. ListedSoFar(listing', stable', ever')
    BY <1>1, <1>2, <1>11, <1>12, <1>15, <2>3, <2>4, <2>5 DEF ListedSoFar, what
  <2>9. LoopAt(listing')
    BY <1>2, <1>12, <2>1, <2>6, <2>7 DEF LoopAt, Askable, what
  <2> QED
    BY <1>1, <1>2, <1>12, <2>8, <2>9 DEF ListInv
<1> QED
  BY <1>4, <1>18, <1>19

LEMMA ListBegins ==
    ASSUME ListInv, NEW what \in AskedFor, ListBegin(what), UNCHANGED objects
    PROVE  ListInv'
<1>1. << >> \in Seq(Keys) /\ Range(<< >>) = {} /\ NoDoubles(<< >>)
  BY DEF Range, NoDoubles
<1>2. NoContext \in Contexts /\ NoContext.sNextMarker = 0
  BY DEF NoContext, Contexts
<1>3. /\ listing' \in ListRecords /\ listing'.pc = "request" /\ listing'.what = what
      /\ listing'.Context = NoContext /\ listing'.marker = 0
      /\ listing'.DirList = << >> /\ listing'.pages = << >>
  BY <1>1, <1>2 DEF ListBegin, ListRecords
<1>4. objects \in SUBSET Keys /\ stable' = objects /\ ever' = objects
  BY DEF ListBegin, ListInv
<1>5. Seen(listing') = {}
  BY <1>1, <1>3 DEF Seen
<1>6. \A k \in Listed(what, objects) : ~(k <= 0)
  <2> TAKE k \in Listed(what, objects)
  <2>1. k \in Items(what, objects)
    BY DEF Listed
  <2>2. k \in Keys
    BY <1>4, <2>1, ItemsFacts
  <2>3. k \in Nat /\ k # 0
    BY <2>2, KeyFacts
  <2> QED
    BY ONLY <2>3
<1>7. ListedSoFar(listing', stable', ever') /\ LoopAt(listing')
  BY <1>1, <1>2, <1>3, <1>4, <1>5, <1>6 DEF ListedSoFar, LoopAt
<1> QED
  BY <1>3, <1>4, <1>7 DEF ListInv

LEMMA ListEnds ==
    ASSUME ListInv, ListFails \/ ListGarbage
    PROVE  ListInv'
<1>1. PICK error \in {"failed", "malformed"} :
        listing' = [listing EXCEPT !.pc = "done", !.Error = error]
  BY DEF ListFails, ListGarbage
<1>2. listing \in ListRecords /\ UNCHANGED <<objects, stable, ever>>
  BY DEF ListFails, ListGarbage, ListInv
<1>3. /\ listing' \in ListRecords /\ listing'.pc = "done" /\ listing'.what = listing.what
      /\ listing'.DirList = listing.DirList /\ listing'.pages = listing.pages
      /\ listing'.Error = error
  BY <1>1, <1>2 DEF ListRecords
<1>4. Seen(listing') = Seen(listing)
  BY <1>3 DEF Seen
<1>5. ListedSoFar(listing', stable', ever') /\ LoopAt(listing')
  BY <1>2, <1>3, <1>4 DEF ListInv, ListedSoFar, LoopAt
<1> QED
  BY <1>2, <1>3, <1>5 DEF ListInv

LEMMA ListNextCallKept ==
    ASSUME ListInv, ListNextCall
    PROVE  ListInv'
<1>1. /\ listing.pc = "next call" /\ UNCHANGED <<objects, stable, ever>>
      /\ listing' = [listing EXCEPT !.pc = "request", !.Context = NoContext,
                       !.pages = listing.pages \o listing.DirList, !.DirList = << >>]
  BY DEF ListNextCall
<1>2. /\ listing \in ListRecords /\ listing.pages \in Seq(Keys) /\ listing.DirList \in Seq(Keys)
      /\ NoDoubles(listing.pages) /\ NoDoubles(listing.DirList)
      /\ Range(listing.pages) \cap Range(listing.DirList) = {}
  BY DEF ListInv, ListRecords, ListedSoFar
<1> DEFINE all == listing.pages \o listing.DirList
<1>3. all \in Seq(Keys) /\ Range(all) = Seen(listing) /\ NoDoubles(all)
  BY <1>2, ConcatFacts DEF Seen
<1> HIDE DEF all
<1>4. << >> \in Seq(Keys) /\ Range(<< >>) = {} /\ NoDoubles(<< >>)
  BY DEF Range, NoDoubles
<1>5. NoContext \in Contexts /\ NoContext.sNextMarker = 0
  BY DEF NoContext, Contexts
<1>6. /\ listing' \in ListRecords /\ listing'.pc = "request" /\ listing'.what = listing.what
      /\ listing'.Context = NoContext /\ listing'.marker = listing.marker
      /\ listing'.DirList = << >> /\ listing'.pages = all
  BY <1>1, <1>2, <1>3, <1>4, <1>5 DEF ListRecords, all
<1>7. Seen(listing') = Seen(listing)
  BY <1>3, <1>4, <1>6 DEF Seen
<1>8. ListedSoFar(listing', stable', ever')
  BY <1>1, <1>3, <1>4, <1>6, <1>7 DEF ListInv, ListedSoFar
<1>9. LoopAt(listing')
  BY <1>1, <1>5, <1>6 DEF ListInv, LoopAt
<1> QED
  BY <1>1, <1>6, <1>8, <1>9 DEF ListInv

(* Objects that come and go, as far as the histories follow.               *)
LEMMA ObjectsChange ==
    ASSUME ListInv, UNCHANGED listing, objects' \in SUBSET Keys,
           stable' \in SUBSET stable, ever \in SUBSET ever', ever' \in SUBSET Keys,
           listing.pc \in {"request", "next call"} =>
             stable' \subseteq objects' /\ objects' \subseteq ever'
    PROVE  ListInv'
<1>1. stable \in SUBSET Keys
  BY DEF ListInv
<1>2. Listed(listing.what, stable') \subseteq Listed(listing.what, stable)
  BY <1>1, ItemsFacts
<1>3. Listed(listing.what, ever) \subseteq Listed(listing.what, ever')
  BY ItemsFacts
<1>4. ListedSoFar(listing', stable', ever')
  BY <1>2, <1>3 DEF ListInv, ListedSoFar
<1> QED
  BY <1>1, <1>4 DEF ListInv

LEMMA OtherClientKept ==
    ASSUME ListInv, NEW k \in Keys, OtherClient(k)
    PROVE  ListInv'
<1>1. /\ objects \in SUBSET Keys /\ stable \in SUBSET Keys /\ ever \in SUBSET Keys
      /\ listing.pc \in {"request", "next call"} =>
           stable \subseteq objects /\ objects \subseteq ever
      /\ UNCHANGED listing
  BY DEF ListInv, OtherClient
<1>2. CASE objects' = objects \ {k} /\ stable' = stable \ {k} /\ UNCHANGED ever
  BY <1>1, <1>2, ObjectsChange
<1>3. CASE objects' = objects \cup {k} /\ ever' = ever \cup {k} /\ UNCHANGED stable
  BY <1>1, <1>3, ObjectsChange
<1> QED
  BY <1>2, <1>3 DEF OtherClient
-----------------------------------------------------------------------------
(* Listings and deletes.                                                   *)

(* Only one of the two goes on: a delete waits for the listing it has      *)
(* called.                                                                 *)
Waiting ==
    /\ op = "none" => listing.pc = "idle" /\ delete.pc = "idle"
    /\ op = "delete" /\ listing.pc \in {"request", "next call"} => delete.pc = "listing"

(* What is below a folder is an item of its listing, or below one.         *)
LEMMA ListingCovers ==
    ASSUME NEW f \in Folders, NEW S \in SUBSET Keys, NEW k \in S \cap Below[f]
    PROVE  \E g \in Listed(FolderListing(f), S) : g = k \/ (g \in Folders /\ k \in Below[g])
<1> DEFINE w == FolderListing(f)
           direct == Direct(f)
           below == {g \in Folders \cap Below[f] : S \cap ({g} \cup Below[g]) # {}}
<1>1. w.kind = "objects" /\ w.folder = f /\ w.delimiter = TRUE
  BY DEF FolderListing
<1>2. /\ \A g \in Folders : Below[g] \in SUBSET Keys /\ \A j \in Below[g] : j > g
      /\ \A g \in Folders : \A h \in Folders \cap Below[g] : Below[h] \subseteq Below[g]
  BY ListingAssumption
<1>3. \A j \in Below[f] : j # f
  BY <1>2, KeyFacts
<1>4. \A g : /\ g \in S \cap direct /\ g \notin Folders /\ g # f => g \in Listed(w, S)
             /\ g \in below \cap direct /\ g # f => g \in Listed(w, S)
  BY <1>1 DEF Listed, Items
<1>5. \A g : g \in direct <=> g \in Below[f] /\ ~\E h \in Folders \cap Below[f] : g \in Below[h]
  BY DEF Direct
<1> HIDE DEF w, direct
<1>6. CASE k \in direct
  BY <1>3, <1>4, <1>6 DEF w
<1>7. CASE k \notin direct
  <2> DEFINE G == {g \in Folders \cap Below[f] : k \in Below[g]}
  <2>1. G # {} /\ G \in SUBSET Keys
    BY <1>5, <1>7, KeyFacts
  <2>2. PICK g \in G : \A h \in G : g <= h
    BY <2>1, KeyFacts, Smallest
  <2>3. ~\E h \in Folders \cap Below[f] : g \in Below[h]
    <3> SUFFICES ASSUME NEW h \in Folders \cap Below[f], g \in Below[h] PROVE FALSE
      OBVIOUS
    <3>1. k \in Below[h]
      BY <1>2, <2>2
    <3>2. g <= h /\ g > h
      BY <1>2, <2>2, <3>1
    <3>3. g \in Nat /\ h \in Nat
      BY <2>1, <2>2, KeyFacts
    <3> QED
      BY <3>2, <3>3
  <2>4. g \in direct /\ g \in below /\ g # f
    BY <1>3, <1>5, <2>2, <2>3
  <2> QED
    BY <1>4, <2>2, <2>4 DEF w
<1> QED
  BY <1>6, <1>7

(* The keys of a request are the last ones of the list, from the end.      *)
LEMMA BatchFacts ==
    ASSUME NEW list \in Seq(Keys), NEW b, b = Batch(list)
    PROVE  /\ b \in Seq(Keys) /\ Range(b) \subseteq Range(list)
           /\ \A i, j \in 1..Len(b) : i < j => b[j] < b[i]
           /\ \A k \in Range(list), l \in Range(b) : k > l => k \in Range(b)
           /\ Len(list) <= MaxS3DeleteObjects => Range(b) = Range(list)
           /\ Rest(list) \in Seq(Keys) /\ Range(Rest(list)) = Range(list) \ Range(b)
           /\ Len(list) <= MaxS3DeleteObjects + 1 => Len(Rest(list)) <= MaxS3DeleteObjects
<1> DEFINE S == Range(list)
           keys == Descending(S)
           n == Cardinality(S)
           m == IF n < MaxS3DeleteObjects THEN n ELSE MaxS3DeleteObjects
<1>1. S \in SUBSET Keys
  BY RangeFacts
<1>2. S \in SUBSET Nat /\ IsFiniteSet(S) /\ n \in Nat
  BY <1>1, KeyFacts, FS_CardinalityType
<1>3. /\ keys \in Seq(S) /\ Len(keys) = n /\ Range(keys) = S
      /\ \A i, j \in 1..n : i < j => keys[j] < keys[i]
  BY <1>2, DescendingFacts
<1>4. n <= Len(list)
  <2>1. \A k \in S : \E i \in 1..Len(list) : list[i] = k
    BY RangeFacts
  <2>2. list \in [1..Len(list) -> S] /\ Len(list) \in Nat
    BY RangeFacts
  <2>3. list \in Surjection(1..Len(list), S)
    BY <2>1, <2>2 DEF Surjection
  <2> QED
    BY <2>2, <2>3, FS_SurjCardinalityBound DEF ExistsSurjection
<1>5. b = SubSeq(keys, 1, m)
  BY <1>3 DEF Batch
<1>6. m \in Nat /\ m <= n /\ m <= MaxS3DeleteObjects /\ MaxS3DeleteObjects \in Nat \ {0}
  BY <1>2, DeleteAssumption
<1>7. n <= MaxS3DeleteObjects => m = n
  BY <1>2, <1>6
<1>8. n > MaxS3DeleteObjects => m = MaxS3DeleteObjects
  BY <1>2, <1>6
<1> HIDE DEF m, n, S, keys
<1>9. b \in Seq(S) /\ Len(b) = m /\ \A i \in 1..m : b[i] = keys[i]
  BY <1>2, <1>3, <1>5, <1>6
<1>10. b \in Seq(Keys) /\ Range(b) \subseteq S
  BY <1>1, <1>9, RangeFacts
<1>11. \A i, j \in 1..Len(b) : i < j => b[j] < b[i]
  BY <1>2, <1>3, <1>6, <1>9
<1>12. \A k \in S : \E i \in 1..n : keys[i] = k
  BY <1>3, RangeFacts
<1>13. \A i \in 1..m : keys[i] \in Range(b)
  BY <1>9, <1>10, RangeFacts
<1>14. \A l \in Range(b) : \E j \in 1..m : keys[j] = l
  BY <1>9, <1>10, RangeFacts
<1>15. ASSUME NEW k \in S, NEW l \in Range(b), k > l
       PROVE  k \in Range(b)
  <2>1. PICK i \in 1..n : keys[i] = k
    BY <1>12
  <2>2. PICK j \in 1..m : keys[j] = l
    BY <1>14
  <2>3. k \in Nat /\ l \in Nat
    BY <1>2, <1>10
  <2>6. j \in 1..n
    BY <1>2, <1>6
  <2>4. ~(j < i)
    BY <1>3, <1>15, <2>1, <2>2, <2>3, <2>6
  <2>5. i \in 1..m
    BY <1>2, <1>6, <2>4
  <2> QED
    BY <1>13, <2>1, <2>5
<1>16. Len(list) <= MaxS3DeleteObjects => Range(b) = S
  <2> HAVE Len(list) <= MaxS3DeleteObjects
  <2>1. Len(list) \in Nat
    OBVIOUS
  <2>2. m = n
    BY <1>2, <1>4, <1>6, <1>7, <2>1
  <2> QED
    BY <1>10, <1>12, <1>13, <2>2
<1> DEFINE R == S \ Range(b)
<1>17. /\ Rest(list) \in Seq(Keys) /\ Range(Rest(list)) = R /\ Len(Rest(list)) = Cardinality(R)
  <2>1. Rest(list) = Ascending(R)
    BY DEF Rest, S
  <2> QED
    BY <1>1, <2>1, SortedKeys
<1>18. ASSUME Len(list) <= MaxS3DeleteObjects + 1
       PROVE  Cardinality(R) <= MaxS3DeleteObjects
  <2>1. R \subseteq {keys[MaxS3DeleteObjects + 1]}
    <3> SUFFICES ASSUME NEW k \in R PROVE k = keys[MaxS3DeleteObjects + 1]
      OBVIOUS
    <3>1. PICK i \in 1..n : keys[i] = k
      BY <1>12
    <3>2. i \notin 1..m
      BY <1>13, <3>1
    <3>3. n <= MaxS3DeleteObjects + 1
      BY <1>2, <1>4, <1>6, <1>18
    <3>4. i = MaxS3DeleteObjects + 1
      BY <1>2, <1>6, <1>7, <1>8, <3>2, <3>3
    <3> QED
      BY <3>1, <3>4
  <2>2. Cardinality(R) <= 1
    <3> DEFINE x == keys[MaxS3DeleteObjects + 1]
    <3>1. IsFiniteSet({x}) /\ Cardinality({x}) = 1
      BY FS_Singleton
    <3>2. R \in SUBSET {x}
      BY <2>1
    <3> HIDE DEF x, R
    <3>3. Cardinality(R) <= Cardinality({x})
      BY <3>1, <3>2, FS_Subset
    <3> QED
      BY <3>1, <3>3
  <2>3. R \in SUBSET Keys
    BY <1>1
  <2>4. Cardinality(R) \in Nat
    BY <2>3, KeyFacts, FS_CardinalityType
  <2> QED
    BY <1>6, <2>2, <2>4
<1> QED
  BY <1>10, <1>11, <1>15, <1>16, <1>17, <1>18 DEF S

Frames == [todo : Seq(Keys), listed : BOOLEAN]

DeleteRecords ==
    [pc : {"idle", "paths", "listing", "send", "last send", "done"}, frames : Seq(Frames),
     S3DeletePathList : Seq(Keys), Error : {"ok", "failed", "malformed", "refused", "invalid"}]

(* What a frame has still to add to S3DeletePathList: its paths and, but   *)
(* for the first path of a frame that has listed it, what is below them.   *)
Adds(frame, k) ==
    \E i \in 1..Len(frame.todo) :
        \/ k = frame.todo[i]
        \/ ~(i = 1 /\ frame.listed) /\ frame.todo[i] \in Folders /\ k \in Below[frame.todo[i]]

(* It is in the list, or a frame from the n-th on will add it.             *)
Coming(d, n, k) ==
    k \in Range(d.S3DeletePathList) \/ \E i \in n..Len(d.frames) : Adds(d.frames[i], k)

(* Everything in the set D of objects to delete will be sent; what is      *)
(* below a folder that has been listed will come before the folder, and    *)
(* what is below a folder in the list is in the list.                      *)
AllComing(d, D) ==
    /\ \A k \in D : Coming(d, 1, k)
    /\ \A n \in 1..Len(d.frames) : d.frames[n].listed =>
         /\ d.frames[n].todo # << >> /\ d.frames[n].todo[1] \in Folders
         /\ \A k \in D \cap Below[d.frames[n].todo[1]] : Coming(d, n + 1, k)
    /\ \A f \in Folders \cap Range(d.S3DeletePathList) :
         D \cap Below[f] \subseteq Range(d.S3DeletePathList)

(* How much there is in the list, and where the call is.                   *)
DeletingAt(d) ==
    /\ Len(d.S3DeletePathList) <= MaxS3DeleteObjects + (IF d.pc = "send" THEN 1 ELSE 0)
    /\ d.pc = "last send" <=> d.frames = << >>
    /\ d.Error = "ok"

(* The listing of the folder that the innermost call has come to.          *)
ListingFor(d, l, D, st) ==
    /\ l.pc # "idle" /\ D \subseteq st
    /\ LET top == d.frames[Len(d.frames)]
       IN  /\ top.todo # << >> /\ ~top.listed /\ top.todo[1] \in Folders
           /\ l.what = FolderListing(top.todo[1])

Underway(d) == d.pc \in {"paths", "listing", "send", "last send"}

DeleteInv ==
    /\ delete \in DeleteRecords /\ doomed \in SUBSET Keys /\ doomed \subseteq objects
    /\ sent \in Seq(Keys)
    /\ Underway(delete) =>
         /\ AllComing(delete, doomed) /\ DeletingAt(delete)
         /\ \A f \in Folders \cap Range(sent) : doomed \cap Below[f] = {}
    /\ delete.pc = "listing" => ListingFor(delete, listing, doomed, stable)
    /\ delete.pc = "idle" => sent = << >> /\ delete.Error = "ok"
    /\ FolderAfterContents /\ DeleteIsReal

OpInv == ListInv /\ Waiting /\ DeleteInv

(* Less to delete, and another state of the call with the same frames and  *)
(* the same list.                                                          *)
LEMMA StillComing ==
    ASSUME NEW d, NEW e, e.frames = d.frames, e.S3DeletePathList = d.S3DeletePathList,
           NEW D, NEW E \in SUBSET D, AllComing(d, D)
    PROVE  AllComing(e, E)
BY DEF AllComing, Coming

LEMMA SameDelete ==
    ASSUME DeleteInv, UNCHANGED <<delete, sent>>, doomed' \in SUBSET doomed,
           doomed' \subseteq objects',
           delete.pc = "listing" => ListingFor(delete, listing', doomed', stable')
    PROVE  DeleteInv'
<1>1. Underway(delete) => AllComing(delete', doomed')
  BY StillComing DEF DeleteInv
<1>2. FolderAfterContents' /\ DeleteIsReal'
  BY DEF DeleteInv, FolderAfterContents, DeleteIsReal
<1>3. doomed' \in SUBSET Keys
  BY DEF DeleteInv
<1>4. Underway(delete) => \A f \in Folders \cap Range(sent) : doomed' \cap Below[f] = {}
  BY DEF DeleteInv
<1> QED
  BY <1>1, <1>2, <1>3, <1>4 DEF DeleteInv, Underway, DeletingAt

(* The call ends.                                                          *)
LEMMA ThrowFields ==
    ASSUME NEW error \in {"ok", "failed", "malformed", "refused", "invalid"},
           delete \in DeleteRecords, Throw(error)
    PROVE  delete' \in DeleteRecords /\ delete'.pc = "done" /\ delete'.Error = error
BY DEF Throw, DeleteRecords

LEMMA DeleteEnds ==
    ASSUME DeleteInv, NEW error \in {"ok", "failed", "malformed", "refused", "invalid"},
           Throw(error), UNCHANGED sent, doomed' \in SUBSET doomed, doomed' \subseteq objects',
           error = "ok" => doomed' = {}
    PROVE  DeleteInv'
<1>1. delete' \in DeleteRecords /\ delete'.pc = "done" /\ delete'.Error = error
  BY ThrowFields DEF DeleteInv
<1>2. FolderAfterContents' /\ DeleteIsReal'
  BY <1>1 DEF DeleteInv, FolderAfterContents, DeleteIsReal
<1> QED
  BY <1>1, <1>2 DEF DeleteInv, Underway

LEMMA DeleteStart ==
    ASSUME DeleteInit, objects \in SUBSET Keys
    PROVE  DeleteInv
<1>1. << >> \in Seq(Frames) /\ << >> \in Seq(Keys)
  OBVIOUS
<1>2. /\ delete \in DeleteRecords /\ delete.pc = "idle" /\ delete.Error = "ok"
      /\ doomed = {} /\ sent = << >>
  BY <1>1 DEF DeleteInit, DeleteRecords
<1>3. FolderAfterContents /\ DeleteIsReal
  BY <1>2 DEF FolderAfterContents, DeleteIsReal
<1> QED
  BY <1>1, <1>2, <1>3 DEF DeleteInv, Underway

LEMMA DeleteBegins ==
    ASSUME DeleteInv, objects \in SUBSET Keys, delete.pc = "idle",
           NEW paths \in PathLists, DeleteBegin(paths)
    PROVE  DeleteInv'
<1>1. paths \in Seq(Keys) /\ paths # << >> /\ MaxS3DeleteObjects \in Nat
  BY DeleteAssumption
<1> DEFINE fr == Frame(paths)
<1>2. /\ fr \in Frames /\ fr.todo = paths /\ fr.listed = FALSE
  BY <1>1 DEF Frame, Frames
<1> HIDE DEF fr
<1>3. <<fr>> \in Seq(Frames) /\ Len(<<fr>>) = 1 /\ <<fr>>[1] = fr /\ <<fr>> # << >>
  BY <1>2
<1>4. << >> \in Seq(Keys) /\ Len(<< >>) = 0 /\ Range(<< >>) = {}
  BY DEF Range
<1>5. /\ delete' \in DeleteRecords /\ delete'.pc = "paths" /\ delete'.frames = <<fr>>
      /\ delete'.S3DeletePathList = << >> /\ delete'.Error = "ok"
  BY <1>3, <1>4 DEF DeleteBegin, DeleteRecords, fr
<1>6. /\ doomed' = objects \cap Under(paths) /\ UNCHANGED <<sent, objects>> /\ sent = << >>
      /\ doomed' \in SUBSET Keys
  BY DEF DeleteBegin, listVars, DeleteInv
<1>7. \A k \in doomed' : Adds(fr, k)
  <2> TAKE k \in doomed'
  <2>1. PICK p \in Range(paths) : k = p \/ (p \in Folders /\ k \in Below[p])
    BY <1>6 DEF Under
  <2>2. PICK i \in 1..Len(paths) : paths[i] = p
    BY <1>1, RangeFacts
  <2> QED
    BY <1>2, <2>1, <2>2 DEF Adds
<1>8. AllComing(delete', doomed')
  BY <1>2, <1>3, <1>4, <1>5, <1>7 DEF AllComing, Coming
<1>9. DeletingAt(delete')
  BY <1>1, <1>3, <1>4, <1>5 DEF DeletingAt
<1>10. /\ FolderAfterContents' /\ DeleteIsReal' /\ sent' \in Seq(Keys)
       /\ \A f \in Folders \cap Range(sent') : doomed' \cap Below[f] = {}
  BY <1>4, <1>5, <1>6 DEF FolderAfterContents, DeleteIsReal
<1> QED
  BY <1>5, <1>6, <1>8, <1>9, <1>10 DEF DeleteInv

LEMMA DeleteObjectKept ==
    ASSUME DeleteInv, objects \in SUBSET Keys, NEW k \in Keys, DeleteObject(k)
    PROVE  DeleteInv'
<1>0. k \notin Folders /\ sent' = <<k>>
  BY Zenon DEF DeleteObject
<1>1. k \notin Folders /\ sent' = <<k>> /\ sent' \in Seq(Keys)
  BY <1>0
<1>2. /\ delete' \in DeleteRecords /\ delete'.pc = "done"
      /\ delete'.Error = "ok" => doomed' = {}
      /\ doomed' \in SUBSET Keys /\ doomed' \subseteq objects'
  BY ThrowFields DEF DeleteObject, DeleteInv
<1>3. FolderAfterContents' /\ DeleteIsReal'
  BY <1>1, <1>2 DEF FolderAfterContents, DeleteIsReal
<1> QED
  BY <1>1, <1>2, <1>3 DEF DeleteInv, Underway

(* The frames as the steps of the loop see them.                           *)
LEMMA FrameFacts ==
    ASSUME DeleteInv, delete.frames # << >>
    PROVE  /\ delete.frames \in Seq(Frames) /\ Len(delete.frames) \in Nat \ {0}
           /\ Top = delete.frames[Len(delete.frames)] /\ Top \in Frames
           /\ Top.todo \in Seq(Keys) /\ Top.listed \in BOOLEAN
           /\ Top.todo # << >> => /\ Path = Top.todo[1] /\ Path \in Keys
                                  /\ Len(Top.todo) \in Nat \ {0}
<1>0. delete.frames \in Seq(Frames)
  BY DEF DeleteInv, DeleteRecords
<1>1. delete.frames \in Seq(Frames) /\ Len(delete.frames) \in Nat \ {0}
  BY <1>0
<1>2. Top = delete.frames[Len(delete.frames)] /\ Top \in Frames
  BY <1>1 DEF Top
<1>3. Top.todo \in Seq(Keys) /\ Top.listed \in BOOLEAN
  BY <1>2 DEF Frames
<1> QED
  BY <1>1, <1>2, <1>3 DEF Path

LEMMA DeleteListKept ==
    ASSUME ListInv, DeleteInv, DeleteList
    PROVE  ListInv' /\ DeleteInv'
<1>1. /\ delete.pc = "paths" /\ delete.frames # << >> /\ Top.todo # << >> /\ Path \in Folders
      /\ ~Top.listed /\ delete' = [delete EXCEPT !.pc = "listing"]
      /\ ListBegin(FolderListing(Path)) /\ UNCHANGED <<objects, doomed, sent>>
  BY DEF DeleteList, InLoop
<1>2. ListInv'
  BY <1>1, ListBegins DEF AskedFor
<1>3. /\ delete' \in DeleteRecords /\ delete'.pc = "listing" /\ delete'.frames = delete.frames
      /\ delete'.S3DeletePathList = delete.S3DeletePathList /\ delete'.Error = delete.Error
  BY <1>1 DEF DeleteInv, DeleteRecords
<1>4. /\ listing'.pc = "request" /\ listing'.what = FolderListing(Path) /\ stable' = objects
  BY <1>1 DEF ListBegin
<1>5. ListingFor(delete', listing', doomed', stable')
  BY <1>1, <1>3, <1>4, FrameFacts DEF ListingFor, DeleteInv
<1>6. AllComing(delete', doomed')
  BY <1>1, <1>3, StillComing DEF DeleteInv, Underway
<1>7. DeletingAt(delete')
  BY <1>1, <1>3 DEF DeleteInv, DeletingAt, Underway
<1>8. FolderAfterContents' /\ DeleteIsReal'
  BY <1>1, <1>3 DEF DeleteInv, FolderAfterContents, DeleteIsReal
<1> QED
  BY <1>1, <1>2, <1>3, <1>5, <1>6, <1>7, <1>8 DEF DeleteInv, Underway

(* The steps of the loop leave the histories as they are.                  *)
LEMMA LoopKept ==
    ASSUME DeleteInv, Underway(delete), UNCHANGED <<objects, doomed, sent>>,
           delete' \in DeleteRecords, Underway(delete'), delete'.pc # "listing",
           AllComing(delete', doomed), DeletingAt(delete')
    PROVE  DeleteInv'
<1>1. FolderAfterContents'
  BY DEF DeleteInv, FolderAfterContents
<1>2. delete'.pc # "done" /\ delete'.pc # "idle"
  BY DEF Underway
<1>3. DeleteIsReal'
  BY <1>2 DEF DeleteIsReal
<1>4. \A f \in Folders \cap Range(sent') : doomed' \cap Below[f] = {}
  BY DEF DeleteInv
<1> QED
  BY <1>1, <1>2, <1>3, <1>4 DEF DeleteInv

(* A folder that has been listed: what is below it and still to be deleted *)
(* is in the list of the listing or below a folder of it.                  *)
LEMMA ListedIsComing ==
    ASSUME ListInv, DeleteInv, delete.pc = "listing", listing.pc = "done",
           listing.Error \in {"ok", "not found"}, NEW k \in doomed \cap Below[Path]
    PROVE  /\ listing.Error = "ok" /\ Path \in Folders
           /\ \E i \in 1..Len(listing.DirList) :
                \/ k = listing.DirList[i]
                \/ listing.DirList[i] \in Folders /\ k \in Below[listing.DirList[i]]
<1>1. delete.frames # << >>
  BY DEF DeleteInv, Underway, DeletingAt
<1>2. /\ Path \in Folders /\ listing.what = FolderListing(Path) /\ k \in stable
      /\ stable \in SUBSET Keys
  BY <1>1, FrameFacts DEF DeleteInv, ListingFor, ListInv
<1>3. ~listing.what.single /\ ~listing.what.paged
  <2>1. FolderListing(Path).single = FALSE /\ FolderListing(Path).paged = FALSE
    BY DEF FolderListing
  <2> QED
    BY ONLY <1>2, <2>1
<1>4. /\ Listed(listing.what, stable) \subseteq Seen(listing) /\ listing.pages = << >>
      /\ listing.Error = "not found" => listing.DirList = << >>
      /\ listing.DirList \in Seq(Keys)
  BY <1>3 DEF ListInv, ListedSoFar, LoopAt, ListRecords
<1>5. Seen(listing) = Range(listing.DirList)
  BY <1>4, EmptyRange DEF Seen
<1>6. PICK g \in Listed(listing.what, stable) : g = k \/ (g \in Folders /\ k \in Below[g])
  BY <1>2, ListingCovers
<1>7. g \in Range(listing.DirList)
  BY <1>4, <1>5
<1>8. listing.DirList # << >> /\ \E i \in 1..Len(listing.DirList) : listing.DirList[i] = g
  BY <1>4, <1>7, InRange
<1>9. listing.Error = "ok"
  BY <1>4, <1>8
<1> QED
  BY <1>2, <1>6, <1>8, <1>9

LEMMA ReplaceFacts ==
    ASSUME NEW S, NEW s \in Seq(S), NEW n \in 1..Len(s), NEW x \in S
    PROVE  /\ [s EXCEPT ![n] = x] \in Seq(S) /\ Len([s EXCEPT ![n] = x]) = Len(s)
           /\ [s EXCEPT ![n] = x][n] = x
           /\ \A i \in 1..Len(s) : i # n => [s EXCEPT ![n] = x][i] = s[i]
OBVIOUS

LEMMA DeleteListedKept ==
    ASSUME ListInv, DeleteInv, DeleteListed
    PROVE  DeleteInv'
<1> DEFINE n == Len(delete.frames)
           fs == [delete.frames EXCEPT ![n].listed = TRUE]
           fr == Frame(listing.DirList)
<1>1. /\ delete.pc = "listing" /\ listing.pc = "done" /\ UNCHANGED <<objects, doomed, sent>>
      /\ delete \in DeleteRecords /\ Underway(delete) /\ doomed \subseteq objects
  BY DEF DeleteListed, DeleteInv, Underway, listVars
<1>2. CASE listing.Error \notin {"ok", "not found"}
  <2>1. Throw(listing.Error) /\ listing.Error \in {"failed", "malformed"}
    BY <1>2 DEF DeleteListed, ListInv, ListRecords
  <2> QED
    BY <1>1, <2>1, DeleteEnds
<1>3. CASE listing.Error \in {"ok", "not found"}
  <2>1. delete.frames # << >> /\ AllComing(delete, doomed) /\ DeletingAt(delete)
    BY <1>1 DEF DeleteInv, DeletingAt
  <2>2. /\ delete.frames \in Seq(Frames) /\ n \in Nat \ {0} /\ delete.frames[n] \in Frames
        /\ Top = delete.frames[n] /\ delete.frames[n].todo # << >>
        /\ Path = delete.frames[n].todo[1] /\ Path \in Folders /\ ~delete.frames[n].listed
    BY <1>1, <2>1, FrameFacts DEF DeleteInv, ListingFor
  <2>3. /\ fs \in Seq(Frames) /\ Len(fs) = n /\ \A i \in 1..n : i # n => fs[i] = delete.frames[i]
        /\ fs[n].todo = delete.frames[n].todo /\ fs[n].listed = TRUE
    <3> DEFINE x == [delete.frames[n] EXCEPT !.listed = TRUE]
    <3>1. x \in Frames /\ x.todo = delete.frames[n].todo /\ x.listed = TRUE
      BY <2>2 DEF Frames
    <3>2. fs = [delete.frames EXCEPT ![n] = x]
      BY <2>2
    <3>3. n \in 1..Len(delete.frames)
      BY <2>2
    <3> HIDE DEF x, fs
    <3> QED
      BY <2>2, <3>1, <3>2, <3>3, ReplaceFacts
  <2>4. fr \in Frames /\ fr.todo = listing.DirList /\ fr.listed = FALSE
    BY DEF Frame, Frames, ListInv, ListRecords
  <2>5. delete' = [delete EXCEPT !.pc = "paths",
                     !.frames = IF listing.Error = "ok" THEN Append(fs, fr) ELSE fs]
    BY <1>3 DEF DeleteListed, AfterListing
  <2> HIDE DEF n, fs, fr
  <2>6. /\ Append(fs, fr) \in Seq(Frames) /\ Len(Append(fs, fr)) = n + 1
        /\ Append(fs, fr)[n + 1] = fr /\ \A i \in 1..n : Append(fs, fr)[i] = fs[i]
    BY <2>2, <2>3, <2>4
  <2> DEFINE gs == IF listing.Error = "ok" THEN Append(fs, fr) ELSE fs
  <2>7. /\ gs \in Seq(Frames) /\ Len(gs) \in Nat /\ Len(gs) >= n
        /\ \A i \in 1..n : gs[i] = fs[i]
        /\ listing.Error = "ok" => Len(gs) = n + 1 /\ gs[n + 1] = fr
        /\ listing.Error # "ok" => Len(gs) = n
    BY <2>2, <2>3, <2>6
  <2> HIDE DEF gs
  <2>8. /\ delete' \in DeleteRecords /\ delete'.pc = "paths" /\ delete'.frames = gs
        /\ delete'.S3DeletePathList = delete.S3DeletePathList /\ delete'.Error = delete.Error
    BY <1>1, <2>5, <2>7 DEF DeleteRecords, gs
  <2>9. ASSUME NEW k \in doomed \cap Below[Path] PROVE Coming(delete', n + 1, k)
    <3>1. listing.Error = "ok" /\ Adds(fr, k)
      BY <1>1, <1>3, <2>4, ListedIsComing DEF Adds
    <3>2. n + 1 \in (n + 1)..Len(gs) /\ gs[n + 1] = fr
      BY <2>2, <2>7, <3>1
    <3> QED
      BY <2>8, <3>1, <3>2 DEF Coming
  <2>10. ASSUME NEW m \in 1..n, NEW k \in doomed, Coming(delete, m, k)
         PROVE  Coming(delete', m, k)
    <3>1. CASE k \in Range(delete.S3DeletePathList)
      BY <2>8, <3>1 DEF Coming
    <3>2. ASSUME NEW i \in m..n, Adds(delete.frames[i], k)
          PROVE  Coming(delete', m, k)
      <4>1. i \in 1..n /\ i \in m..Len(gs)
        BY <2>2, <2>7
      <4>2. CASE i # n
        <5>1. gs[i] = delete.frames[i]
          BY <2>3, <2>7, <4>1, <4>2
        <5> QED
          BY <2>8, <3>2, <4>1, <5>1 DEF Coming
      <4>3. CASE i = n /\ k \in Below[Path]
        <5>1. Coming(delete', n + 1, k)
          BY <2>9, <4>3
        <5>2. \A j \in (n + 1)..Len(gs) : j \in m..Len(gs)
          BY <2>2, <2>7
        <5> QED
          BY <2>8, <5>1, <5>2 DEF Coming
      <4>4. CASE i = n /\ k \notin Below[Path]
        <5>1. gs[n].todo = delete.frames[n].todo
          BY <2>2, <2>3, <2>7
        <5>2. Adds(gs[n], k)
          BY <2>2, <3>2, <4>4, <5>1 DEF Adds
        <5> QED
          BY <2>8, <4>1, <4>4, <5>2 DEF Coming
      <4> QED
        BY <4>2, <4>3, <4>4
    <3> QED
      BY <2>10, <3>1, <3>2 DEF Coming, n
  <2>11. \A k \in doomed : Coming(delete', 1, k)
    BY <2>1, <2>2, <2>10 DEF AllComing
  <2>12. ASSUME NEW m \in 1..Len(gs), gs[m].listed
         PROVE  /\ gs[m].todo # << >> /\ gs[m].todo[1] \in Folders
                /\ \A k \in doomed \cap Below[gs[m].todo[1]] : Coming(delete', m + 1, k)
    <3>1. m \in 1..n
      BY <2>2, <2>4, <2>7, <2>12
    <3>2. CASE m = n
      BY <2>2, <2>3, <2>7, <2>9, <3>1, <3>2
    <3>3. CASE m # n
      <4>1. gs[m] = delete.frames[m] /\ m + 1 \in 1..n
        BY <2>2, <2>3, <2>7, <3>1, <3>3
      <4>2. /\ gs[m].todo # << >> /\ gs[m].todo[1] \in Folders
            /\ \A k \in doomed \cap Below[gs[m].todo[1]] : Coming(delete, m + 1, k)
        BY <2>1, <2>12, <3>1, <4>1 DEF AllComing, n
      <4> QED
        BY <2>10, <4>1, <4>2
    <3> QED
      BY <3>2, <3>3
  <2>13. AllComing(delete', doomed)
    BY <2>1, <2>8, <2>11, <2>12 DEF AllComing
  <2>14. DeletingAt(delete')
    <3>1. gs # << >>
      BY <2>2, <2>7
    <3> QED
      BY <1>1, <2>1, <2>8, <3>1 DEF DeletingAt
  <2> QED
    BY <1>1, <2>8, <2>13, <2>14, LoopKept DEF Underway
<1> QED
  BY <1>2, <1>3

LEMMA DeleteAddKept ==
    ASSUME DeleteInv, DeleteAdd
    PROVE  DeleteInv'
<1> DEFINE n == Len(delete.frames)
           old == delete.S3DeletePathList
           list == Append(old, Path)
           fr == Frame(Tail(Top.todo))
           gs == [delete.frames EXCEPT ![n] = fr]
           path == Path
<1>1. /\ delete.pc = "paths" /\ delete.frames # << >> /\ Top.todo # << >>
      /\ Path \in Folders => Top.listed
      /\ UNCHANGED <<objects, doomed, sent>> /\ delete \in DeleteRecords /\ Underway(delete)
      /\ delete' = [delete EXCEPT !.frames[n] = fr, !.S3DeletePathList = list,
                      !.pc = IF Len(list) > MaxS3DeleteObjects THEN "send" ELSE "paths"]
  BY DEF DeleteAdd, InLoop, DeleteInv, Underway, listVars
<1>2. AllComing(delete, doomed) /\ DeletingAt(delete)
  BY <1>1 DEF DeleteInv
<1>3. /\ delete.frames \in Seq(Frames) /\ n \in Nat \ {0} /\ Top = delete.frames[n]
      /\ Top.todo \in Seq(Keys) /\ Top \in Frames
      /\ path = Top.todo[1] /\ path \in Keys /\ Len(Top.todo) \in Nat \ {0}
  BY <1>1, FrameFacts
<1>4. /\ fr \in Frames /\ fr.listed = FALSE
      /\ \A i \in 2..Len(Top.todo) : i - 1 \in 1..Len(fr.todo) /\ fr.todo[i - 1] = Top.todo[i]
  <2>1. /\ Tail(Top.todo) \in Seq(Keys) /\ Len(Tail(Top.todo)) = Len(Top.todo) - 1
        /\ \A i \in 1..(Len(Top.todo) - 1) : Tail(Top.todo)[i] = Top.todo[i + 1]
    BY <1>1, <1>3
  <2>2. fr \in Frames /\ fr.listed = FALSE /\ fr.todo = Tail(Top.todo)
    BY <2>1 DEF Frame, Frames
  <2>3. \A i \in 2..Len(Top.todo) : i - 1 \in 1..(Len(Top.todo) - 1) /\ (i - 1) + 1 = i
    BY <1>3
  <2> HIDE DEF fr
  <2> QED
    BY <2>1, <2>2, <2>3
<1>5. old \in Seq(Keys) /\ Len(old) \in Nat
  <2>1. old \in Seq(Keys)
    BY DEF DeleteInv, DeleteRecords
  <2> QED
    BY ONLY <2>1
<1>6. list \in Seq(Keys) /\ Len(list) = Len(old) + 1 /\ Range(list) = Range(old) \cup {path}
  <2>1. /\ <<path>> \in Seq(Keys) /\ list = old \o <<path>>
    BY <1>3, <1>5
  <2>2. Range(<<path>>) = {path}
    BY DEF Range
  <2>3. Len(list) = Len(old) + 1
    BY <1>5
  <2> HIDE DEF list, old
  <2>4. list \in Seq(Keys) /\ Range(list) = Range(old) \cup Range(<<path>>)
    BY <1>5, <2>1, ConcatFacts, ZenonT(40)
  <2> QED
    BY <2>2, <2>3, <2>4
<1> HIDE DEF fr, list, path
<1>7. /\ gs \in Seq(Frames) /\ Len(gs) = n /\ gs[n] = fr
      /\ \A i \in 1..n : i # n => gs[i] = delete.frames[i]
  BY <1>3, <1>4, ReplaceFacts
<1> HIDE DEF gs
<1>8. /\ delete' \in DeleteRecords /\ delete'.frames = gs /\ delete'.S3DeletePathList = list
      /\ delete'.pc = IF Len(list) > MaxS3DeleteObjects THEN "send" ELSE "paths"
      /\ delete'.Error = delete.Error
  <2>1. delete' = [delete EXCEPT !.frames = gs, !.S3DeletePathList = list,
                      !.pc = IF Len(list) > MaxS3DeleteObjects THEN "send" ELSE "paths"]
    BY <1>1 DEF gs, DeleteRecords
  <2> QED
    BY <1>1, <1>6, <1>7, <2>1 DEF DeleteRecords
<1> HIDE DEF n, old
<1>9. ASSUME NEW m \in 1..(n + 1), NEW k, Coming(delete, m, k)
      PROVE  Coming(delete', m, k)
  <2>1. CASE k \in Range(old)
    BY <1>6, <1>8, <2>1 DEF Coming
  <2>2. ASSUME NEW i \in m..n, Adds(delete.frames[i], k)
        PROVE  Coming(delete', m, k)
    <3>1. i \in 1..n
      BY <1>3
    <3>2. CASE i # n
      BY <1>7, <1>8, <2>2, <3>1, <3>2 DEF Coming
    <3>3. CASE i = n
      <4>1. PICK j \in 1..Len(Top.todo) :
              \/ k = Top.todo[j]
              \/ ~(j = 1 /\ Top.listed) /\ Top.todo[j] \in Folders /\ k \in Below[Top.todo[j]]
        BY <1>3, <2>2, <3>3 DEF Adds
      <4>2. CASE j = 1
        <5>1. k = path
          BY <1>1, <1>3, <4>1, <4>2 DEF path
        <5> QED
          BY <1>6, <1>8, <5>1 DEF Coming
      <4>3. CASE j # 1
        <5>1. j \in 2..Len(Top.todo)
          BY <1>3, <4>3
        <5>2. Adds(fr, k)
          BY <1>4, <4>1, <4>3, <5>1 DEF Adds
        <5> QED
          BY <1>7, <1>8, <3>3, <5>2 DEF Coming
      <4> QED
        BY <4>2, <4>3
    <3> QED
      BY <3>2, <3>3
  <2> QED
    BY <1>9, <2>1, <2>2 DEF Coming, n, old
<1>10. \A k \in doomed : Coming(delete', 1, k)
  BY <1>2, <1>3, <1>9 DEF AllComing
<1>11. ASSUME NEW m \in 1..Len(gs), gs[m].listed
       PROVE  /\ gs[m].todo # << >> /\ gs[m].todo[1] \in Folders
              /\ \A k \in doomed \cap Below[gs[m].todo[1]] : Coming(delete', m + 1, k)
  <2>1. m \in 1..n /\ m # n
    BY <1>4, <1>7, <1>11
  <2>2. gs[m] = delete.frames[m] /\ m + 1 \in 1..(n + 1)
    BY <1>3, <1>7, <2>1
  <2>3. /\ gs[m].todo # << >> /\ gs[m].todo[1] \in Folders
        /\ \A k \in doomed \cap Below[gs[m].todo[1]] : Coming(delete, m + 1, k)
    BY <1>2, <1>11, <2>1, <2>2 DEF AllComing, n
  <2> QED
    BY <1>9, <2>2, <2>3
<1>12. ASSUME NEW f \in Folders \cap Range(list)
       PROVE  doomed \cap Below[f] \subseteq Range(list)
  <2>1. CASE f \in Range(old)
    BY <1>2, <1>6, <2>1 DEF AllComing, old
  <2>2. CASE f = path
    <3>1. Top.listed /\ n \in 1..n
      BY <1>1, <1>3, <1>12, <2>2 DEF path
    <3>2. \A k \in doomed \cap Below[path] : Coming(delete, n + 1, k)
      BY <1>2, <1>3, <3>1 DEF AllComing, n
    <3>3. \A i \in (n + 1)..n : FALSE
      BY <1>3
    <3> QED
      BY <1>6, <2>2, <3>2, <3>3 DEF Coming, n, old
  <2> QED
    BY <1>6, <1>12, <2>1, <2>2
<1>13. AllComing(delete', doomed)
  BY <1>8, <1>10, <1>11, <1>12 DEF AllComing
<1>14. DeletingAt(delete')
  <2>1. gs # << >>
    BY <1>3, <1>7
  <2>2. Len(old) <= MaxS3DeleteObjects /\ delete.Error = "ok" /\ MaxS3DeleteObjects \in Nat
    BY <1>1, <1>2, DeleteAssumption DEF DeletingAt, old
  <2> QED
    BY <1>5, <1>6, <1>8, <2>1, <2>2 DEF DeletingAt
<1> QED
  BY <1>1, <1>8, <1>13, <1>14, LoopKept DEF Underway

LEMMA DeleteReturnKept ==
    ASSUME DeleteInv, DeleteReturn
    PROVE  DeleteInv'
<1> DEFINE n == Len(delete.frames)
           gs == Front(delete.frames)
<1>1. /\ delete.pc = "paths" /\ delete.frames # << >> /\ Top.todo = << >>
      /\ UNCHANGED <<objects, doomed, sent>> /\ delete \in DeleteRecords /\ Underway(delete)
      /\ delete' = [delete EXCEPT !.frames = gs,
                      !.pc = IF n > 1 THEN "paths" ELSE "last send"]
  BY DEF DeleteReturn, InLoop, DeleteInv, Underway, listVars
<1>2. AllComing(delete, doomed) /\ DeletingAt(delete)
  BY <1>1 DEF DeleteInv
<1>3. delete.frames \in Seq(Frames) /\ n \in Nat \ {0} /\ Top = delete.frames[n]
  BY <1>1, FrameFacts
<1>4. /\ gs \in Seq(Frames) /\ Len(gs) = n - 1
      /\ \A i \in 1..(n - 1) : gs[i] = delete.frames[i]
  BY <1>1, <1>3 DEF Front
<1> HIDE DEF gs
<1>5. /\ delete' \in DeleteRecords /\ delete'.frames = gs /\ delete'.Error = delete.Error
      /\ delete'.S3DeletePathList = delete.S3DeletePathList
      /\ delete'.pc = IF n > 1 THEN "paths" ELSE "last send"
  BY <1>1, <1>4 DEF DeleteRecords
<1> HIDE DEF n
<1>6. \A k : ~Adds(delete.frames[n], k)
  BY <1>1, <1>3 DEF Adds
<1>7. ASSUME NEW m \in 1..n, NEW k, Coming(delete, m, k)
      PROVE  Coming(delete', m, k)
  <2>1. ASSUME NEW i \in m..n, Adds(delete.frames[i], k)
        PROVE  Coming(delete', m, k)
    <3>1. i # n
      BY <1>6, <2>1
    <3>2. i \in 1..(n - 1) /\ i \in m..(n - 1)
      BY <1>3, <3>1
    <3> QED
      BY <1>4, <1>5, <2>1, <3>2 DEF Coming
  <2> QED
    BY <1>5, <1>7, <2>1 DEF Coming, n
<1>8. \A k \in doomed : Coming(delete', 1, k)
  BY <1>2, <1>3, <1>7 DEF AllComing
<1>9. ASSUME NEW m \in 1..Len(gs), gs[m].listed
      PROVE  /\ gs[m].todo # << >> /\ gs[m].todo[1] \in Folders
             /\ \A k \in doomed \cap Below[gs[m].todo[1]] : Coming(delete', m + 1, k)
  <2>1. gs[m] = delete.frames[m] /\ m + 1 \in 1..n /\ m \in 1..n
    BY <1>3, <1>4
  <2>2. /\ gs[m].todo # << >> /\ gs[m].todo[1] \in Folders
        /\ \A k \in doomed \cap Below[gs[m].todo[1]] : Coming(delete, m + 1, k)
    BY <1>2, <1>9, <2>1 DEF AllComing, n
  <2> QED
    BY <1>7, <2>1, <2>2
<1>10. AllComing(delete', doomed)
  BY <1>2, <1>5, <1>8, <1>9 DEF AllComing
<1>11. DeletingAt(delete')
  <2>1. gs = << >> <=> ~(n > 1)
    BY <1>3, <1>4
  <2> QED
    BY <1>1, <1>2, <1>5, <2>1 DEF DeletingAt
<1> QED
  BY <1>1, <1>5, <1>10, <1>11, LoopKept DEF Underway

(* The keys of a request in the order of the requests: what is below a     *)
(* folder is before it.                                                    *)
LEMMA SentFacts ==
    ASSUME DeleteInv, Underway(delete), NEW b, b = Batch(delete.S3DeletePathList),
           sent' = sent \o b, doomed' \in SUBSET doomed
    PROVE  /\ FolderAfterContents' /\ sent' \in Seq(Keys)
           /\ doomed' \cap Range(b) = {} =>
                \A f \in Folders \cap Range(sent') : doomed' \cap Below[f] = {}
<1> DEFINE list == delete.S3DeletePathList
<1>1. /\ list \in Seq(Keys) /\ sent \in Seq(Keys) /\ doomed \in SUBSET Keys
      /\ \A f \in Folders \cap Range(list) : doomed \cap Below[f] \subseteq Range(list)
      /\ \A f \in Folders \cap Range(sent) : doomed \cap Below[f] = {}
  BY DEF DeleteInv, DeleteRecords, AllComing
<1>2. /\ b \in Seq(Keys) /\ Range(b) \subseteq Range(list)
      /\ \A i, j \in 1..Len(b) : i < j => b[j] < b[i]
      /\ \A k \in Range(list), l \in Range(b) : k > l => k \in Range(b)
  BY <1>1, BatchFacts
<1> HIDE DEF list
<1>3. sent' \in Seq(Keys) /\ Range(sent') = Range(sent) \cup Range(b)
  BY <1>1, <1>2, ConcatFacts
<1>4. /\ Len(sent) \in Nat /\ Len(b) \in Nat /\ Len(sent') = Len(sent) + Len(b)
      /\ \A i \in 1..Len(sent) : sent'[i] = sent[i]
      /\ \A i \in 1..Len(b) : sent'[Len(sent) + i] = b[i]
      /\ DOMAIN sent' = 1..Len(sent')
  BY <1>1, <1>2
<1>5. \A f \in Folders : \A k \in Below[f] : k > f /\ f \in Nat /\ k \in Nat
  BY ListingAssumption
<1>6. \A f \in Folders \cap Range(b) : doomed \cap Below[f] \subseteq Range(b)
  BY <1>1, <1>2, <1>5
<1>7. ASSUME NEW i \in 1..Len(sent'), sent'[i] \in Folders, NEW k \in doomed' \cap Below[sent'[i]]
      PROVE  k \in {sent'[j] : j \in 1..(i - 1)}
  <2>1. CASE i \in 1..Len(sent)
    <3>1. sent'[i] = sent[i] /\ sent[i] \in Range(sent)
      BY <1>1, <1>4, <2>1, RangeFacts
    <3> QED
      BY <1>1, <1>7, <3>1
  <2>2. CASE i \notin 1..Len(sent)
    <3> DEFINE h == i - Len(sent)
    <3>1. h \in 1..Len(b) /\ Len(sent) + h = i
      BY <1>4, <2>2
    <3> HIDE DEF h
    <3>2. sent'[i] = b[h] /\ b[h] \in Range(b)
      BY <1>2, <1>4, <3>1, RangeFacts
    <3>3. k \in Range(b) /\ k > b[h] /\ b[h] \in Nat /\ k \in Nat
      BY <1>5, <1>6, <1>7, <3>2
    <3>4. PICK j \in 1..Len(b) : b[j] = k
      BY <1>2, <3>3, InRange
    <3>7. h < j => b[j] < b[h]
      BY <1>2, <3>1
    <3>8. ~(h < j) /\ j # h
      BY <3>3, <3>4, <3>7
    <3>5. j < h
      BY <1>4, <3>1, <3>4, <3>8
    <3>6. Len(sent) + j \in 1..(i - 1) /\ sent'[Len(sent) + j] = k
      BY <1>4, <3>1, <3>4, <3>5
    <3> QED
      BY <3>6
  <2> QED
    BY <2>1, <2>2
<1>8. FolderAfterContents'
  BY <1>4, <1>7 DEF FolderAfterContents
<1>9. doomed' \cap Range(b) = {} => \A f \in Folders \cap Range(sent') : doomed' \cap Below[f] = {}
  BY <1>1, <1>3, <1>6
<1> QED
  BY <1>3, <1>8, <1>9

LEMMA DeleteSendFailsKept ==
    ASSUME DeleteInv, DeleteSendFails
    PROVE  DeleteInv'
<1>1. /\ Throw("failed") /\ delete \in DeleteRecords /\ Underway(delete)
      /\ doomed' \in SUBSET doomed /\ doomed' \subseteq objects'
      /\ sent' = sent \o Batch(delete.S3DeletePathList)
  BY DEF DeleteSendFails, DeleteInv, Gone, Sent, Sending, Underway
<1>2. delete' \in DeleteRecords /\ delete'.pc = "done" /\ delete'.Error = "failed"
  BY <1>1, ThrowFields
<1>3. FolderAfterContents' /\ sent' \in Seq(Keys)
  BY <1>1, SentFacts
<1>4. DeleteIsReal' /\ doomed' \in SUBSET Keys
  BY <1>1, <1>2 DEF DeleteIsReal, DeleteInv
<1> QED
  BY <1>1, <1>2, <1>3, <1>4 DEF DeleteInv, Underway

LEMMA DeleteSendKept ==
    ASSUME DeleteInv, DeleteSend
    PROVE  DeleteInv'
<1> DEFINE list == delete.S3DeletePathList
           b == Batch(list)
           rest == Rest(list)
<1>1. PICK refused \in SUBSET Range(b) : Gone(Range(b) \ refused) /\ Answered(refused)
  BY DEF DeleteSend
<1>2. /\ delete \in DeleteRecords /\ Underway(delete) /\ sent' = sent \o b
      /\ doomed' = doomed \ (Range(b) \ refused) /\ doomed' \subseteq objects'
      /\ delete.pc \in {"send", "last send"} /\ doomed' \in SUBSET doomed
      /\ doomed' \in SUBSET Keys
  BY <1>1 DEF DeleteSend, DeleteInv, Gone, Sent, Sending, Underway
<1>3. /\ FolderAfterContents' /\ sent' \in Seq(Keys)
      /\ doomed' \cap Range(b) = {} =>
           \A f \in Folders \cap Range(sent') : doomed' \cap Below[f] = {}
  BY <1>2, SentFacts
<1>4. CASE refused # {}
  <2>1. Throw("refused")
    BY <1>1, <1>4 DEF Answered
  <2>2. delete' \in DeleteRecords /\ delete'.pc = "done" /\ delete'.Error = "refused"
    BY <1>2, <2>1, ThrowFields
  <2>3. DeleteIsReal'
    BY <2>2 DEF DeleteIsReal
  <2> QED
    BY <1>2, <1>3, <2>2, <2>3 DEF DeleteInv, Underway
<1>5. CASE refused = {}
  <2>0. list \in Seq(Keys) /\ AllComing(delete, doomed) /\ DeletingAt(delete)
    BY <1>2 DEF DeleteInv, DeleteRecords
  <2>1. /\ list \in Seq(Keys) /\ Len(list) \in Nat /\ MaxS3DeleteObjects \in Nat
        /\ AllComing(delete, doomed) /\ DeletingAt(delete)
    BY <2>0, DeleteAssumption
  <2>2. /\ Range(b) \subseteq Range(list)
        /\ Len(list) <= MaxS3DeleteObjects => Range(b) = Range(list)
        /\ rest \in Seq(Keys) /\ Range(rest) = Range(list) \ Range(b)
        /\ Len(list) <= MaxS3DeleteObjects + 1 => Len(rest) <= MaxS3DeleteObjects
    BY <2>1, BatchFacts
  <2>3. delete' = [delete EXCEPT !.S3DeletePathList = rest,
                     !.pc = IF delete.pc = "send" THEN "paths" ELSE "done"]
    BY <1>1, <1>5 DEF Answered
  <2> HIDE DEF rest, b, list
  <2>4. /\ delete' \in DeleteRecords /\ delete'.S3DeletePathList = rest
        /\ delete'.frames = delete.frames /\ delete'.Error = delete.Error
        /\ delete'.pc = IF delete.pc = "send" THEN "paths" ELSE "done"
    BY <1>2, <2>2, <2>3 DEF DeleteRecords
  <2>5. doomed' = doomed \ Range(b) /\ doomed' \cap Range(b) = {}
    BY <1>2, <1>5
  <2>6. ASSUME NEW m, NEW k \in doomed', Coming(delete, m, k)
        PROVE  Coming(delete', m, k)
    BY <2>2, <2>4, <2>5, <2>6 DEF Coming, list
  <2>7. CASE delete.pc = "send"
    <3>1. /\ \A k \in doomed' : Coming(delete', 1, k)
          /\ \A n \in 1..Len(delete.frames) : delete.frames[n].listed =>
               \A k \in doomed' \cap Below[delete.frames[n].todo[1]] : Coming(delete', n + 1, k)
      BY <1>2, <2>1, <2>6 DEF AllComing
    <3>2. \A f \in Folders \cap Range(rest) : doomed' \cap Below[f] \subseteq Range(rest)
      BY <1>2, <2>1, <2>2, <2>5 DEF AllComing, list
    <3>3. AllComing(delete', doomed')
      BY <2>1, <2>4, <3>1, <3>2 DEF AllComing
    <3>4. DeletingAt(delete')
      BY <2>1, <2>2, <2>4, <2>7 DEF DeletingAt, list
    <3>5. DeleteIsReal'
      BY <2>4, <2>7 DEF DeleteIsReal
    <3> QED
      BY <1>2, <1>3, <2>4, <2>5, <2>7, <3>3, <3>4, <3>5 DEF DeleteInv
  <2>8. CASE delete.pc = "last send"
    <3>0. /\ delete.frames = << >> /\ delete.pc # "send"
          /\ Len(list) <= MaxS3DeleteObjects + (IF delete.pc = "send" THEN 1 ELSE 0)
      BY <2>1, <2>8 DEF DeletingAt, list
    <3>1. delete.frames = << >> /\ Len(list) <= MaxS3DeleteObjects
      BY <2>1, <3>0
    <3>2. \A k \in doomed : k \in Range(list)
      BY <2>1, <3>1 DEF AllComing, Coming, list
    <3>3. doomed' = {}
      BY <2>2, <2>5, <3>1, <3>2
    <3>4. DeleteIsReal'
      BY <3>3 DEF DeleteIsReal
    <3> QED
      BY <1>2, <1>3, <2>4, <2>8, <3>4 DEF DeleteInv, Underway
  <2> QED
    BY <1>2, <2>7, <2>8
<1> QED
  BY <1>4, <1>5

LEMMA DeleteNothingKept ==
    ASSUME DeleteInv, DeleteNothing
    PROVE  DeleteInv'
<1>1. /\ delete.pc = "last send" /\ delete.S3DeletePathList = << >> /\ Throw("ok")
      /\ UNCHANGED <<objects, doomed, sent>> /\ Underway(delete)
  BY DEF DeleteNothing, listVars, Underway
<1>2. delete.frames = << >> /\ \A k \in doomed : Coming(delete, 1, k)
  BY <1>1 DEF DeleteInv, DeletingAt, AllComing
<1>4. \A i \in 1..Len(delete.frames) : FALSE
  BY <1>2
<1>3. doomed = {}
  BY <1>1, <1>2, <1>4, EmptyRange DEF Coming
<1> QED
  BY <1>1, <1>3, DeleteEnds DEF DeleteInv

LEMMA DeleteInvalidKept ==
    ASSUME DeleteInv, DeleteInvalid
    PROVE  DeleteInv'
<1>1. Throw("invalid") /\ UNCHANGED <<objects, doomed, sent>>
  BY DEF DeleteInvalid, listVars
<1> QED
  BY <1>1, DeleteEnds DEF DeleteInv

LEMMA DeleteOtherKept ==
    ASSUME DeleteInv, NEW k \in Keys, DeleteOther(k)
    PROVE  DeleteInv'
<1>1. /\ UNCHANGED <<delete, sent, listing>> /\ doomed' = doomed \ {k}
      /\ doomed \subseteq objects
  BY DEF DeleteOther, OtherClient, DeleteInv
<1>2. /\ objects \ {k} \subseteq objects' /\ stable \ {k} \subseteq stable'
  BY DEF DeleteOther, OtherClient
<1>3. delete.pc = "listing" => ListingFor(delete, listing', doomed', stable')
  BY <1>1, <1>2 DEF DeleteInv, ListingFor
<1> QED
  BY <1>1, <1>2, <1>3, SameDelete

(* Steps of the listing, which a delete may be waiting for.                *)
LEMMA ListStepKept ==
    ASSUME ListInv, DeleteInv, Askable(listing.what), ListStep, UNCHANGED deleteVars
    PROVE  ListInv' /\ DeleteInv'
<1>1. ListInv'
  BY ListPageKept, ListEnds, ListNextCallKept DEF ListStep
<1>2. /\ UNCHANGED <<objects, stable>> /\ listing'.pc # "idle" /\ listing'.what = listing.what
  BY DEF ListStep, ListFails, ListGarbage, ListPage, ListNextCall, ListInv, ListRecords
<1>3. UNCHANGED <<delete, doomed, sent>> /\ doomed \subseteq objects
  BY DEF deleteVars, DeleteInv
<1>4. delete.pc = "listing" => ListingFor(delete, listing', doomed', stable')
  BY <1>2, <1>3 DEF DeleteInv, ListingFor
<1> QED
  BY <1>1, <1>2, <1>3, <1>4, SameDelete

(* Steps of a delete: the objects it deletes are of no listing under way.  *)
LEMMA DeleteStepKept ==
    ASSUME ListInv, DeleteInv, Waiting, op = "delete", UNCHANGED op, DeleteStep
    PROVE  ListInv' /\ DeleteInv' /\ Waiting'
<1>1. CASE DeleteList
  <2>1. delete'.pc = "listing"
    BY <1>1 DEF DeleteList, DeleteInv, DeleteRecords
  <2> QED
    BY <1>1, <2>1, DeleteListKept DEF Waiting
<1>2. CASE DeleteListed
  <2>1. UNCHANGED listVars /\ listing.pc = "done"
    BY <1>2 DEF DeleteListed
  <2>2. ListInv'
    BY <2>1 DEF listVars, ListInv
  <2> QED
    BY <1>2, <2>1, <2>2, DeleteListedKept DEF Waiting, listVars
<1>3. CASE DeleteAdd \/ DeleteReturn \/ DeleteNothing \/ DeleteInvalid
  <2>1. UNCHANGED listVars /\ delete.pc # "listing"
    BY <1>3 DEF DeleteAdd, DeleteReturn, DeleteNothing, DeleteInvalid, InLoop, Sending
  <2>2. ListInv' /\ listing.pc \notin {"request", "next call"}
    BY <2>1 DEF listVars, ListInv, Waiting
  <2>3. Waiting'
    BY <2>1, <2>2 DEF Waiting, listVars
  <2> QED
    BY <1>3, <2>2, <2>3, DeleteAddKept, DeleteReturnKept, DeleteNothingKept, DeleteInvalidKept
<1>4. CASE DeleteSendFails \/ DeleteSend
  <2>1. /\ UNCHANGED <<listing, stable, ever>> /\ delete.pc # "listing"
        /\ objects' \in SUBSET objects
    BY <1>4 DEF DeleteSendFails, DeleteSend, Sent, Sending, Gone
  <2>2. listing.pc \notin {"request", "next call"}
    BY <2>1 DEF Waiting
  <2>3. ListInv'
    BY <2>1, <2>2, ObjectsChange DEF ListInv
  <2>4. Waiting'
    BY <2>1, <2>2 DEF Waiting
  <2> QED
    BY <1>4, <2>3, <2>4, DeleteSendFailsKept, DeleteSendKept
<1> QED
  BY <1>1, <1>2, <1>3, <1>4 DEF DeleteStep

LEMMA CallDeleteKept ==
    ASSUME ListInv, DeleteInv, Waiting, CallDelete
    PROVE  ListInv' /\ DeleteInv' /\ Waiting'
<1>1. op = "none" /\ op' = "delete" /\ listing.pc = "idle" /\ delete.pc = "idle"
  BY DEF CallDelete, Waiting
<1>2. PICK paths \in PathLists :
        DeleteBegin(paths) \/ (Len(paths) = 1 /\ DeleteObject(Head(paths)))
  BY DEF CallDelete
<1>3. objects \in SUBSET Keys /\ Head(paths) \in Keys
  <2>1. paths \in Seq(Keys) /\ paths # << >>
    BY DeleteAssumption
  <2>2. Head(paths) \in Keys
    BY ONLY <2>1
  <2>3. objects \in SUBSET Keys
    BY DEF ListInv
  <2> QED
    BY <2>2, <2>3
<1>4. CASE DeleteBegin(paths)
  <2>1. UNCHANGED listVars
    BY <1>4 DEF DeleteBegin
  <2>2. ListInv' /\ Waiting'
    BY <1>1, <2>1 DEF listVars, ListInv, Waiting
  <2> QED
    BY <1>1, <1>3, <1>4, <2>2, DeleteBegins
<1>5. CASE DeleteObject(Head(paths))
  <2>1. UNCHANGED <<listing, stable, ever>> /\ objects' \in SUBSET objects
    BY <1>5 DEF DeleteObject
  <2>2. ListInv'
    BY <1>1, <2>1, ObjectsChange DEF ListInv
  <2>3. Waiting'
    BY <1>1, <2>1 DEF Waiting
  <2> QED
    BY <1>3, <1>5, <2>2, <2>3, DeleteObjectKept
<1> QED
  BY <1>2, <1>4, <1>5

LEMMA OpStart == Init => OpInv
<1> SUFFICES ASSUME Init PROVE OpInv
  OBVIOUS
<1>1. objects \in SUBSET Keys
  BY ListingAssumption DEF Init, ListInit
<1>2. << >> \in Seq(Keys) /\ Range(<< >>) = {} /\ NoDoubles(<< >>)
  BY DEF Range, NoDoubles
<1>3. NoContext \in Contexts
  BY DEF NoContext, Contexts
<1>4. NoListing \in AskedFor /\ NoListing.paged = FALSE
  BY DEF AskedFor, NoListing
<1>5. /\ listing \in ListRecords /\ listing.pc = "idle" /\ listing.DirList = << >>
      /\ listing.pages = << >> /\ listing.what = NoListing
  BY <1>2, <1>3, <1>4 DEF Init, ListInit, ListRecords
<1>6. stable = {} /\ ever = {}
  BY DEF Init, ListInit
<1>7. ListedSoFar(listing, stable, ever)
  BY <1>2, <1>5 DEF ListedSoFar, Seen
<1>8. LoopAt(listing)
  BY <1>5 DEF LoopAt
<1>9. ListInv
  BY <1>1, <1>5, <1>6, <1>7, <1>8 DEF ListInv
<1>10. Waiting
  BY <1>5 DEF Init, DeleteInit, Waiting
<1> QED
  BY <1>1, <1>9, <1>10, DeleteStart DEF Init, OpInv

LEMMA AskedFacts ==
    ASSUME \A what \in Listings : Askable(what)
    PROVE  \A what \in AskedFor : Askable(what)
<1>1. Askable(NoListing)
  BY DEF Askable, NoListing, Kinds
<1>2. \A f \in Folders : Askable(FolderListing(f))
  BY DEF Askable, FolderListing, Kinds
<1> QED
  BY <1>1, <1>2 DEF AskedFor

LEMMA OpNext ==
    ASSUME \A what \in Listings : Askable(what), OpInv, [Next]_vars
    PROVE  OpInv'
<1>1. ListInv /\ Waiting /\ DeleteInv /\ Askable(listing.what)
  BY AskedFacts DEF OpInv, ListInv, ListRecords
<1>2. CASE UNCHANGED <<listVars, deleteVars>> /\ (op = op' \/ op' \in {"copy", "admin"})
  <2>1. UNCHANGED <<objects, listing, stable, ever, delete, doomed, sent>>
    BY <1>2 DEF listVars, deleteVars
  <2>2. ListInv'
    BY <1>1, <2>1 DEF ListInv
  <2>3. DeleteInv'
    BY <1>1, <2>1, SameDelete DEF DeleteInv
  <2>4. Waiting'
    BY <1>1, <1>2, <2>1 DEF Waiting
  <2> QED
    BY <2>2, <2>3, <2>4 DEF OpInv
<1>3. CASE CallListing
  <2>1. PICK what \in Listings : ListBegin(what)
    BY <1>3 DEF CallListing
  <2>2. ListInv'
    BY <1>1, <1>3, <2>1, ListBegins DEF CallListing, AskedFor
  <2>3. /\ UNCHANGED <<delete, doomed, sent, objects>> /\ delete.pc = "idle" /\ op' = "list"
    BY <1>1, <1>3 DEF CallListing, deleteVars, Waiting
  <2>4. DeleteInv'
    BY <1>1, <2>3, SameDelete DEF DeleteInv
  <2> QED
    BY <2>2, <2>3, <2>4 DEF OpInv, Waiting
<1>4. CASE CallDelete
  BY <1>1, <1>4, CallDeleteKept DEF OpInv
<1>5. CASE ListingSteps
  <2>1. ListInv' /\ DeleteInv'
    BY <1>1, <1>5, ListStepKept DEF ListingSteps
  <2>2. listing.pc \in {"request", "next call"} /\ UNCHANGED <<op, delete>> /\ op # "none"
    BY <1>5 DEF ListingSteps, ListStep, ListFails, ListGarbage, ListPage, ListNextCall, deleteVars
  <2> QED
    BY <1>1, <2>1, <2>2 DEF OpInv, Waiting
<1>6. CASE Deleting
  BY <1>1, <1>6, DeleteStepKept DEF Deleting, OpInv
<1>7. CASE op \in {"list", "delete"} /\ UNCHANGED op /\ \E k \in Keys : DeleteOther(k)
  <2>1. PICK k \in Keys : DeleteOther(k)
    BY <1>7
  <2>2. ListInv' /\ DeleteInv'
    BY <1>1, <2>1, OtherClientKept, DeleteOtherKept DEF DeleteOther
  <2>3. UNCHANGED <<listing, delete>>
    BY <2>1 DEF DeleteOther, OtherClient
  <2> QED
    BY <1>1, <1>7, <2>2, <2>3 DEF OpInv, Waiting
<1> QED
  BY <1>2, <1>3, <1>4, <1>5, <1>6, <1>7
     DEF Next, vars, CallCopy, CallAdmin, Copying, Administering, Others

(* However many pages a listing takes and however the bucket changes       *)
(* between two of them, no entry is listed twice, and a listing that       *)
(* succeeds has everything that was there all the time and nothing that    *)
(* never was (DirListingInternal, S3MultiPartList, S3SearchMD).  Excepted  *)
(* is the listing of objects without delimiter that is read in one call,   *)
(* whose marker stays where the first answer has put it.                   *)
THEOREM ListedOnceHolds ==
    ASSUME \A what \in Listings : Askable(what)
    PROVE  Spec => []ListedOnce
<1>1. Init => OpInv
  BY OpStart
<1>2. OpInv /\ [Next]_vars => OpInv'
  BY OpNext
<1>3. OpInv => ListedOnce
  <2> SUFFICES ASSUME OpInv PROVE ListedOnce
    OBVIOUS
  <2>1. /\ listing.pages \in Seq(Keys) /\ listing.DirList \in Seq(Keys)
        /\ ListedSoFar(listing, stable, ever)
    BY DEF OpInv, ListInv, ListRecords
  <2>2. /\ NoDoubles(listing.pages) /\ NoDoubles(listing.DirList)
        /\ Range(listing.pages) \cap Range(listing.DirList) = {}
    BY <2>1 DEF ListedSoFar
  <2>3. /\ NoDoubles(listing.pages \o listing.DirList)
        /\ Range(listing.pages \o listing.DirList)
             = Range(listing.pages) \cup Range(listing.DirList)
    BY <2>1, <2>2, ConcatFacts
  <2>4. NoDoubles(Entries) /\ Range(Entries) = Seen(listing)
    BY <2>3 DEF Entries, Seen
  <2> QED
    BY <2>1, <2>4 DEF ListedOnce, ListedSoFar, NoDoubles
<1> QED
  BY <1>1, <1>2, <1>3, PTL DEF Spec

(* A delete that succeeds has deleted everything that was at or below its  *)
(* paths when it began, for any tree of folders and any number of keys in  *)
(* a request, while another client changes the bucket (DeleteS3Internal,   *)
(* DeleteS3Send).                                                          *)
THEOREM DeleteIsRealHolds ==
    ASSUME \A what \in Listings : Askable(what)
    PROVE  Spec => []DeleteIsReal
<1>1. Init => OpInv
  BY OpStart
<1>2. OpInv /\ [Next]_vars => OpInv'
  BY OpNext
<1>3. OpInv => DeleteIsReal
  BY DEF OpInv, DeleteInv
<1> QED
  BY <1>1, <1>2, <1>3, PTL DEF Spec

(* No folder is sent before what is below it and still to be deleted,      *)
(* though the keys of a request are taken from the end of the list and     *)
(* requests are sent in the middle of the recursion (DeleteS3Send).        *)
THEOREM FolderAfterContentsHolds ==
    ASSUME \A what \in Listings : Askable(what)
    PROVE  Spec => []FolderAfterContents
<1>1. Init => OpInv
  BY OpStart
<1>2. OpInv /\ [Next]_vars => OpInv'
  BY OpNext
<1>3. OpInv => FolderAfterContents
  BY DEF OpInv, DeleteInv
<1> QED
  BY <1>1, <1>2, <1>3, PTL DEF Spec
=============================================================================
