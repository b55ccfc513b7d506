------------------------- MODULE StreamWriteProofs --------------------------
(* Proofs about StreamWrite, for files of any size and buffers, chunks and *)
(* writes of any length: the upload implements Transfer, and its success   *)
(* means that the server has the file.                                     *)
EXTENDS StreamWrite, SequenceTheorems, TLAPS

-----------------------------------------------------------------------------
(* The inductive invariant.                                                *)

(* The sequence s lies in t, behind its first k elements.                  *)
Lies(s, t, k) ==
    /\ k \in Nat /\ k + Len(s) <= Len(t)
    /\ \A i \in 1 .. Len(s) : s[i] = t[k + i]

(* What the calling thread has read and not yet pushed.                    *)
InHand == IF main = "push" THEN Len(rec.data) ELSE 0

(* The entries of q lie behind one another in t; off[i] is where the i-th  *)
(* begins and the last of them is where they end.                          *)
Laid(q, t, off, from, to) ==
    /\ off \in [1 .. Len(q) + 1 -> 0 .. Len(t)]
    /\ off[1] = from /\ off[Len(q) + 1] = to
    /\ \A i \in 1 .. Len(q) :
         Lies(q[i].data, t, off[i]) /\ off[i + 1] = off[i] + Len(q[i].data)

LaidOut(q, t, from, to) ==
    \E off \in [1 .. Len(q) + 1 -> 0 .. Len(t)] : Laid(q, t, off, from, to)

(* What has been sent, gathered for the next chunk, queued and read is, in *)
(* this order, what was taken from the file.                               *)
InOrder ==
    /\ Lies(body, taken, 0) /\ Lies(chunk, taken, Len(body))
    /\ LaidOut(queue, taken, Len(body) + Len(chunk) - sent, Len(taken) - InHand)
    /\ main = "push" => Lies(rec.data, taken, Len(taken) - Len(rec.data))

(* How much of the entry in front has been taken from it.                  *)
OfFront ==
    /\ queue = << >> => sent = 0
    /\ queue # << >> => sent <= Len(Front)
    /\ worker = "pop" => queue # << >> /\ sent = Len(Front)
    /\ Len(chunk) < ChunkSize
    /\ ~bS3AuthV4 => chunk = << >>

(* Nothing is read or pushed after the last entry.                         *)
LastIsLast ==
    /\ main \in {"stat", "hash", "create", "seek", "read"} => ~bDone
    /\ main = "push" => rec.bLast = bDone
    /\ \A i \in 1 .. Len(queue) :
         queue[i].bLast => i = Len(queue) /\ bDone /\ main # "push"
    /\ worker \in {"last", "response"} => queue = << >> /\ bDone /\ main # "push"
    /\ worker = "response" => chunk = << >>

(* The flags and the places of the two threads.                            *)
Places ==
    /\ evWriteComplete => worker \in {"done", "ended", "exited"}
    /\ worker \in {"done", "ended"} => evWriteComplete
    /\ bWorkerDone => evWriteComplete
    /\ main \in {"stat", "hash", "create"} => worker = "unborn"
    /\ worker = "unborn" => main \in {"stat", "hash", "create", "returned"}
    /\ main = "returned" => worker \in {"unborn", "failed", "exited"}

(* Create has returned without an error: all was sent, and stored.         *)
Created ==
    (worker = "event" \/ evWriteComplete) /\ Error = "none" =>
        /\ bDone /\ main # "push" /\ body = taken
        /\ FileSize <= Len(taken) /\ object = SubSeq(taken, 1, FileSize)
        /\ hashed \in {None, object}

(* The calling thread has compared the sizes.                              *)
Compared ==
    /\ main = "size" => evWriteComplete
    /\ main \in {"kill", "join"} /\ dwMainError = "none" =>
         evWriteComplete /\ FileSize = Len(taken)
    /\ main = "returned" /\ result = "none" =>
         evWriteComplete /\ FileSize = Len(taken) /\ Error = "none"

WriteInv ==
    /\ WriteTypeOK /\ InOrder /\ OfFront /\ LastIsLast /\ Places /\ Created /\ Compared

-----------------------------------------------------------------------------
(* Sequences that lie in another.                                          *)

LEMMA ConcatIs ==
    ASSUME NEW S, NEW s \in Seq(S), NEW t \in Seq(S)
    PROVE  /\ s \o t \in Seq(S) /\ Len(s) \in Nat /\ Len(t) \in Nat
           /\ Len(s \o t) = Len(s) + Len(t)
           /\ \A i \in 1 .. Len(s) : (s \o t)[i] = s[i]
           /\ \A i \in 1 .. Len(t) : (s \o t)[Len(s) + i] = t[i]
  OBVIOUS

LEMMA FunctionIsSeq ==
    ASSUME NEW S, NEW n \in Nat, NEW f \in [1 .. n -> S]
    PROVE  f \in Seq(S)
  BY SeqDef, Zenon

LEMMA LenIs ==
    ASSUME NEW S, NEW s \in Seq(S)
    PROVE  Len(s) \in Nat
  OBVIOUS

LEMMA EmptyIs ==
    ASSUME NEW S
    PROVE  << >> \in Seq(S) /\ Len(<< >>) = 0
  OBVIOUS

LEMMA PartIs ==
    ASSUME NEW s \in Seq(Nat), NEW a \in Nat, NEW n \in Nat, a + n <= Len(s)
    PROVE  /\ SubSeq(s, a + 1, a + n) \in Seq(Nat)
           /\ Len(SubSeq(s, a + 1, a + n)) = n
           /\ \A i \in 1 .. n : SubSeq(s, a + 1, a + n)[i] = s[a + i]
<1>1. Len(s) \in Nat
  OBVIOUS
<1>2. \A i \in (a + 1) .. (a + n) : s[i] \in Nat
  BY <1>1
<1>3. /\ SubSeq(s, a + 1, a + n) \in Seq(Nat)
      /\ Len(SubSeq(s, a + 1, a + n)) =
           IF a + 1 <= a + n THEN (a + n) - (a + 1) + 1 ELSE 0
      /\ \A i \in 1 .. (a + n) - (a + 1) + 1 :
           SubSeq(s, a + 1, a + n)[i] = s[(a + 1) + i - 1]
  BY <1>1, <1>2, SubSeqProperties
<1>4. (a + n) - (a + 1) + 1 = n /\ \A i \in 1 .. n : (a + 1) + i - 1 = a + i
  OBVIOUS
<1> QED
  BY <1>3, <1>4

LEMMA LiesGrows ==
    ASSUME NEW s \in Seq(Nat), NEW t \in Seq(Nat), NEW d \in Seq(Nat), NEW k,
           Lies(s, t, k)
    PROVE  Lies(s, t \o d, k)
<1>1. /\ Len(t) \in Nat /\ Len(d) \in Nat /\ Len(s) \in Nat /\ Len(t \o d) = Len(t) + Len(d)
      /\ \A i \in 1 .. Len(t) : (t \o d)[i] = t[i]
  BY ConcatIs
<1>2. /\ k \in Nat /\ k + Len(s) <= Len(t)
      /\ \A i \in 1 .. Len(s) : s[i] = t[k + i] /\ k + i \in 1 .. Len(t)
  BY <1>1 DEF Lies
<1>3. \A i \in 1 .. Len(s) : s[i] = (t \o d)[k + i]
  BY <1>1, <1>2
<1>4. k \in Nat /\ k + Len(s) <= Len(t \o d)
  BY <1>1, <1>2
<1> QED
  BY <1>3, <1>4 DEF Lies

LEMMA LiesAtEnd ==
    ASSUME NEW t \in Seq(Nat), NEW d \in Seq(Nat)
    PROVE  Lies(d, t \o d, Len(t))
  BY ConcatIs DEF Lies

LEMMA LiesJoined ==
    ASSUME NEW s \in Seq(Nat), NEW u \in Seq(Nat), NEW t \in Seq(Nat), NEW k,
           Lies(s, t, k), Lies(u, t, k + Len(s))
    PROVE  Lies(s \o u, t, k)
<1>1. /\ s \o u \in Seq(Nat) /\ Len(s) \in Nat /\ Len(u) \in Nat
      /\ Len(t) \in Nat /\ Len(s \o u) = Len(s) + Len(u)
      /\ \A i \in 1 .. Len(s) : (s \o u)[i] = s[i]
      /\ \A i \in 1 .. Len(u) : (s \o u)[Len(s) + i] = u[i]
  BY ConcatIs
<1>2. /\ k \in Nat /\ k + Len(s) + Len(u) <= Len(t)
      /\ \A i \in 1 .. Len(s) : s[i] = t[k + i]
      /\ \A i \in 1 .. Len(u) : u[i] = t[k + Len(s) + i]
  BY <1>1 DEF Lies
<1>3. ASSUME NEW i \in 1 .. Len(s \o u)
      PROVE  (s \o u)[i] = t[k + i]
  <2>1. CASE i \in 1 .. Len(s)
    BY <1>1, <1>2, <2>1
  <2>2. CASE ~(i \in 1 .. Len(s))
    <3>1. i - Len(s) \in 1 .. Len(u) /\ Len(s) + (i - Len(s)) = i
          /\ k + Len(s) + (i - Len(s)) = k + i
      BY <1>1, <1>2, <2>2
    <3>2. (s \o u)[Len(s) + (i - Len(s))] = u[i - Len(s)]
      BY <1>1, <3>1
    <3>3. u[i - Len(s)] = t[k + Len(s) + (i - Len(s))]
      BY <1>2, <3>1
    <3> QED
      BY <3>1, <3>2, <3>3
  <2> QED
    BY <2>1, <2>2
<1> QED
  BY <1>1, <1>2, <1>3 DEF Lies

LEMMA LiesPart ==
    ASSUME NEW s \in Seq(Nat), NEW t \in Seq(Nat), NEW k, NEW a \in Nat, NEW n \in Nat,
           Lies(s, t, k), a + n <= Len(s)
    PROVE  Lies(SubSeq(s, a + 1, a + n), t, k + a)
<1>1. /\ Len(SubSeq(s, a + 1, a + n)) = n
      /\ \A i \in 1 .. n : SubSeq(s, a + 1, a + n)[i] = s[a + i]
  BY PartIs
<1>2. k \in Nat /\ k + Len(s) <= Len(t) /\ Len(s) \in Nat /\ Len(t) \in Nat
      /\ \A i \in 1 .. Len(s) : s[i] = t[k + i]
  BY DEF Lies
<1>3. \A i \in 1 .. n : a + i \in 1 .. Len(s) /\ k + (a + i) = (k + a) + i
  BY <1>2
<1>4. \A i \in 1 .. n : SubSeq(s, a + 1, a + n)[i] = t[(k + a) + i]
  BY <1>1, <1>2, <1>3
<1>5. k + a \in Nat /\ k + a + n <= Len(t)
  BY <1>2
<1> QED
  BY <1>1, <1>4, <1>5 DEF Lies

LEMMA LiesNothing ==
    ASSUME NEW t \in Seq(Nat), NEW k \in Nat, k <= Len(t)
    PROVE  Lies(<< >>, t, k)
  BY DEF Lies

LEMMA LiesWhole ==
    ASSUME NEW s \in Seq(Nat), NEW t \in Seq(Nat), Lies(s, t, 0), Len(s) = Len(t)
    PROVE  s = t
<1>1. \A i \in 1 .. Len(s) : s[i] = t[i]
  BY DEF Lies
<1> QED
  BY <1>1, SeqEqual

LEMMA LiesInFront ==
    ASSUME NEW s \in Seq(Nat), NEW t \in Seq(Nat), Lies(s, t, 0)
    PROVE  Len(s) <= Len(t) /\ s = SubSeq(t, 1, Len(s))
<1>1. Len(s) \in Nat /\ Len(t) \in Nat /\ Len(s) <= Len(t)
      /\ \A i \in 1 .. Len(s) : s[i] = t[i]
  BY DEF Lies
<1>2. /\ SubSeq(t, 0 + 1, 0 + Len(s)) \in Seq(Nat)
      /\ Len(SubSeq(t, 0 + 1, 0 + Len(s))) = Len(s)
      /\ \A i \in 1 .. Len(s) : SubSeq(t, 0 + 1, 0 + Len(s))[i] = t[0 + i]
  BY <1>1, PartIs
<1>3. SubSeq(t, 0 + 1, 0 + Len(s)) = SubSeq(t, 1, Len(s))
  BY <1>1
<1>4. \A i \in 1 .. Len(s) : t[0 + i] = t[i]
  OBVIOUS
<1>5. \A i \in 1 .. Len(s) : SubSeq(t, 1, Len(s))[i] = s[i]
  BY <1>1, <1>2, <1>3, <1>4
<1> QED
  BY <1>1, <1>2, <1>3, <1>5, SeqEqual

LEMMA PrefixOfConcat ==
    ASSUME NEW t \in Seq(Nat), NEW d \in Seq(Nat)
    PROVE  Len(t) <= Len(t \o d) /\ t = SubSeq(t \o d, 1, Len(t))
<1>1. t \o d \in Seq(Nat) /\ Lies(t, t \o d, 0)
  BY ConcatIs DEF Lies
<1> QED
  BY <1>1, LiesInFront

LEMMA SubSeqAll ==
    ASSUME NEW t \in Seq(Nat)
    PROVE  SubSeq(t, 1, Len(t)) = t
<1>1. Lies(t, t, 0)
  BY DEF Lies
<1> QED
  BY <1>1, LiesInFront

-----------------------------------------------------------------------------
(* Entries that lie behind one another.                                    *)

LEMMA LaidGrows ==
    ASSUME NEW q \in Seq(Entries), NEW t \in Seq(Nat), NEW d \in Seq(Nat), NEW from, NEW to,
           LaidOut(q, t, from, to)
    PROVE  LaidOut(q, t \o d, from, to)
<1>1. PICK off \in [1 .. Len(q) + 1 -> 0 .. Len(t)] : Laid(q, t, off, from, to)
  BY DEF LaidOut
<1>2. Len(t) \in Nat /\ Len(d) \in Nat /\ Len(t \o d) = Len(t) + Len(d) /\ Len(q) \in Nat
  BY ConcatIs
<1>3. off \in [1 .. Len(q) + 1 -> 0 .. Len(t \o d)]
  BY <1>2
<1>4. \A i \in 1 .. Len(q) : q[i].data \in Seq(Nat)
  <2>1. \A i \in 1 .. Len(q) : q[i] \in Entries
    OBVIOUS
  <2> QED
    BY <2>1 DEF Entries
<1>5. \A i \in 1 .. Len(q) : Lies(q[i].data, t \o d, off[i])
  BY <1>1, <1>4, LiesGrows DEF Laid
<1>6. Laid(q, t \o d, off, from, to)
  BY <1>1, <1>3, <1>5 DEF Laid
<1> QED
  BY <1>3, <1>6 DEF LaidOut

LEMMA LaidFront ==
    ASSUME NEW q \in Seq(Entries), NEW t \in Seq(Nat), NEW from, NEW to,
           LaidOut(q, t, from, to), q # << >>
    PROVE  Head(q).data \in Seq(Nat) /\ Lies(Head(q).data, t, from)
<1>1. PICK off \in [1 .. Len(q) + 1 -> 0 .. Len(t)] : Laid(q, t, off, from, to)
  BY DEF LaidOut
<1>2. 1 \in 1 .. Len(q) /\ Head(q) = q[1] /\ q[1] \in Entries
  OBVIOUS
<1> QED
  BY <1>1, <1>2 DEF Laid, Entries

LEMMA LaidEmpty ==
    ASSUME NEW t, NEW from, NEW to, LaidOut(<< >>, t, from, to)
    PROVE  from = to
  BY DEF LaidOut, Laid

LEMMA LaidFirst ==
    ASSUME NEW t \in Seq(Nat), NEW from \in 0 .. Len(t)
    PROVE  LaidOut(<< >>, t, from, from)
<1> DEFINE off == [i \in 1 .. 1 |-> from]
<1>1. /\ off \in [1 .. Len(<< >>) + 1 -> 0 .. Len(t)]
      /\ off[1] = from /\ off[Len(<< >>) + 1] = from
  OBVIOUS
<1>2. Laid(<< >>, t, off, from, from)
  BY <1>1 DEF Laid
<1> QED
  BY <1>1, <1>2 DEF LaidOut

LEMMA TailIs ==
    ASSUME NEW q \in Seq(Entries), q # << >>
    PROVE  /\ Tail(q) \in Seq(Entries) /\ Len(q) \in Nat \ {0} /\ Len(Tail(q)) = Len(q) - 1
           /\ \A i \in 1 .. Len(Tail(q)) : Tail(q)[i] = q[i + 1] /\ i + 1 \in 1 .. Len(q)
           /\ Head(q) = q[1] /\ Head(q) \in Entries /\ 1 \in 1 .. Len(q)
  OBVIOUS

LEMMA LaidPopped ==
    ASSUME NEW q \in Seq(Entries), NEW t \in Seq(Nat), NEW from, NEW to,
           LaidOut(q, t, from, to), q # << >>
    PROVE  LaidOut(Tail(q), t, from + Len(Head(q).data), to)
<1>1. PICK off \in [1 .. Len(q) + 1 -> 0 .. Len(t)] : Laid(q, t, off, from, to)
  BY DEF LaidOut
<1> DEFINE n == Len(q)
           next == [i \in 1 .. n |-> off[i + 1]]
<1>2. /\ n \in Nat \ {0} /\ Len(Tail(q)) = n - 1 /\ Len(Tail(q)) + 1 = n
      /\ \A i \in 1 .. n - 1 : Tail(q)[i] = q[i + 1]
      /\ Head(q) = q[1] /\ 1 \in 1 .. n
  BY TailIs
<1>3. /\ off \in [1 .. n + 1 -> 0 .. Len(t)]
      /\ off[1] = from /\ off[n + 1] = to
      /\ \A i \in 1 .. n : Lies(q[i].data, t, off[i]) /\ off[i + 1] = off[i] + Len(q[i].data)
  BY <1>1 DEF Laid
<1> HIDE DEF n
<1>4. \A i \in 1 .. n : i + 1 \in 1 .. n + 1 /\ next[i] = off[i + 1]
  BY <1>2
<1>5. next \in [1 .. n -> 0 .. Len(t)]
  BY <1>3, <1>4
<1>6. next[1] = from + Len(Head(q).data) /\ next[n] = to
  BY <1>2, <1>3, <1>4
<1>7. ASSUME NEW i \in 1 .. n - 1
      PROVE  /\ Lies(Tail(q)[i].data, t, next[i])
             /\ next[i + 1] = next[i] + Len(Tail(q)[i].data)
  <2>1. i \in 1 .. n /\ i + 1 \in 1 .. n /\ Tail(q)[i] = q[i + 1]
    BY <1>2
  <2>2. next[i] = off[i + 1] /\ next[i + 1] = off[(i + 1) + 1]
    BY <1>4, <2>1
  <2> QED
    BY <1>3, <2>1, <2>2
<1> HIDE DEF next
<1>8. Laid(Tail(q), t, next, from + Len(Head(q).data), to)
  BY <1>2, <1>5, <1>6, <1>7 DEF Laid
<1> QED
  BY <1>2, <1>5, <1>8 DEF LaidOut

LEMMA AppendIs ==
    ASSUME NEW q \in Seq(Entries), NEW e \in Entries
    PROVE  /\ Append(q, e) \in Seq(Entries) /\ Len(q) \in Nat /\ Len(Append(q, e)) = Len(q) + 1
           /\ \A i \in 1 .. Len(q) : Append(q, e)[i] = q[i]
           /\ Append(q, e)[Len(q) + 1] = e
  OBVIOUS

LEMMA LaidPushed ==
    ASSUME NEW q \in Seq(Entries), NEW t \in Seq(Nat), NEW e \in Entries, NEW from, NEW to \in Nat,
           LaidOut(q, t, from, to), Lies(e.data, t, to)
    PROVE  LaidOut(Append(q, e), t, from, to + Len(e.data))
<1>1. PICK off \in [1 .. Len(q) + 1 -> 0 .. Len(t)] : Laid(q, t, off, from, to)
  BY DEF LaidOut
<1> DEFINE n == Len(q)
           m == Len(e.data)
           next == [i \in 1 .. n + 2 |-> IF i = n + 2 THEN to + m ELSE off[i]]
<1>2. /\ n \in Nat /\ Len(Append(q, e)) = n + 1
      /\ \A i \in 1 .. n : Append(q, e)[i] = q[i]
      /\ Append(q, e)[n + 1] = e
  BY AppendIs
<1>3. /\ off \in [1 .. n + 1 -> 0 .. Len(t)]
      /\ off[1] = from /\ off[n + 1] = to
      /\ \A i \in 1 .. n : Lies(q[i].data, t, off[i]) /\ off[i + 1] = off[i] + Len(q[i].data)
  BY <1>1 DEF Laid
<1>4. m \in Nat /\ Len(t) \in Nat /\ to + m <= Len(t)
  BY DEF Entries, Lies
<1> HIDE DEF n, m
<1>5. /\ \A i \in 1 .. n + 1 : i \in 1 .. n + 2 /\ i # n + 2 /\ next[i] = off[i]
      /\ n + 2 \in 1 .. n + 2 /\ next[n + 2] = to + m
  BY <1>2
<1>6. next \in [1 .. (n + 1) + 1 -> 0 .. Len(t)]
  <2>1. \A i \in 1 .. n + 2 : i = n + 2 \/ i \in 1 .. n + 1
    BY <1>2
  <2>2. ASSUME NEW i \in 1 .. n + 2
        PROVE  (IF i = n + 2 THEN to + m ELSE off[i]) \in 0 .. Len(t)
    <3>1. to + m \in 0 .. Len(t)
      BY <1>4
    <3>2. i \in 1 .. n + 1 => off[i] \in 0 .. Len(t)
      BY <1>3
    <3> QED
      BY <2>1, <3>1, <3>2
  <2>3. next \in [1 .. n + 2 -> 0 .. Len(t)]
    BY <2>2
  <2>4. (n + 1) + 1 = n + 2
    BY <1>2
  <2> QED
    BY <2>3, <2>4
<1>7. next[1] = from /\ next[(n + 1) + 1] = to + m /\ next[n + 1] = to
  BY <1>2, <1>3, <1>5
<1> HIDE DEF next
<1>8. ASSUME NEW i \in 1 .. n + 1
      PROVE  /\ Lies(Append(q, e)[i].data, t, next[i])
             /\ next[i + 1] = next[i] + Len(Append(q, e)[i].data)
  <2>1. CASE i = n + 1
    BY <1>2, <1>7, <2>1 DEF m
  <2>2. CASE i # n + 1
    <3>1. i \in 1 .. n /\ i + 1 \in 1 .. n + 1
      BY <1>2, <2>2
    <3> QED
      BY <1>2, <1>3, <1>5, <3>1
  <2> QED
    BY <2>1, <2>2
<1>9. Laid(Append(q, e), t, next, from, to + m)
  BY <1>2, <1>6, <1>7, <1>8 DEF Laid
<1> QED
  BY <1>2, <1>6, <1>9 DEF LaidOut, m

-----------------------------------------------------------------------------
(* The steps that leave the data where it is.                              *)

Data == <<queue, taken, body, chunk, sent, rec, bDone, bS3AuthV4>>

LEMMA DataKept ==
    ASSUME InOrder, OfFront, UNCHANGED Data, (main = "push") = (main' = "push"),
           worker' = "pop" => worker = "pop"
    PROVE  InOrder' /\ OfFront'
  BY DEF Data, InOrder, OfFront, InHand, Front

LEMMA WriteStart == WriteInit => WriteInv
<1> SUFFICES ASSUME WriteInit PROVE WriteInv
  OBVIOUS
<1>1. PICK n \in FileSizes : file = [i \in 1 .. n |-> i]
  BY DEF WriteInit
<1>2. n \in Nat
  BY StreamWriteAssumption
<1>3. file \in Seq(Nat)
  <2>1. [i \in 1 .. n |-> i] \in [1 .. n -> Nat]
    BY <1>2
  <2>2. [i \in 1 .. n |-> i] \in Seq(Nat)
    BY <1>2, <2>1, FunctionIsSeq
  <2> QED
    BY <1>1, <2>2
<1>4. /\ queue = << >> /\ changes = 0 /\ FileSize = 0 /\ hashed = None /\ taken = << >>
      /\ main = "stat" /\ rec = NoRec /\ bDone = FALSE /\ dwMainError = "none"
      /\ worker = "unborn" /\ bS3AuthV4 \in BOOLEAN
      /\ sent = 0 /\ chunk = << >> /\ body = << >> /\ object = None
      /\ Error = "none" /\ evWriteComplete = FALSE /\ bWorkerDone = FALSE
      /\ bTerminate = FALSE /\ bAbort = FALSE /\ result = "none"
  BY DEF WriteInit, QueueInit
<1>5. << >> \in Seq(Nat) /\ << >> \in Seq(Entries) /\ Len(<< >>) = 0 /\ NoRec \in Entries
  BY EmptyIs DEF NoRec, Entries
<1>6. WriteTypeOK
  <2>1. {file, taken, chunk, body} \subseteq Seq(Nat)
    BY <1>3, <1>4, <1>5
  <2>2. {hashed, object} \subseteq Seq(Nat) \cup {None}
    BY <1>4
  <2>3. rec \in Entries /\ queue \in Seq(Entries)
    BY <1>4, <1>5
  <2>4. {FileSize, sent, changes} \subseteq Nat
    BY <1>4
  <2> QED
    BY <1>4, <2>1, <2>2, <2>3, <2>4 DEF WriteTypeOK
<1>7. InOrder
  <2>1. Lies(<< >>, << >>, 0)
    BY EmptyIs DEF Lies
  <2>2. 0 \in 0 .. Len(<< >>)
    BY EmptyIs
  <2>3. LaidOut(<< >>, << >>, 0, 0)
    BY EmptyIs, <2>2, LaidFirst
  <2>4. Len(body) = 0 /\ Len(chunk) = 0 /\ Len(taken) = 0 /\ InHand = 0 /\ main # "push"
    BY <1>4, <1>5 DEF InHand
  <2> QED
    BY <1>4, <2>1, <2>3, <2>4 DEF InOrder
<1>8. OfFront
  BY <1>4, <1>5, StreamWriteAssumption DEF OfFront
<1>9. LastIsLast
  BY <1>4, <1>5 DEF LastIsLast
<1> QED
  BY <1>4, <1>6, <1>7, <1>8, <1>9 DEF WriteInv, Places, Created, Compared

LEMMA StatFileKept ==
    ASSUME WriteInv, StatFile
    PROVE  WriteInv'
<1>1. /\ UNCHANGED Data /\ main = "stat" /\ main' \in {"hash", "create", "returned"}
      /\ worker' = worker /\ worker = "unborn"
      /\ main' = "returned" => result' = "disk"
      /\ UNCHANGED <<Error, dwMainError, object, hashed, evWriteComplete, bWorkerDone>>
  BY DEF StatFile, ReturnEarly, Data, queueVars, doneVars, WriteInv, Places
<1>2. WriteTypeOK'
  <2>1. FileSize' \in Nat /\ result' \in {result, "disk"}
    BY DEF StatFile, ReturnEarly, WriteInv, WriteTypeOK
  <2> QED
    BY <1>1, <2>1 DEF StatFile, WriteInv, WriteTypeOK, queueVars, fileVars, doneVars
<1>3. InOrder' /\ OfFront'
  BY <1>1, DataKept DEF WriteInv
<1>4. LastIsLast'
  BY <1>1 DEF Data, WriteInv, LastIsLast
<1>5. Places' /\ Created' /\ Compared'
  BY <1>1 DEF WriteInv, Places, Created, Compared
<1> QED
  BY <1>2, <1>3, <1>4, <1>5 DEF WriteInv

LEMMA CalcUploadChecksumKept ==
    ASSUME WriteInv, CalcUploadChecksum
    PROVE  WriteInv'
<1>1. /\ UNCHANGED Data /\ main = "hash" /\ main' \in {"create", "returned"}
      /\ worker' = worker /\ worker = "unborn"
      /\ main' = "returned" => result' # "none"
      /\ UNCHANGED <<Error, dwMainError, object, FileSize, evWriteComplete, bWorkerDone>>
  BY DEF CalcUploadChecksum, ReturnEarly, Data, queueVars, doneVars, WriteInv, Places
<1>2. WriteTypeOK'
  <2>1. hashed' \in {hashed, file} /\ result' \in {result, "disk", "aborted"}
    BY DEF CalcUploadChecksum, ReturnEarly, WriteInv, WriteTypeOK
  <2> QED
    BY <1>1, <2>1 DEF CalcUploadChecksum, WriteInv, WriteTypeOK, queueVars, fileVars, doneVars
<1>3. InOrder' /\ OfFront'
  BY <1>1, DataKept DEF WriteInv
<1>4. LastIsLast'
  BY <1>1 DEF Data, WriteInv, LastIsLast
<1>5. Places' /\ Created' /\ Compared'
  BY <1>1 DEF WriteInv, Places, Created, Compared
<1> QED
  BY <1>2, <1>3, <1>4, <1>5 DEF WriteInv

LEMMA CreateThreadKept ==
    ASSUME WriteInv, CreateThread
    PROVE  WriteInv'
<1>1. /\ UNCHANGED Data /\ main = "create" /\ main' = "seek"
      /\ worker' \in {"start", "failed"} /\ worker = "unborn"
      /\ UNCHANGED <<Error, dwMainError, object, FileSize, hashed, evWriteComplete, bWorkerDone, result>>
  BY DEF CreateThread, Data, queueVars, doneVars, WriteInv, Places
<1>2. WriteTypeOK'
  BY <1>1 DEF CreateThread, WriteInv, WriteTypeOK, queueVars, fileVars, doneVars
<1>3. InOrder' /\ OfFront'
  BY <1>1, DataKept DEF WriteInv
<1>4. LastIsLast'
  BY <1>1 DEF Data, WriteInv, LastIsLast
<1>5. Places' /\ Created' /\ Compared'
  BY <1>1 DEF WriteInv, Places, Created, Compared
<1> QED
  BY <1>2, <1>3, <1>4, <1>5 DEF WriteInv

(* The rest of the calling thread, but for reading and pushing.            *)
LEMMA MainKept ==
    ASSUME WriteInv,
           SeekFile \/ LoopTest \/ ReadFileFails \/ PushWaits \/ MainWait \/ MainWaitFailed
             \/ SizeTest \/ MainKill \/ MainReturns
    PROVE  WriteInv'
<1>1. /\ UNCHANGED Data /\ (main = "push") = (main' = "push")
      /\ main \notin {"stat", "hash", "create", "returned"}
      /\ main' \notin {"stat", "hash", "create", "seek"}
      /\ main' = "read" => ~bDone
      /\ UNCHANGED <<file, changes, worker, Error, object, FileSize, hashed, evWriteComplete,
                     bWorkerDone, bS3AuthV4, bAbort>>
  BY DEF SeekFile, LoopTest, ReadFileFails, PushWaits, MainWait, MainWaitFailed, SizeTest,
         MainKill, MainReturns, Throw, UnchangedByMain, Data, queueVars, fileVars, sendVars,
         doneVars, mainVars, LinkEvent, WaitDone, WaitAborted, WaitSleep, WaitWakes
<1>2. WriteTypeOK'
  <2>1. /\ main' \in {"loop", "read", "push", "wait", "size", "kill", "join", "returned"}
        /\ bTerminate' \in {bTerminate, TRUE}
        /\ dwMainError' \in {dwMainError, "disk", "wait", "aborted", "length"}
        /\ result' \in {result, Error, dwMainError}
    BY DEF SeekFile, LoopTest, ReadFileFails, PushWaits, MainWait, MainWaitFailed, SizeTest,
           MainKill, MainReturns, Throw, mainVars
  <2>2. /\ {file, taken, chunk, body}' \subseteq Seq(Nat)
        /\ {hashed, object}' \subseteq Seq(Nat) \cup {None}
        /\ rec' \in Entries /\ queue' \in Seq(Entries)
        /\ {FileSize, sent, changes}' \subseteq Nat
    BY <1>1 DEF WriteInv, WriteTypeOK, Data
  <2>3. /\ worker' \in {"unborn", "failed", "start", "request", "hung", "send", "pop", "last",
                       "response", "event", "done", "ended", "exited"}
        /\ {bDone, evWriteComplete, bWorkerDone, bTerminate, bAbort}' \subseteq BOOLEAN
        /\ bS3AuthV4' \in BOOLEAN
    BY <1>1, <2>1 DEF WriteInv, WriteTypeOK, Data
  <2>4. {Error, dwMainError, result}' \subseteq
          {"none", "aborted", "comm", "http", "length", "wait", "disk"}
    BY <1>1, <2>1 DEF WriteInv, WriteTypeOK
  <2> QED
    BY <2>1, <2>2, <2>3, <2>4 DEF WriteTypeOK
<1>3. InOrder' /\ OfFront'
  BY <1>1, DataKept DEF WriteInv
<1>4. LastIsLast'
  BY <1>1 DEF Data, WriteInv, LastIsLast
<1>5. Places'
  <2>1. main' = "returned" => worker \in {"failed", "exited"}
    BY <1>1 DEF SeekFile, LoopTest, ReadFileFails, PushWaits, MainWait, MainWaitFailed, SizeTest,
           MainKill, MainReturns, Throw, mainVars
  <2> QED
    BY <1>1, <2>1 DEF WriteInv, Places
<1>6. Created'
  BY <1>1 DEF Data, WriteInv, Created
<1>7. Compared'
  <2>1. main' = "size" => evWriteComplete
    BY <1>1 DEF SeekFile, LoopTest, ReadFileFails, PushWaits, MainWait, MainWaitFailed, SizeTest,
           MainKill, MainReturns, Throw, mainVars, WriteInv, Places
  <2>2. main' \in {"kill", "join"} /\ dwMainError' = "none" =>
          evWriteComplete /\ FileSize = Len(taken)
    BY <1>1 DEF SeekFile, LoopTest, ReadFileFails, PushWaits, MainWait, MainWaitFailed, SizeTest,
           MainKill, MainReturns, Throw, mainVars, WriteInv, Compared
  <2>3. main' = "returned" /\ result' = "none" =>
          evWriteComplete /\ FileSize = Len(taken) /\ Error = "none"
    BY <1>1 DEF SeekFile, LoopTest, ReadFileFails, PushWaits, MainWait, MainWaitFailed, SizeTest,
           MainKill, MainReturns, Throw, mainVars, WriteInv, Compared
  <2> QED
    BY <1>1, <2>1, <2>2, <2>3 DEF Compared, Data
<1> QED
  BY <1>2, <1>3, <1>4, <1>5, <1>6, <1>7 DEF WriteInv

(* A file that changes, an abort, a kill from outside.                     *)
LEMMA OutsideKept ==
    ASSUME WriteInv, FileChanges \/ AbortRequested \/ AllTerminate
    PROVE  WriteInv'
<1>1. UNCHANGED <<queueVars, mainVars, sendVars, doneVars, bS3AuthV4>>
  BY DEF FileChanges, AbortRequested, AllTerminate
<1>2. /\ file' \in Seq(Nat) /\ changes' \in Nat
      /\ bAbort' \in {bAbort, TRUE} /\ bTerminate' \in {bTerminate, TRUE}
  <2>1. file \in Seq(Nat) /\ changes \in Nat
    BY DEF WriteInv, WriteTypeOK
  <2>2. CASE FileChanges
    <3>1. Append(file, 0) \in Seq(Nat)
      BY <2>1
    <3>2. ASSUME file # << >>
          PROVE  SubSeq(file, 1, Len(file) - 1) \in Seq(Nat) /\ [file EXCEPT ![1] = 0] \in Seq(Nat)
      <4>1. Len(file) - 1 \in Nat /\ 0 + (Len(file) - 1) <= Len(file)
            /\ file \in [1 .. Len(file) -> Nat]
        BY <2>1, <3>2
      <4>2. SubSeq(file, 0 + 1, 0 + (Len(file) - 1)) \in Seq(Nat)
        BY <2>1, <4>1, PartIs
      <4>3. 0 + 1 = 1 /\ 0 + (Len(file) - 1) = Len(file) - 1
        BY <4>1
      <4>4. [file EXCEPT ![1] = 0] \in [1 .. Len(file) -> Nat]
        BY <4>1
      <4>5. [file EXCEPT ![1] = 0] \in Seq(Nat)
        BY <2>1, <4>4, FunctionIsSeq
      <4> QED
        BY <4>2, <4>3, <4>5
    <3>3. file' \in Seq(Nat)
      BY <2>2, <3>1, <3>2 DEF FileChanges
    <3> QED
      BY <2>1, <2>2, <3>3 DEF FileChanges
  <2>3. CASE AbortRequested \/ AllTerminate
    BY <2>1, <2>3 DEF AbortRequested, AllTerminate, fileVars
  <2> QED
    BY <2>2, <2>3
<1>3. WriteTypeOK'
  BY <1>1, <1>2 DEF WriteInv, WriteTypeOK, queueVars, mainVars, sendVars, doneVars
<1>4. InOrder' /\ OfFront'
  BY <1>1, DataKept DEF WriteInv, Data, queueVars, mainVars, sendVars
<1>5. LastIsLast' /\ Places' /\ Created' /\ Compared'
  BY <1>1 DEF WriteInv, LastIsLast, Places, Created, Compared, queueVars, mainVars, sendVars, doneVars
<1> QED
  BY <1>3, <1>4, <1>5 DEF WriteInv

-----------------------------------------------------------------------------
(* Reading and pushing.                                                    *)

LEMMA LeastIs ==
    ASSUME NEW m \in Int, NEW n \in Int
    PROVE  Least(m, n) \in {m, n} /\ Least(m, n) <= m /\ Least(m, n) <= n
  BY DEF Least

LEMMA ReadFileKept ==
    ASSUME WriteInv, ReadFile
    PROVE  WriteInv'
<1> DEFINE data == SubSeq(file, Len(taken) + 1, Least(Len(taken) + BufSize, Len(file)))
<1>1. /\ taken' = taken \o data /\ rec'.data = data /\ rec' \in [data : {data}, bLast : BOOLEAN]
      /\ rec'.bLast = bDone' /\ bDone' \in BOOLEAN
      /\ main = "read" /\ main' = "push"
      /\ UNCHANGED <<queue, body, chunk, sent, file, changes, worker, Error, object, FileSize,
                     hashed, evWriteComplete, bWorkerDone, bS3AuthV4, bAbort, dwMainError, result,
                     bTerminate>>
  <2>1. PICK sFalse \in BOOLEAN :
          /\ rec' = [data |-> data, bLast |-> (sFalse \/ data = << >>)]
          /\ bDone' = (sFalse \/ data = << >>)
    BY DEF ReadFile
  <2> HIDE DEF data
  <2>2. (sFalse \/ data = << >>) \in BOOLEAN
    BY <2>1
  <2>3. /\ rec'.data = data /\ rec' \in [data : {data}, bLast : BOOLEAN]
        /\ rec'.bLast = bDone' /\ bDone' \in BOOLEAN
    BY <2>1, <2>2
  <2>4. taken' = taken \o data
    BY DEF ReadFile, data
  <2> QED
    BY <2>3, <2>4 DEF ReadFile, BeginPush, UnchangedByMain, fileVars, sendVars, doneVars
<1>2. /\ file \in Seq(Nat) /\ taken \in Seq(Nat) /\ body \in Seq(Nat) /\ chunk \in Seq(Nat)
      /\ queue \in Seq(Entries) /\ BufSize \in Nat \ {0} /\ ~bDone
  BY <1>1, StreamWriteAssumption DEF WriteInv, WriteTypeOK, LastIsLast
<1>3. data \in Seq(Nat)
  <2> DEFINE a == Len(taken)
             b == Least(a + BufSize, Len(file))
  <2>1. a \in Nat /\ Len(file) \in Nat /\ b \in Nat /\ b <= Len(file)
    BY <1>2, LeastIs
  <2> HIDE DEF a, b
  <2>2. \A i \in a + 1 .. b : file[i] \in Nat
    BY <1>2, <2>1
  <2>3. SubSeq(file, a + 1, b) \in Seq(Nat)
    BY <2>1, <2>2, SubSeqProperties
  <2> QED
    BY <2>3 DEF a, b
<1> HIDE DEF data
<1>4. /\ taken \o data \in Seq(Nat) /\ Len(taken) \in Nat /\ Len(data) \in Nat
      /\ Len(taken \o data) = Len(taken) + Len(data)
  BY <1>2, <1>3, ConcatIs
<1>5. rec' \in Entries
  BY <1>1, <1>3 DEF Entries
<1>6. WriteTypeOK'
  <2>1. /\ {file, taken, chunk, body}' \subseteq Seq(Nat)
        /\ rec' \in Entries /\ queue' \in Seq(Entries)
    BY <1>1, <1>2, <1>4, <1>5
  <2> QED
    BY <1>1, <2>1 DEF WriteInv, WriteTypeOK
<1>7. InOrder'
  <2>1. /\ Lies(body, taken, 0) /\ Lies(chunk, taken, Len(body))
        /\ LaidOut(queue, taken, Len(body) + Len(chunk) - sent, Len(taken))
    <3>1. InHand = 0 /\ Len(taken) - 0 = Len(taken)
      BY <1>1, <1>4 DEF InHand
    <3> QED
      BY <3>1 DEF WriteInv, InOrder
  <2>2. /\ Lies(body, taken \o data, 0) /\ Lies(chunk, taken \o data, Len(body))
        /\ LaidOut(queue, taken \o data, Len(body) + Len(chunk) - sent, Len(taken))
    BY <1>2, <1>3, <2>1, LiesGrows, LaidGrows
  <2>3. Lies(data, taken \o data, Len(taken))
    BY <1>2, <1>3, LiesAtEnd
  <2>4. Len(taken \o data) - Len(data) = Len(taken)
    BY <1>4
  <2>5. InHand' = Len(data)
    BY <1>1 DEF InHand
  <2> QED
    BY <1>1, <2>2, <2>3, <2>4, <2>5 DEF InOrder
<1>8. OfFront'
  BY <1>1 DEF WriteInv, OfFront, Front
<1>9. LastIsLast'
  <2>1. \A i \in 1 .. Len(queue) : ~queue[i].bLast
    BY <1>2 DEF WriteInv, LastIsLast
  <2>2. worker \notin {"last", "response"}
    BY <1>2 DEF WriteInv, LastIsLast
  <2> QED
    BY <1>1, <2>1, <2>2 DEF LastIsLast
<1>10. Places' /\ Created' /\ Compared'
  BY <1>1, <1>2 DEF WriteInv, Places, Created, Compared
<1> QED
  BY <1>6, <1>7, <1>8, <1>9, <1>10 DEF WriteInv

LEMMA PushEntryKept ==
    ASSUME WriteInv, PushEntry
    PROVE  WriteInv'
<1>1. /\ queue' = Append(queue, rec) /\ rec' = NoRec /\ main = "push" /\ main' = "loop"
      /\ UNCHANGED <<taken, bDone, body, chunk, sent, file, changes, worker, Error, object, FileSize,
                     hashed, evWriteComplete, bWorkerDone, bS3AuthV4, bAbort, dwMainError, result,
                     bTerminate>>
  BY DEF PushEntry, Push, UnchangedByMain, fileVars, sendVars, doneVars
<1>2. /\ taken \in Seq(Nat) /\ rec \in Entries /\ queue \in Seq(Entries)
      /\ rec.data \in Seq(Nat) /\ Len(rec.data) \in Nat /\ Len(taken) \in Nat
  BY DEF WriteInv, WriteTypeOK, Entries
<1>3. /\ Append(queue, rec) \in Seq(Entries) /\ Len(queue) \in Nat
      /\ Len(Append(queue, rec)) = Len(queue) + 1
      /\ \A i \in 1 .. Len(queue) : Append(queue, rec)[i] = queue[i]
      /\ Append(queue, rec)[Len(queue) + 1] = rec
  BY <1>2, AppendIs
<1>4. NoRec \in Entries
  BY EmptyIs DEF NoRec, Entries
<1>5. WriteTypeOK'
  BY <1>1, <1>3, <1>4 DEF WriteInv, WriteTypeOK
<1>6. InOrder'
  <2> DEFINE to == Len(taken) - Len(rec.data)
             from == Len(body) + Len(chunk) - sent
  <2>1. /\ Lies(body, taken, 0) /\ Lies(chunk, taken, Len(body))
        /\ LaidOut(queue, taken, from, to) /\ Lies(rec.data, taken, to)
    BY <1>1 DEF WriteInv, InOrder, InHand
  <2>2. to \in Nat /\ to + Len(rec.data) = Len(taken)
    BY <1>2, <2>1 DEF Lies
  <2> HIDE DEF to, from
  <2>3. LaidOut(Append(queue, rec), taken, from, Len(taken))
    BY <1>2, <2>1, <2>2, LaidPushed
  <2>4. InHand' = 0 /\ Len(taken) - 0 = Len(taken)
    BY <1>1, <1>2 DEF InHand
  <2> QED
    BY <1>1, <2>1, <2>3, <2>4 DEF InOrder, from
<1>7. OfFront'
  <2>1. queue' # << >>
    BY <1>1, <1>3
  <2>2. CASE queue = << >>
    <3>1. sent' = 0 /\ worker' # "pop"
      BY <1>1, <2>2 DEF WriteInv, OfFront
    <3>2. Head(queue') = rec
      BY <1>1, <1>2, <2>2
    <3> QED
      BY <1>1, <1>2, <2>1, <3>1, <3>2 DEF WriteInv, OfFront, Front
  <2>3. CASE queue # << >>
    <3>1. Head(queue') = Head(queue)
      BY <1>1, <1>2, <1>3, <2>3
    <3> QED
      BY <1>1, <2>1, <2>3, <3>1 DEF WriteInv, OfFront, Front
  <2> QED
    BY <2>2, <2>3
<1>8. LastIsLast'
  <2>1. rec.bLast = bDone /\ worker \notin {"last", "response"}
        /\ \A i \in 1 .. Len(queue) : ~queue[i].bLast
    BY <1>1 DEF WriteInv, LastIsLast
  <2>2. \A i \in 1 .. Len(queue') : queue'[i].bLast => i = Len(queue') /\ bDone
    BY <1>1, <1>3, <2>1
  <2> QED
    BY <1>1, <2>1, <2>2 DEF LastIsLast
<1>9. Places' /\ Created' /\ Compared'
  BY <1>1 DEF WriteInv, Places, Created, Compared
<1> QED
  BY <1>5, <1>6, <1>7, <1>8, <1>9 DEF WriteInv

-----------------------------------------------------------------------------
(* The worker.                                                             *)

(* Steps that send nothing.                                                *)
LEMMA WorkerKept ==
    ASSUME WriteInv,
           WorkerStarts \/ SendHeaders \/ WorkerFails \/ WorkerHangs \/ SetWriteComplete \/ SetWorkerDone
             \/ WorkerExits
    PROVE  WriteInv'
<1> USE DEF WorkerStarts, SendHeaders, WorkerFails, WorkerHangs, SetWriteComplete, SetWorkerDone, WorkerExits,
            CreateReturns
<1>1. /\ UNCHANGED Data
      /\ UNCHANGED <<file, changes, FileSize, hashed, main, dwMainError, result, object,
                     bS3AuthV4, bTerminate, bAbort>>
      /\ worker \notin {"unborn", "failed", "pop"}
      /\ worker' \in {"request", "hung", "exited", "send", "event", "done", "ended"}
  BY DEF UnchangedByWorker, Data, queueVars, fileVars, mainVars, doneVars
<1>2. /\ Error' \in {Error, "aborted", "comm"}
      /\ evWriteComplete' \in {evWriteComplete, TRUE} /\ bWorkerDone' \in {bWorkerDone, TRUE}
  BY DEF doneVars
<1>3. WriteTypeOK'
  <2>1. {Error, dwMainError, result}' \subseteq
          {"none", "aborted", "comm", "http", "length", "wait", "disk"}
    BY <1>1, <1>2 DEF WriteInv, WriteTypeOK
  <2>2. {bDone, evWriteComplete, bWorkerDone, bTerminate, bAbort}' \subseteq BOOLEAN
    BY <1>1, <1>2 DEF WriteInv, WriteTypeOK, Data
  <2> QED
    BY <1>1, <2>1, <2>2 DEF WriteInv, WriteTypeOK, Data
<1>4. InOrder' /\ OfFront'
  BY <1>1, DataKept DEF WriteInv
<1>5. LastIsLast'
  BY <1>1 DEF Data, WriteInv, LastIsLast
<1>6. main \notin {"stat", "hash", "create", "returned"} \/ worker = "exited"
  BY <1>1 DEF WriteInv, Places
<1>7. Places'
  BY <1>1, <1>6 DEF WriteInv, Places, doneVars
<1>8. /\ (worker' = "event" \/ evWriteComplete') /\ Error' = "none" =>
           (worker = "event" \/ evWriteComplete) /\ Error = "none"
      /\ evWriteComplete => evWriteComplete'
      /\ evWriteComplete => Error' = Error
  BY <1>1 DEF WriteInv, Places, doneVars
<1>9. Created'
  BY <1>1, <1>8 DEF Data, WriteInv, Created
<1>10. Compared'
  BY <1>1, <1>8 DEF Data, WriteInv, Compared
<1> QED
  BY <1>3, <1>4, <1>5, <1>7, <1>9, <1>10 DEF WriteInv

(* A piece of the entry in front is sent, or added to the chunk.           *)
LEMMA PieceMoves ==
    ASSUME WriteInv, worker = "send", queue # << >>, NEW n \in Nat, sent + n <= Len(Front)
    PROVE  /\ SubSeq(Front, sent + 1, sent + n) \in Seq(Nat)
           /\ Len(SubSeq(Front, sent + 1, sent + n)) = n
           /\ Lies(SubSeq(Front, sent + 1, sent + n), taken, Len(body) + Len(chunk))
           /\ Len(body) \in Nat /\ Len(chunk) \in Nat
<1>1. /\ taken \in Seq(Nat) /\ queue \in Seq(Entries) /\ sent \in Nat
      /\ Len(body) \in Nat /\ Len(chunk) \in Nat
  BY DEF WriteInv, WriteTypeOK
<1> DEFINE from == Len(body) + Len(chunk) - sent
<1>2. LaidOut(queue, taken, from, Len(taken) - InHand)
  BY DEF WriteInv, InOrder
<1>3. from + sent = Len(body) + Len(chunk)
  BY <1>1
<1> HIDE DEF from
<1>4. Front \in Seq(Nat) /\ Lies(Front, taken, from)
  BY <1>1, <1>2, LaidFront DEF Front
<1>5. Lies(SubSeq(Front, sent + 1, sent + n), taken, from + sent)
  BY <1>1, <1>4, LiesPart
<1>6. /\ SubSeq(Front, sent + 1, sent + n) \in Seq(Nat)
      /\ Len(SubSeq(Front, sent + 1, sent + n)) = n
  BY <1>1, <1>4, PartIs
<1> QED
  BY <1>1, <1>3, <1>5, <1>6

Others == <<queue, taken, rec, bDone, object, main, file, changes, FileSize, hashed, dwMainError,
            result, bS3AuthV4, bTerminate, bAbort, Error, evWriteComplete, bWorkerDone>>

LEMMA FrontIs ==
    ASSUME WriteInv, queue # << >>
    PROVE  /\ Len(Front) \in Nat /\ sent \in Nat /\ sent <= Len(Front)
           /\ taken \in Seq(Nat) /\ body \in Seq(Nat) /\ chunk \in Seq(Nat)
<1>1. queue \in Seq(Entries)
  BY DEF WriteInv, WriteTypeOK
<1>2. Head(queue) \in Entries
  BY <1>1, TailIs
<1>3. Len(Front) \in Nat
  BY <1>2 DEF Front, Entries
<1> QED
  BY <1>3 DEF WriteInv, WriteTypeOK, OfFront

LEMMA PieceKept ==
    ASSUME WriteInv, worker = "send", queue # << >>, UNCHANGED Others,
           NEW n \in Nat, sent + n <= Len(Front), sent' = sent + n,
           worker' = IF sent + n >= Len(Front) THEN "pop" ELSE "send",
           body' \in Seq(Nat), chunk' \in Seq(Nat),
           Lies(body', taken, 0), Lies(chunk', taken, Len(body')),
           Len(body') + Len(chunk') = Len(body) + Len(chunk) + n,
           Len(chunk') < ChunkSize, bS3AuthV4 \/ chunk' = << >>
    PROVE  WriteInv'
<1>1. /\ sent \in Nat /\ Len(body) \in Nat /\ Len(chunk) \in Nat /\ Len(Front) \in Nat
      /\ Len(body') \in Nat /\ Len(chunk') \in Nat
  <2>1. sent \in Nat /\ Len(Front) \in Nat /\ body \in Seq(Nat) /\ chunk \in Seq(Nat)
    BY FrontIs
  <2>2. Len(body) \in Nat /\ Len(chunk) \in Nat
    BY <2>1, LenIs
  <2>3. Len(body') \in Nat /\ Len(chunk') \in Nat
    BY LenIs
  <2> QED
    BY <2>1, <2>2, <2>3
<1>2. WriteTypeOK'
  <2>1. /\ {file, taken, chunk, body}' \subseteq Seq(Nat) /\ sent' \in Nat
        /\ worker' \in {"pop", "send"}
    <3>1. sent + n \in Nat /\ worker' \in {"pop", "send"}
      BY <1>1
    <3> QED
      BY <3>1 DEF WriteInv, WriteTypeOK, Others
  <2> QED
    BY <2>1 DEF WriteInv, WriteTypeOK, Others
<1>3. InOrder'
  <2>1. Len(body') + Len(chunk') - sent' = Len(body) + Len(chunk) - sent
    BY <1>1
  <2> QED
    BY <2>1 DEF WriteInv, InOrder, InHand, Others
<1>4. OfFront'
  <2>1. Front' = Front /\ queue' = queue /\ bS3AuthV4' = bS3AuthV4
    BY DEF Front, Others
  <2>2. sent' <= Len(Front)
    BY <1>1
  <2>3. worker' = "pop" => sent' = Len(Front)
    BY <1>1
  <2> QED
    BY <2>1, <2>2, <2>3 DEF OfFront
<1>5. LastIsLast'
  BY DEF WriteInv, LastIsLast, Others
<1>6. Places' /\ Created' /\ Compared'
  BY DEF WriteInv, Places, Created, Compared, Others
<1> QED
  BY <1>2, <1>3, <1>4, <1>5, <1>6 DEF WriteInv

LEMMA SendPieceKept ==
    ASSUME WriteInv, SendPiece
    PROVE  WriteInv'
<1> DEFINE n == Least(Len(Front) - sent, MaxWriteRequest)
           piece == SubSeq(Front, sent + 1, sent + n)
<1>1. /\ worker = "send" /\ queue # << >> /\ body' = body \o piece /\ sent' = sent + n
      /\ worker' = IF sent + n >= Len(Front) THEN "pop" ELSE "send"
      /\ UNCHANGED Others /\ chunk' = chunk /\ ~bS3AuthV4
  BY DEF SendPiece, UnchangedByWorker, queueVars, fileVars, mainVars, doneVars, Others
<1>2. n \in Nat /\ sent + n <= Len(Front)
  BY <1>1, FrontIs, StreamWriteAssumption, LeastIs
<1> HIDE DEF n
<1>3. /\ piece \in Seq(Nat) /\ Len(piece) = n /\ Len(body) \in Nat /\ Len(chunk) \in Nat
      /\ Lies(piece, taken, Len(body) + Len(chunk))
  BY <1>1, <1>2, PieceMoves
<1> HIDE DEF piece
<1>4. chunk = << >> /\ Len(chunk) = 0 /\ Len(chunk) < ChunkSize
  BY <1>1, EmptyIs DEF WriteInv, OfFront
<1>5. Lies(piece, taken, 0 + Len(body)) /\ Lies(body, taken, 0)
  <2>1. Len(body) + Len(chunk) = 0 + Len(body)
    BY <1>3, <1>4
  <2> QED
    BY <1>3, <2>1 DEF WriteInv, InOrder
<1>6. taken \in Seq(Nat) /\ body \in Seq(Nat)
  BY <1>1, FrontIs
<1>7. /\ Lies(body \o piece, taken, 0) /\ body \o piece \in Seq(Nat)
      /\ Len(body \o piece) = Len(body) + n
  BY <1>3, <1>5, <1>6, LiesJoined, ConcatIs
<1>8. Len(body \o piece) <= Len(taken) /\ Len(taken) \in Nat /\ Len(body \o piece) \in Nat
  BY <1>6, <1>7 DEF Lies
<1>9. Lies(<< >>, taken, Len(body \o piece))
  BY <1>6, <1>8, LiesNothing
<1>10. Len(body \o piece) + Len(chunk) = Len(body) + Len(chunk) + n
  BY <1>2, <1>3, <1>4, <1>7
<1> QED
  BY <1>1, <1>2, <1>4, <1>7, <1>9, <1>10, EmptyIs, PieceKept

LEMMA SendPieceV4Kept ==
    ASSUME WriteInv, SendPieceV4
    PROVE  WriteInv'
<1> DEFINE n == Least(Len(Front) - sent, ChunkSize - Len(chunk))
           piece == SubSeq(Front, sent + 1, sent + n)
           buf == chunk \o piece
<1>1. /\ worker = "send" /\ queue # << >> /\ sent' = sent + n
      /\ IF Len(buf) = ChunkSize
           THEN body' = body \o buf /\ chunk' = << >>
           ELSE body' = body /\ chunk' = buf
      /\ worker' = IF sent + n >= Len(Front) THEN "pop" ELSE "send"
      /\ UNCHANGED Others /\ bS3AuthV4
  BY DEF SendPieceV4, UnchangedByWorker, queueVars, fileVars, mainVars, doneVars, Others
<1>2. /\ Len(Front) \in Nat /\ sent \in Nat /\ sent <= Len(Front)
      /\ taken \in Seq(Nat) /\ body \in Seq(Nat) /\ chunk \in Seq(Nat)
  BY <1>1, FrontIs
<1>3. /\ ChunkSize \in Nat \ {0} /\ Len(chunk) < ChunkSize /\ Len(chunk) \in Nat
      /\ Len(body) \in Nat /\ Len(taken) \in Nat
      /\ Lies(body, taken, 0) /\ Lies(chunk, taken, Len(body))
  BY <1>2, StreamWriteAssumption DEF WriteInv, OfFront, InOrder
<1>4. n \in Nat /\ sent + n <= Len(Front) /\ Len(chunk) + n <= ChunkSize
  <2>1. Len(Front) - sent \in Nat /\ ChunkSize - Len(chunk) \in Nat
    BY <1>2, <1>3
  <2>2. n \in Nat /\ n <= Len(Front) - sent /\ n <= ChunkSize - Len(chunk)
    BY <2>1, LeastIs
  <2> HIDE DEF n
  <2> QED
    BY <1>2, <1>3, <2>2
<1> HIDE DEF n
<1>5. /\ piece \in Seq(Nat) /\ Len(piece) = n
      /\ Lies(piece, taken, Len(body) + Len(chunk))
  BY <1>1, <1>4, PieceMoves
<1> HIDE DEF piece
<1>6. /\ Lies(buf, taken, Len(body)) /\ buf \in Seq(Nat) /\ Len(buf) = Len(chunk) + n
  BY <1>2, <1>3, <1>5, LiesJoined, ConcatIs
<1> HIDE DEF buf
<1>7. CASE Len(buf) = ChunkSize
  <2>1. Lies(buf, taken, 0 + Len(body))
    BY <1>3, <1>6
  <2>2. /\ Lies(body \o buf, taken, 0) /\ body \o buf \in Seq(Nat)
        /\ Len(body \o buf) = Len(body) + Len(buf)
    BY <1>2, <1>3, <1>6, <2>1, LiesJoined, ConcatIs
  <2>3. Len(body \o buf) <= Len(taken) /\ Len(body \o buf) \in Nat
    BY <1>3, <1>6, <2>2 DEF Lies
  <2>4. Lies(<< >>, taken, Len(body \o buf))
    BY <1>2, <2>3, LiesNothing
  <2>5. Len(body \o buf) + Len(<< >>) = Len(body) + Len(chunk) + n /\ Len(<< >>) < ChunkSize
    BY <1>3, <1>4, <1>6, <2>2, EmptyIs
  <2>6. body' = body \o buf /\ chunk' = << >>
    BY <1>1, <1>7
  <2> QED
    BY <1>1, <1>4, <2>2, <2>4, <2>5, <2>6, EmptyIs, PieceKept
<1>8. CASE Len(buf) # ChunkSize
  <2>1. body' = body /\ chunk' = buf
    BY <1>1, <1>8
  <2>2. Len(buf) < ChunkSize /\ Len(body) + Len(buf) = Len(body) + Len(chunk) + n
    BY <1>3, <1>4, <1>6, <1>8
  <2> QED
    BY <1>1, <1>2, <1>3, <1>4, <1>6, <2>1, <2>2, PieceKept
<1> QED
  BY <1>7, <1>8

LEMMA LastOfQueue ==
    ASSUME NEW q \in Seq(Entries), q # << >>,
           \A i \in 1 .. Len(q) : q[i].bLast => i = Len(q)
    PROVE  /\ \A i \in 1 .. Len(Tail(q)) : Tail(q)[i].bLast => i = Len(Tail(q))
           /\ Head(q).bLast => Tail(q) = << >>
<1> DEFINE n == Len(q)
           rest == Tail(q)
<1>1. /\ rest \in Seq(Entries) /\ n \in Nat \ {0} /\ Len(rest) = n - 1
      /\ \A i \in 1 .. n - 1 : rest[i] = q[i + 1] /\ i + 1 \in 1 .. n
      /\ Head(q) = q[1] /\ 1 \in 1 .. n
  BY TailIs
<1>2. \A i \in 1 .. n : q[i].bLast => i = n
  OBVIOUS
<1> HIDE DEF n, rest
<1>3. ASSUME NEW i \in 1 .. n - 1, rest[i].bLast
      PROVE  i = n - 1
  <2>1. i + 1 = n
    BY <1>1, <1>2, <1>3
  <2> QED
    BY <1>1, <2>1
<1>4. ASSUME Head(q).bLast
      PROVE  rest = << >>
  <2>1. n = 1
    BY <1>1, <1>2, <1>4
  <2>2. Len(rest) = 0
    BY <1>1, <2>1
  <2> QED
    BY <1>1, <2>2, EmptySeq
<1> QED
  BY <1>1, <1>3, <1>4 DEF rest

LEMMA PopEntryKept ==
    ASSUME WriteInv, PopEntry
    PROVE  WriteInv'
<1>1. /\ worker = "pop" /\ queue # << >> /\ queue' = Tail(queue) /\ sent' = 0
      /\ worker' = IF Head(queue).bLast THEN "last" ELSE "send"
      /\ UNCHANGED <<taken, rec, bDone, object, main, file, changes, FileSize, hashed, dwMainError,
                     result, bS3AuthV4, bTerminate, bAbort, Error, evWriteComplete, bWorkerDone,
                     chunk, body>>
  BY DEF PopEntry, Pop, UnchangedByWorker, fileVars, mainVars, doneVars
<1>2. /\ queue \in Seq(Entries) /\ taken \in Seq(Nat) /\ sent = Len(Front) /\ sent \in Nat
      /\ body \in Seq(Nat) /\ chunk \in Seq(Nat)
  BY <1>1 DEF WriteInv, WriteTypeOK, OfFront
<1>3. /\ Tail(queue) \in Seq(Entries) /\ Len(queue) \in Nat \ {0} /\ Len(Tail(queue)) = Len(queue) - 1
      /\ \A i \in 1 .. Len(Tail(queue)) : Tail(queue)[i] = queue[i + 1] /\ i + 1 \in 1 .. Len(queue)
      /\ Head(queue) = queue[1] /\ Head(queue) \in Entries /\ 1 \in 1 .. Len(queue)
  BY <1>1, <1>2, TailIs
<1>4. WriteTypeOK'
  BY <1>1, <1>3 DEF WriteInv, WriteTypeOK
<1>5. InOrder'
  <2> DEFINE from == Len(body) + Len(chunk) - sent
             to == Len(taken) - InHand
  <2>1. LaidOut(queue, taken, from, to)
    BY DEF WriteInv, InOrder
  <2>2. from + Len(Front) = Len(body) + Len(chunk) - 0
    BY <1>2, LenIs
  <2> HIDE DEF from, to
  <2>3. LaidOut(Tail(queue), taken, from + Len(Front), to)
    BY <1>1, <1>2, <2>1, LaidPopped DEF Front
  <2>4. to = (Len(taken) - InHand)'
    BY <1>1 DEF to, InHand
  <2> QED
    BY <1>1, <2>2, <2>3, <2>4 DEF WriteInv, InOrder
<1>6. OfFront'
  <2>1. queue' # << >> => 0 <= Len(Front')
    <3> SUFFICES ASSUME queue' # << >> PROVE 0 <= Len(Front')
      OBVIOUS
    <3>1. Head(queue') \in Entries
      BY <1>1, <1>3, TailIs
    <3>2. Front' \in Seq(Nat)
      BY <3>1 DEF Front, Entries
    <3> QED
      BY <3>2, LenIs
  <2> QED
    BY <1>1, <2>1 DEF WriteInv, OfFront
<1>7. LastIsLast'
  <2>1. \A i \in 1 .. Len(queue) : queue[i].bLast => i = Len(queue) /\ bDone /\ main # "push"
    BY DEF WriteInv, LastIsLast
  <2>2. /\ \A i \in 1 .. Len(Tail(queue)) : Tail(queue)[i].bLast => i = Len(Tail(queue))
        /\ Head(queue).bLast => Tail(queue) = << >>
    <3>1. \A i \in 1 .. Len(queue) : queue[i].bLast => i = Len(queue)
      BY <2>1
    <3> QED
      BY <1>1, <1>2, <3>1, LastOfQueue
  <2>3. /\ \A i \in 1 .. Len(Tail(queue)) : Tail(queue)[i].bLast => bDone /\ main # "push"
        /\ Head(queue).bLast => bDone /\ main # "push"
    BY <1>3, <2>1
  <2> QED
    BY <1>1, <2>2, <2>3 DEF WriteInv, LastIsLast
<1>8. Places' /\ Created' /\ Compared'
  BY <1>1 DEF WriteInv, Places, Created, Compared
<1> QED
  BY <1>4, <1>5, <1>6, <1>7, <1>8 DEF WriteInv

(* When the last entry has been popped everything is sent or in the chunk. *)
LEMMA AllForwarded ==
    ASSUME WriteInv, worker \in {"last", "response"}
    PROVE  Len(body) + Len(chunk) = Len(taken)
<1>1. queue = << >> /\ main # "push" /\ sent = 0
  BY DEF WriteInv, LastIsLast, OfFront
<1>2. InHand = 0
  BY <1>1 DEF InHand
<1>3. LaidOut(<< >>, taken, Len(body) + Len(chunk) - sent, Len(taken) - InHand)
  BY <1>1 DEF WriteInv, InOrder
<1>4. Len(body) + Len(chunk) - sent = Len(taken) - InHand
  BY <1>3, LaidEmpty
<1>5. Len(body) \in Nat /\ Len(chunk) \in Nat /\ Len(taken) \in Nat
  BY LenIs DEF WriteInv, WriteTypeOK
<1> QED
  BY <1>1, <1>2, <1>4, <1>5

LEMMA SendLastKept ==
    ASSUME WriteInv, SendLast
    PROVE  WriteInv'
<1>1. /\ worker = "last" /\ body' = body \o chunk /\ chunk' = << >> /\ worker' = "response"
      /\ UNCHANGED Others /\ sent' = sent
  BY DEF SendLast, UnchangedByWorker, queueVars, fileVars, mainVars, doneVars, Others
<1>2. /\ taken \in Seq(Nat) /\ body \in Seq(Nat) /\ chunk \in Seq(Nat)
      /\ Len(taken) \in Nat /\ Len(body) \in Nat /\ Len(chunk) \in Nat
      /\ Len(body) + Len(chunk) = Len(taken)
  BY <1>1, LenIs, AllForwarded DEF WriteInv, WriteTypeOK
<1>3. Lies(body, taken, 0) /\ Lies(chunk, taken, 0 + Len(body))
  <2>1. 0 + Len(body) = Len(body)
    BY <1>2
  <2> QED
    BY <2>1 DEF WriteInv, InOrder
<1>4. /\ Lies(body \o chunk, taken, 0) /\ body \o chunk \in Seq(Nat)
      /\ Len(body \o chunk) = Len(body) + Len(chunk)
  BY <1>2, <1>3, LiesJoined, ConcatIs
<1>5. Lies(<< >>, taken, Len(body \o chunk))
  <2>1. Len(body \o chunk) \in Nat /\ Len(body \o chunk) <= Len(taken)
    BY <1>2, <1>4
  <2> QED
    BY <1>2, <2>1, LiesNothing
<1>6. WriteTypeOK'
  <2>1. {file, taken, chunk, body}' \subseteq Seq(Nat)
    BY <1>1, <1>4, EmptyIs DEF WriteInv, WriteTypeOK, Others
  <2> QED
    BY <1>1, <2>1 DEF WriteInv, WriteTypeOK, Others
<1>7. InOrder'
  <2>1. Len(body') + Len(chunk') - sent' = Len(body) + Len(chunk) - sent
    <3>1. /\ Len(chunk') = 0 /\ Len(body') = Len(body) + Len(chunk)
          /\ sent' = sent /\ sent \in Nat
      BY <1>1, <1>4, EmptyIs DEF WriteInv, WriteTypeOK
    <3> QED
      BY <1>2, <3>1
  <2> QED
    BY <1>1, <1>4, <1>5, <2>1 DEF WriteInv, InOrder, InHand, Others
<1>8. OfFront'
  <2>1. Len(chunk') < ChunkSize
    BY <1>1, EmptyIs, StreamWriteAssumption
  <2> QED
    BY <1>1, <2>1 DEF WriteInv, OfFront, Front, Others
<1>9. LastIsLast' /\ Places' /\ Created' /\ Compared'
  BY <1>1 DEF WriteInv, LastIsLast, Places, Created, Compared, Others
<1> QED
  BY <1>6, <1>7, <1>8, <1>9 DEF WriteInv

(* The server has the whole body; what it stores is its first FileSize     *)
(* records.                                                                *)
LEMMA ServerAnswersKept ==
    ASSUME WriteInv, ServerAnswers
    PROVE  WriteInv'
<1> DEFINE received == SubSeq(body, 1, Least(Len(body), FileSize))
<1>1. /\ worker = "response" /\ worker' = "event"
      /\ UNCHANGED <<queue, taken, rec, bDone, main, file, changes, FileSize, hashed, dwMainError,
                     result, bS3AuthV4, bTerminate, bAbort, evWriteComplete, bWorkerDone,
                     sent, chunk, body>>
      /\ Error' \in {"none", "comm", "http"}
  BY DEF ServerAnswers, CreateReturns, UnchangedByWorker, queueVars, fileVars, mainVars
<1>2. /\ Error' \in {"none", "comm"} =>
           Len(body) >= FileSize /\ hashed \in {None, received} /\ object' = received
      /\ object' \in {object, received}
  BY DEF ServerAnswers, CreateReturns
<1>3. /\ taken \in Seq(Nat) /\ body \in Seq(Nat) /\ Len(body) \in Nat /\ FileSize \in Nat
      /\ Lies(body, taken, 0)
  BY LenIs DEF WriteInv, WriteTypeOK, InOrder
<1>4. body = taken
  <2>1. Len(chunk) = 0
    BY <1>1, EmptyIs DEF WriteInv, LastIsLast
  <2>2. Len(body) = Len(taken)
    BY <1>1, <1>3, <2>1, AllForwarded
  <2> QED
    BY <1>3, <2>2, LiesWhole
<1>5. received \in Seq(Nat)
  <2> DEFINE m == Least(Len(body), FileSize)
  <2>1. m \in Nat /\ m <= Len(body)
    BY <1>3, LeastIs
  <2> HIDE DEF m
  <2>2. SubSeq(body, 0 + 1, 0 + m) \in Seq(Nat)
    BY <1>3, <2>1, PartIs
  <2>3. 0 + 1 = 1 /\ 0 + m = m
    BY <2>1
  <2> QED
    BY <2>2, <2>3 DEF m
<1>6. Len(body) >= FileSize => received = SubSeq(taken, 1, FileSize)
  <2>1. Len(body) >= FileSize => Least(Len(body), FileSize) = FileSize
    BY <1>3 DEF Least
  <2> QED
    BY <1>4, <2>1
<1> HIDE DEF received
<1>7. WriteTypeOK'
  <2>1. {hashed, object}' \subseteq Seq(Nat) \cup {None}
    BY <1>1, <1>2, <1>5 DEF WriteInv, WriteTypeOK
  <2> QED
    BY <1>1, <2>1 DEF WriteInv, WriteTypeOK
<1>8. InOrder' /\ OfFront'
  BY <1>1, DataKept DEF WriteInv, Data
<1>9. LastIsLast' /\ Places' /\ Compared'
  BY <1>1 DEF WriteInv, LastIsLast, Places, Compared
<1>10. Created'
  <2>1. bDone /\ main # "push"
    BY <1>1 DEF WriteInv, LastIsLast
  <2> QED
    BY <1>1, <1>2, <1>3, <1>4, <1>6, <2>1 DEF Created
<1> QED
  BY <1>7, <1>8, <1>9, <1>10 DEF WriteInv

-----------------------------------------------------------------------------
(* The invariant holds.                                                    *)

LEMMA WriteStepKept == WriteInv /\ [WriteNext]_writeVars => WriteInv'
<1> SUFFICES ASSUME WriteInv, [WriteNext]_writeVars PROVE WriteInv'
  OBVIOUS
<1>1. CASE WriteMain
  BY <1>1, StatFileKept, CalcUploadChecksumKept, CreateThreadKept, MainKept, ReadFileKept,
     PushEntryKept
     DEF WriteMain
<1>2. CASE WriteWorker
  BY <1>2, WorkerKept, SendPieceV4Kept, SendPieceKept, PopEntryKept, SendLastKept,
     ServerAnswersKept
     DEF WriteWorker
<1>3. CASE FileChanges \/ AbortRequested \/ AllTerminate
  BY <1>3, OutsideKept
<1>4. CASE UNCHANGED writeVars
  <2>1. /\ UNCHANGED Data
        /\ UNCHANGED <<file, changes, worker, main, Error, dwMainError, result, object, FileSize,
                       hashed, evWriteComplete, bWorkerDone, bTerminate, bAbort>>
    BY <1>4 DEF writeVars, queueVars, fileVars, mainVars, sendVars, doneVars, Data
  <2>2. InOrder' /\ OfFront'
    BY <2>1, DataKept DEF WriteInv
  <2>3. WriteTypeOK'
    BY <2>1 DEF WriteInv, WriteTypeOK, Data
  <2>4. LastIsLast' /\ Places' /\ Created' /\ Compared'
    BY <2>1 DEF WriteInv, LastIsLast, Places, Created, Compared, Data
  <2> QED
    BY <2>2, <2>3, <2>4 DEF WriteInv
<1> QED
  BY <1>1, <1>2, <1>3, <1>4 DEF WriteNext

(* The invariant behind the upload: what is sent, gathered, queued and     *)
(* held is, in order, what was read, and the last entry is the last.       *)
THEOREM WriteInductive == WriteSpec => []WriteInv
  BY WriteStart, WriteStepKept, PTL DEF WriteSpec

(* Type correctness of S3Write, its worker and what they hold.             *)
THEOREM WriteTypeCorrect == WriteSpec => []WriteTypeOK
<1>1. WriteInv => WriteTypeOK
  BY DEF WriteInv
<1> QED
  BY <1>1, WriteInductive, PTL

(* When S3Write returns success the server has what was read, which is as  *)
(* long as the file was at the beginning and fits the checksum, for files  *)
(* of any size, whoever changed the file meanwhile.                        *)
THEOREM SuccessMeansStoredHolds == WriteSpec => []SuccessMeansStored
<1>1. WriteInv => SuccessMeansStored
  <2> SUFFICES ASSUME WriteInv, main = "returned", result = "none"
               PROVE  object = taken /\ Len(object) = FileSize /\ hashed \in {None, object}
    BY DEF SuccessMeansStored
  <2>1. evWriteComplete /\ FileSize = Len(taken) /\ Error = "none"
    BY DEF WriteInv, Compared
  <2>2. object = SubSeq(taken, 1, Len(taken)) /\ hashed \in {None, object}
    BY <2>1 DEF WriteInv, Created
  <2>3. taken \in Seq(Nat)
    BY DEF WriteInv, WriteTypeOK
  <2>4. object = taken
    BY <2>2, <2>3, SubSeqAll
  <2> QED
    BY <2>1, <2>2, <2>4
<1> QED
  BY <1>1, WriteInductive, PTL

-----------------------------------------------------------------------------
(* The refinement of Transfer.                                             *)

(* A step that neither reads, sends nor returns.                           *)
LEMMA UploadStutters ==
    ASSUME UNCHANGED <<taken, body, result>>, main = "returned" <=> main' = "returned"
    PROVE  UNCHANGED Upload!transferVars
  BY DEF Upload!transferVars

LEMMA ReadRefines ==
    ASSUME WriteInv, NEW d \in Seq(Nat), taken' = taken \o d, UNCHANGED body,
           main # "returned", main' # "returned"
    PROVE  [Upload!TransferNext]_Upload!transferVars
<1>1. taken \in Seq(Nat)
  BY DEF WriteInv, WriteTypeOK
<1>2. Upload!IsPrefixOf(taken, taken')
  BY <1>1, PrefixOfConcat DEF Upload!IsPrefixOf
<1>3. CASE taken' = taken
  BY <1>3 DEF Upload!transferVars
<1>4. CASE taken' # taken
  <2>1. Upload!Take
    BY <1>2, <1>4 DEF Upload!Take
  <2> QED
    BY <2>1 DEF Upload!TransferNext
<1> QED
  BY <1>3, <1>4

LEMMA SendRefines ==
    ASSUME WriteInv, WriteInv', NEW d \in Seq(Nat), body' = body \o d,
           UNCHANGED <<taken, main, result>>, main # "returned"
    PROVE  [Upload!TransferNext]_Upload!transferVars
<1>1. /\ body \in Seq(Nat) /\ taken \in Seq(Nat) /\ body' \in Seq(Nat)
      /\ Lies(body', taken, 0)
  BY DEF WriteInv, WriteTypeOK, InOrder
<1>2. Upload!IsPrefixOf(body, body')
  BY <1>1, PrefixOfConcat DEF Upload!IsPrefixOf
<1>3. Upload!IsPrefixOf(body', taken)
  BY <1>1, LiesInFront DEF Upload!IsPrefixOf
<1>4. CASE body' = body
  BY <1>4 DEF Upload!transferVars
<1>5. CASE body' # body
  <2>1. Upload!Write
    BY <1>2, <1>3, <1>5 DEF Upload!Write
  <2> QED
    BY <2>1 DEF Upload!TransferNext
<1> QED
  BY <1>4, <1>5

LEMMA ReturnRefines ==
    ASSUME WriteInv', UNCHANGED <<taken, body>>, main # "returned", main' = "returned"
    PROVE  [Upload!TransferNext]_Upload!transferVars
<1>1. result' = "none" => body = taken
  BY DEF WriteInv, Compared, Created
<1>2. Upload!End
  BY <1>1 DEF Upload!End
<1> QED
  BY <1>2 DEF Upload!TransferNext

LEMMA UploadMainRefines ==
    ASSUME WriteInv, WriteInv', WriteMain
    PROVE  [Upload!TransferNext]_Upload!transferVars
<1>1. CASE ReadFile
  <2> DEFINE data == SubSeq(file, Len(taken) + 1, Least(Len(taken) + BufSize, Len(file)))
  <2>1. /\ taken' = taken \o data /\ UNCHANGED body /\ main # "returned" /\ main' # "returned"
        /\ rec'.data = data
    <3>1. PICK sFalse \in BOOLEAN : rec' = [data |-> data, bLast |-> (sFalse \/ data = << >>)]
      BY <1>1 DEF ReadFile
    <3>2. taken' = taken \o data /\ main = "read" /\ main' = "push"
      BY <1>1 DEF ReadFile
    <3>3. UNCHANGED body
      BY <1>1 DEF ReadFile, UnchangedByMain, sendVars
    <3> QED
      BY <3>1, <3>2, <3>3
  <2>2. data \in Seq(Nat)
    <3>1. rec' \in Entries
      BY DEF WriteInv, WriteTypeOK
    <3> QED
      BY <2>1, <3>1 DEF Entries
  <2> HIDE DEF data
  <2> QED
    BY <2>1, <2>2, ReadRefines
<1>2. CASE ~ReadFile
  <2>1. UNCHANGED <<taken, body>> /\ main # "returned"
    BY <1>2 DEF WriteMain, StatFile, CalcUploadChecksum, CreateThread, SeekFile, LoopTest,
       ReadFileFails, PushWaits, PushEntry, MainWait, MainWaitFailed, SizeTest, MainKill,
       MainReturns, UnchangedByMain, sendVars, mainVars
  <2>2. CASE main' = "returned"
    BY <2>1, <2>2, ReturnRefines
  <2>3. CASE main' # "returned"
    BY <2>1, <2>3 DEF Upload!transferVars
  <2> QED
    BY <2>2, <2>3
<1> QED
  BY <1>1, <1>2

LEMMA UploadWorkerRefines ==
    ASSUME WriteInv, WriteInv', WriteWorker
    PROVE  [Upload!TransferNext]_Upload!transferVars
<1>1. UNCHANGED <<taken, main, result>>
  BY DEF WriteWorker, WorkerStarts, SendHeaders, WorkerFails, WorkerHangs, SendPieceV4, SendPiece, PopEntry,
     SendLast, ServerAnswers, SetWriteComplete, SetWorkerDone, WorkerExits, UnchangedByWorker,
     mainVars
<1>2. CASE SendPieceV4 \/ SendPiece
  <2>1. worker = "send" /\ queue # << >>
    BY <1>2 DEF SendPieceV4, SendPiece
  <2>2. main # "returned"
    BY <2>1 DEF WriteInv, Places
  <2>3. /\ Len(Front) \in Nat /\ sent \in Nat /\ sent <= Len(Front)
        /\ body \in Seq(Nat) /\ chunk \in Seq(Nat)
    BY <2>1, FrontIs
  <2>4. ASSUME NEW n \in Nat, sent + n <= Len(Front)
        PROVE  /\ SubSeq(Front, sent + 1, sent + n) \in Seq(Nat)
               /\ chunk \o SubSeq(Front, sent + 1, sent + n) \in Seq(Nat)
    BY <2>1, <2>3, <2>4, PieceMoves, ConcatIs
  <2>5. CASE SendPiece
    <3> DEFINE n == Least(Len(Front) - sent, MaxWriteRequest)
    <3>1. n \in Nat /\ sent + n <= Len(Front)
      <4>1. Len(Front) - sent \in Nat /\ MaxWriteRequest \in Nat
        BY <2>3, StreamWriteAssumption
      <4>2. n \in Nat /\ n <= Len(Front) - sent
        BY <4>1, LeastIs
      <4> HIDE DEF n
      <4> QED
        BY <2>3, <4>2
    <3>2. body' = body \o SubSeq(Front, sent + 1, sent + n)
      BY <2>5 DEF SendPiece
    <3> HIDE DEF n
    <3> QED
      BY <1>1, <2>2, <2>4, <3>1, <3>2, SendRefines
  <2>6. CASE SendPieceV4
    <3> DEFINE n == Least(Len(Front) - sent, ChunkSize - Len(chunk))
    <3>1. n \in Nat /\ sent + n <= Len(Front)
      <4>1. Len(chunk) < ChunkSize /\ ChunkSize \in Nat /\ Len(chunk) \in Nat
        BY <2>3, LenIs, StreamWriteAssumption DEF WriteInv, OfFront
      <4> QED
        BY <2>3, <4>1, LeastIs
    <3>2. body' \in {body \o (chunk \o SubSeq(Front, sent + 1, sent + n)), body}
      BY <2>6 DEF SendPieceV4
    <3> HIDE DEF n
    <3>3. CASE body' = body
      BY <1>1, <3>3, UploadStutters
    <3>4. CASE body' = body \o (chunk \o SubSeq(Front, sent + 1, sent + n))
      BY <1>1, <2>2, <2>4, <3>1, <3>4, SendRefines
    <3> QED
      BY <3>2, <3>3, <3>4
  <2> QED
    BY <1>2, <2>5, <2>6
<1>3. CASE SendLast
  <2>1. body' = body \o chunk /\ worker = "last"
    BY <1>3 DEF SendLast
  <2>2. main # "returned" /\ chunk \in Seq(Nat)
    BY <2>1 DEF WriteInv, Places, WriteTypeOK
  <2> QED
    BY <1>1, <2>1, <2>2, SendRefines
<1>4. CASE ~(SendPieceV4 \/ SendPiece \/ SendLast)
  <2>1. UNCHANGED body
    BY <1>4 DEF WriteWorker, WorkerStarts, SendHeaders, WorkerFails, WorkerHangs, PopEntry,
       ServerAnswers, SetWriteComplete, SetWorkerDone, WorkerExits
  <2> QED
    BY <1>1, <2>1, UploadStutters
<1> QED
  BY <1>2, <1>3, <1>4

LEMMA UploadStepRefines ==
    WriteInv /\ WriteInv' /\ [WriteNext]_writeVars
        => [Upload!TransferNext]_Upload!transferVars
<1> SUFFICES ASSUME WriteInv, WriteInv', [WriteNext]_writeVars
             PROVE  [Upload!TransferNext]_Upload!transferVars
  OBVIOUS
<1>1. CASE WriteMain
  BY <1>1, UploadMainRefines
<1>2. CASE WriteWorker
  BY <1>2, UploadWorkerRefines
<1>3. CASE FileChanges \/ AbortRequested \/ AllTerminate \/ UNCHANGED writeVars
  <2>1. UNCHANGED <<mainVars, sendVars>>
    BY <1>3 DEF FileChanges, AbortRequested, AllTerminate, writeVars
  <2>2. UNCHANGED <<taken, body, result, main>>
    BY <2>1 DEF mainVars, sendVars
  <2> QED
    BY <2>2, UploadStutters
<1> QED
  BY <1>1, <1>2, <1>3 DEF WriteNext

LEMMA UploadInitRefines == WriteInit => Upload!TransferInit
  BY DEF WriteInit, Upload!TransferInit

(* S3Write implements Transfer: the records read are sent in order, none   *)
(* lost or doubled, whatever the sizes of buffers, chunks and writes, and  *)
(* success means that all of them were.                                    *)
THEOREM UploadRefines == WriteSpec => UploadsInOrder
<1>1. WriteInit /\ [][WriteNext]_writeVars => []WriteInv
  BY WriteInductive DEF WriteSpec
<1> QED
  BY <1>1, UploadStepRefines, UploadInitRefines, PTL
     DEF WriteSpec, UploadsInOrder, Upload!TransferSpec
=============================================================================
