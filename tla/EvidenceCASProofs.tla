--------------------------- MODULE EvidenceCASProofs ---------------------------
(***************************************************************************)
(* The evidence store keeps its maps in agreement and what it accepted,    *)
(* for any envelopes and payloads and any number of puts, failures,        *)
(* crashes, restarts and prunes.                                           *)
(***************************************************************************)
EXTENDS EvidenceCAS, EvidenceContractProofs, FiniteSetTheorems, FunctionTheorems,
        SequenceTheorems, TLAPS

(***************************************************************************)
(* Sequences that list a finite set.                                       *)
(***************************************************************************)

\* What a sequence of SetToSeqs lists: the set, all of it and nothing else.
LEMMA SetToSeqsLists ==
    ASSUME NEW S, IsFiniteSet(S), NEW f \in SetToSeqs(S)
    PROVE  /\ f \in Seq(S)
           /\ \A x \in S : \E i \in 1 .. Len(f) : f[i] = x
<1> DEFINE n == Cardinality(S)
<1>1. n \in Nat
  BY FS_CardinalityType
<1>2. f \in [1 .. n -> S] /\ \A i, j \in 1 .. n : i # j => f[i] # f[j]
  BY DEF SetToSeqs
<1>3. f \in Injection(1 .. n, S)
  BY <1>2, Fun_IsInj
<1>4. Cardinality(1 .. n) = Cardinality(S)
  BY <1>1, FS_Interval
<1>5. f \in Surjection(1 .. n, S)
  <2> HIDE DEF n
  <2> QED
    BY <1>3, <1>4, FS_Injection
<1>6. \A x \in S : \E i \in 1 .. n : f[i] = x
  BY <1>5 DEF Surjection
<1> HIDE DEF n
<1>7. f \in Seq(S) /\ Len(f) = n
  BY <1>1, <1>2
<1> QED
  BY <1>6, <1>7

\* A sequence of Orders lists the keys, all of them and nothing else.
LEMMA OrdersList ==
    ASSUME NEW keys, IsFiniteSet(keys), NEW early, NEW f \in Orders(keys, early)
    PROVE  /\ f \in Seq(keys)
           /\ \A x \in keys : \E i \in 1 .. Len(f) : f[i] = x
<1>1. PICK ds \in SetToSeqs(keys \cap early), more \in SetToSeqs(keys \ early) :
        f = ds \o more
  BY DEF Orders
<1>2. IsFiniteSet(keys \cap early) /\ IsFiniteSet(keys \ early)
  BY FS_Subset
<1>3. /\ ds \in Seq(keys \cap early)
      /\ \A x \in keys \cap early : \E i \in 1 .. Len(ds) : ds[i] = x
  BY <1>2, SetToSeqsLists
<1>4. /\ more \in Seq(keys \ early)
      /\ \A x \in keys \ early : \E i \in 1 .. Len(more) : more[i] = x
  BY <1>2, SetToSeqsLists
<1>5. ds \in Seq(keys) /\ more \in Seq(keys)
  BY <1>3, <1>4, SeqMonotonic
<1>6. /\ f \in Seq(keys)
      /\ Len(f) = Len(ds) + Len(more)
      /\ \A i \in 1 .. Len(ds) + Len(more) :
            f[i] = IF i <= Len(ds) THEN ds[i] ELSE more[i - Len(ds)]
  BY <1>1, <1>5, ConcatProperties
<1>7. ASSUME NEW x \in keys PROVE \E i \in 1 .. Len(f) : f[i] = x
  <2>1. CASE x \in early
    <3>1. PICK i \in 1 .. Len(ds) : ds[i] = x
      BY <1>3, <2>1
    <3> QED
      BY <1>5, <1>6, <3>1
  <2>2. CASE x \notin early
    <3>1. PICK i \in 1 .. Len(more) : more[i] = x
      BY <1>4, <2>2
    <3>2. Len(ds) + i \in 1 .. Len(f) /\ f[Len(ds) + i] = more[i]
      BY <1>5, <1>6
    <3> QED
      BY <3>1, <3>2
  <2> QED
    BY <2>1, <2>2
<1> QED
  BY <1>6, <1>7

(***************************************************************************)
(* Digests.                                                                *)
(***************************************************************************)

\* The fields an envelope has.
LEMMA EnvelopeFields ==
    ASSUME NEW e \in Envelopes
    PROVE  /\ e = [id |-> e.id, subject |-> e.subject,
                   capturedAt |-> e.capturedAt, uri |-> e.uri]
           /\ e.subject \in Subjects
           /\ e.capturedAt \in Int
<1>1. e \in [id : {x.id : x \in Envelopes}, subject : {x.subject : x \in Envelopes},
             capturedAt : Int, uri : {x.uri : x \in Envelopes}]
  BY CASAssumption
<1> QED
  BY <1>1 DEF Subjects

\* Digest leaves out the URI and nothing else: envelopes with one digest agree
\* on ID, subject and capture time.
LEMMA DigestKeepsFields ==
    ASSUME NEW e \in Envelopes, NEW x \in Envelopes, Digest(e) = Digest(x)
    PROVE  e.id = x.id /\ e.subject = x.subject /\ e.capturedAt = x.capturedAt
<1>1. [e EXCEPT !.uri = ""] = [x EXCEPT !.uri = ""]
  BY DEF Digest
<1>2. ASSUME NEW y \in Envelopes
      PROVE  /\ [y EXCEPT !.uri = ""].id = y.id
             /\ [y EXCEPT !.uri = ""].subject = y.subject
             /\ [y EXCEPT !.uri = ""].capturedAt = y.capturedAt
  BY EnvelopeFields
<1> QED
  BY <1>1, <1>2

\* No two kinds of hash collide, and the hash of the JSON names one envelope.
LEMMA HashesDiffer ==
    ASSUME NEW e, NEW x
    PROVE  /\ JsonHash(e) = JsonHash(x) => e = x
           /\ JsonHash(e) # Digest(x)
           /\ JsonHash(e) # CompactHash(x)
           /\ JsonHash(e) # PayloadHash(x)
BY DEF JsonHash, Digest, CompactHash, PayloadHash

(***************************************************************************)
(* The inductive invariant.  TypeOK, MapsAgree and ListedIsDurable are     *)
(* nearly inductive as they stand; AcceptedIsKept is not.  It needs that   *)
(* accepted evidence is on disk, that the bytes filed under the hash of an *)
(* envelope's JSON are that JSON, and that memory holds an envelope of the *)
(* same digest (after a restart perhaps a copy with another URI).          *)
(***************************************************************************)

\* The maps and the directory are finite, and the index lists keys.
Shapes ==
    /\ IsFiniteSet(files) /\ IsFiniteSet(DOMAIN envelopes)
    /\ acked \subseteq files /\ files \subseteq Envelopes
    /\ subjectIndex \in [Subjects -> Seq(DOMAIN envelopes)]

\* What is filed under the hash of an envelope's JSON is that JSON.
BytesMatch ==
    \A e \in Envelopes : JsonHash(e) \in DOMAIN blobs => blobs[JsonHash(e)] = JsonHash(e)

\* Of accepted evidence, an envelope with its digest is in memory.
AcceptedInMemory ==
    running => \A e \in acked : \E d \in DOMAIN envelopes :
        Digest(envelopes[d]) = Digest(e)

CASInv ==
    /\ TypeOK
    /\ Shapes
    /\ MapsAgree
    /\ BytesMatch
    /\ AcceptedInMemory
    /\ ListedIsDurable

\* An index of the map m lists keys of m, and of each subject exactly those
\* about it.
LEMMA IndexesAgree ==
    ASSUME NEW m, IsFiniteSet(DOMAIN m), NEW early, NEW index \in Indexes(m, early)
    PROVE  /\ index \in [Subjects -> Seq(DOMAIN m)]
           /\ \A s \in Subjects :
                {index[s][i] : i \in DOMAIN index[s]}
                    = {d \in DOMAIN m : m[d].subject = s}
<1>1. ASSUME NEW s \in Subjects
      PROVE  /\ index[s] \in Seq(KeysAbout(m, s))
             /\ \A x \in KeysAbout(m, s) : \E i \in 1 .. Len(index[s]) : index[s][i] = x
  <2>1. index[s] \in Orders(KeysAbout(m, s), early)
    BY DEF Indexes
  <2>2. IsFiniteSet(KeysAbout(m, s))
    BY FS_Subset DEF KeysAbout
  <2> QED
    BY <2>1, <2>2, OrdersList
<1>2. ASSUME NEW s \in Subjects PROVE index[s] \in Seq(DOMAIN m)
  <2>1. KeysAbout(m, s) \subseteq DOMAIN m
    BY DEF KeysAbout
  <2> QED
    BY <1>1, <2>1, SeqMonotonic
<1>3. index \in [Subjects -> Seq(DOMAIN m)]
  <2>1. index \in [Subjects -> UNION {Orders(KeysAbout(m, s), early) : s \in Subjects}]
    BY DEF Indexes
  <2> QED
    BY <1>2, <2>1
<1>4. ASSUME NEW s \in Subjects
      PROVE  {index[s][i] : i \in DOMAIN index[s]} = KeysAbout(m, s)
  <2>1. DOMAIN index[s] = 1 .. Len(index[s])
    BY <1>1
  <2>2. \A i \in 1 .. Len(index[s]) : index[s][i] \in KeysAbout(m, s)
    BY <1>1
  <2> QED
    BY <1>1, <2>1, <2>2
<1> QED
  BY <1>3, <1>4 DEF KeysAbout

\* The set {Digest(e) : e \in es} is finite when es is.
LEMMA FinitelyManyDigests ==
    ASSUME NEW es, IsFiniteSet(es)
    PROVE  IsFiniteSet({Digest(e) : e \in es})
<1> DEFINE f == [e \in es |-> Digest(e)]
           T == {Digest(e) : e \in es}
<1>1. f \in Surjection(es, T)
  BY DEF Surjection
<1> HIDE DEF f, T
<1>2. IsFiniteSet(T)
  BY <1>1, FS_Surjection
<1> QED
  BY <1>2 DEF T

\* The invariant gives what AcceptedIsKept says: of the positions in the index
\* with the ID of accepted evidence, the first is the one ListBySubject takes.
LEMMA InvariantKeepsAccepted == CASInv => AcceptedIsKept
<1> SUFFICES ASSUME CASInv, NEW e \in acked
             PROVE  /\ Verify(JsonHash(e))
                    /\ running => \E x \in ListBySubject(e.subject) : x.id = e.id
  BY DEF AcceptedIsKept
<1>1. e \in files /\ e \in Envelopes
  BY DEF CASInv, Shapes
<1>2. Verify(JsonHash(e))
  BY <1>1 DEF CASInv, BytesMatch, Verify, Get
<1>3. ASSUME running PROVE \E x \in ListBySubject(e.subject) : x.id = e.id
  <2> DEFINE s == e.subject
             ds == subjectIndex[s]
             T == {i \in 1 .. Len(ds) : envelopes[ds[i]].id = e.id}
  <2>1. PICK d \in DOMAIN envelopes : Digest(envelopes[d]) = Digest(e)
    BY <1>3 DEF CASInv, AcceptedInMemory
  <2>2. envelopes[d] \in Envelopes
    BY DEF CASInv, TypeOK
  <2>3. envelopes[d].id = e.id /\ envelopes[d].subject = s
    BY <1>1, <2>1, <2>2, DigestKeepsFields
  <2>4. s \in Subjects
    BY <1>1, EnvelopeFields
  <2>5. ds \in Seq(DOMAIN envelopes)
    BY <2>4 DEF CASInv, Shapes
  <2>6. DOMAIN ds = 1 .. Len(ds) /\ Len(ds) \in Nat
    BY <2>5
  <2>7. d \in {ds[i] : i \in DOMAIN ds}
    BY <2>3, <2>4 DEF CASInv, MapsAgree
  <2>8. \E i \in 1 .. Len(ds) : ds[i] = d
    BY <2>6, <2>7
  <2>9. T # {} /\ T \subseteq Nat
    BY <2>3, <2>6, <2>8
  <2>10. PICK k \in T : \A j \in T : k <= j
    <3> HIDE DEF T
    <3> QED
      BY <2>9, LeastNumber
  <2>11. k \in DOMAIN ds /\ envelopes[ds[k]].id = e.id
    BY <2>6, <2>10
  <2>12. ASSUME NEW j \in 1 .. k - 1 PROVE envelopes[ds[j]].id # envelopes[ds[k]].id
    <3>1. j \in 1 .. Len(ds) /\ ~ (k <= j)
      BY <2>6, <2>10, <2>11
    <3>2. j \notin T
      BY <2>10, <3>1
    <3> QED
      BY <2>11, <3>1, <3>2
  <2>13. envelopes[ds[k]] \in ListBySubject(s)
    BY <2>11, <2>12 DEF ListBySubject
  <2> QED
    BY <2>11, <2>13
<1> QED
  BY <1>2, <1>3

(***************************************************************************)
(* The steps of the store.                                                 *)
(***************************************************************************)

\* The part of the invariant about memory alone.
MemoryInv ==
    /\ \A d \in DOMAIN envelopes :
         /\ envelopes[d] \in Envelopes
         /\ d \in {JsonHash(envelopes[d]), Digest(envelopes[d])}
    /\ IsFiniteSet(DOMAIN envelopes)
    /\ subjectIndex \in [Subjects -> Seq(DOMAIN envelopes)]
    /\ MapsAgree
    /\ BytesMatch

\* The part of the invariant about the directory.
DiskInv ==
    /\ IsFiniteSet(files) /\ files \subseteq Envelopes
    /\ acked \subseteq files
    /\ files \cap torn = {}

\* The two parts, the clock and what relates memory to disk are the invariant.
LEMMA InvariantParts ==
    CASInv <=> /\ MemoryInv /\ DiskInv /\ now \in 0 .. MaxTime
               /\ AcceptedInMemory /\ ListedIsDurable
BY DEF CASInv, TypeOK, Shapes, MemoryInv, DiskInv

\* Without a process there is nothing in memory to be wrong.
LEMMA EmptyMemory ==
    ASSUME envelopes = <<>>, blobs = <<>>, subjectIndex = [s \in Subjects |-> <<>>]
    PROVE  MemoryInv /\ ListedIsDurable
<1>1. DOMAIN envelopes = {} /\ DOMAIN blobs = {}
  OBVIOUS
<1>2. IsFiniteSet(DOMAIN envelopes)
  BY <1>1, FS_EmptySet
<1>3. subjectIndex \in [Subjects -> Seq(DOMAIN envelopes)]
  OBVIOUS
<1>4. ASSUME NEW s \in Subjects
      PROVE  {subjectIndex[s][i] : i \in DOMAIN subjectIndex[s]} = {}
  <2>1. subjectIndex[s] = <<>>
    OBVIOUS
  <2>2. DOMAIN subjectIndex[s] = {}
    BY <2>1
  <2> QED
    BY <2>2
<1> QED
  BY <1>1, <1>2, <1>3, <1>4 DEF MemoryInv, MapsAgree, BytesMatch, ListedIsDurable

\* Put changes the maps together: the new key is in all three, and where it was
\* there before it named the same envelope.
LEMMA RememberKeepsMemory ==
    ASSUME CASInv, NEW e \in Envelopes, Remember(e),
           JsonHash(e) \in DOMAIN blobs',
           DOMAIN blobs \subseteq DOMAIN blobs', BytesMatch'
    PROVE  /\ MemoryInv'
           /\ DOMAIN envelopes' = DOMAIN envelopes \cup {JsonHash(e)}
           /\ envelopes'[JsonHash(e)] = e
           /\ \A d \in DOMAIN envelopes : envelopes'[d] = envelopes[d]
<1> DEFINE h == JsonHash(e)
<1>0. MemoryInv
  BY InvariantParts
<1>1. /\ DOMAIN envelopes' = DOMAIN envelopes \cup {h}
      /\ envelopes'[h] = e
      /\ \A d \in DOMAIN envelopes : d # h => envelopes'[d] = envelopes[d]
  BY DEF Remember, Assign
<1>2. h \in DOMAIN envelopes => envelopes[h] = e
  BY <1>0, HashesDiffer DEF MemoryInv
<1>3. \A d \in DOMAIN envelopes : envelopes'[d] = envelopes[d]
  BY <1>1, <1>2
<1>4. \A d \in DOMAIN envelopes' :
        envelopes'[d] \in Envelopes /\ d \in {JsonHash(envelopes'[d]), Digest(envelopes'[d])}
  BY <1>0, <1>1, <1>3 DEF MemoryInv
<1>5. IsFiniteSet(DOMAIN envelopes')
  BY <1>0, <1>1, FS_AddElement DEF MemoryInv
<1>6. e.subject \in Subjects
  BY EnvelopeFields
<1>7. ASSUME NEW s \in Subjects
      PROVE  subjectIndex[s] \in Seq(DOMAIN envelopes')
  BY <1>0, <1>1, SeqMonotonic DEF MemoryInv
<1>8. /\ DOMAIN subjectIndex' = Subjects
      /\ subjectIndex'[e.subject] = Append(subjectIndex[e.subject], h)
      /\ \A s \in Subjects : s # e.subject => subjectIndex'[s] = subjectIndex[s]
  BY <1>0, <1>6 DEF MemoryInv, Remember
<1>9. subjectIndex' \in [Subjects -> Seq(DOMAIN envelopes')]
  <2>1. ASSUME NEW s \in Subjects PROVE subjectIndex'[s] \in Seq(DOMAIN envelopes')
    <3>1. CASE s # e.subject
      BY <1>7, <1>8, <3>1
    <3>2. CASE s = e.subject
      <4>1. h \in DOMAIN envelopes' /\ subjectIndex[s] \in Seq(DOMAIN envelopes')
        BY <1>1, <1>7
      <4>2. Append(subjectIndex[s], h) \in Seq(DOMAIN envelopes')
        BY <4>1, AppendProperties
      <4> QED
        BY <1>8, <3>2, <4>2
    <3> QED
      BY <3>1, <3>2
  <2>2. subjectIndex' = [s \in Subjects |-> subjectIndex'[s]]
    BY <1>0, <1>6 DEF MemoryInv, Remember
  <2> QED
    BY <2>1, <2>2
<1>10. ASSUME NEW s \in Subjects
       PROVE  {subjectIndex'[s][i] : i \in DOMAIN subjectIndex'[s]}
                = {d \in DOMAIN envelopes' : envelopes'[d].subject = s}
  <2>1. {subjectIndex[s][i] : i \in DOMAIN subjectIndex[s]}
          = {d \in DOMAIN envelopes : envelopes[d].subject = s}
    BY <1>0 DEF MemoryInv, MapsAgree
  <2>2. CASE s # e.subject
    <3>1. {d \in DOMAIN envelopes' : envelopes'[d].subject = s}
            = {d \in DOMAIN envelopes : envelopes[d].subject = s}
      BY <1>1, <1>3, <2>2
    <3> QED
      BY <1>8, <2>1, <2>2, <3>1
  <2>3. CASE s = e.subject
    <3> DEFINE q == subjectIndex[s]
    <3>1. q \in Seq(DOMAIN envelopes') /\ h \in DOMAIN envelopes'
      BY <1>1, <1>7
    <3>2. subjectIndex'[s] = Append(q, h)
      BY <1>8, <2>3
    <3> HIDE DEF q, h
    <3>3. /\ DOMAIN Append(q, h) = 1 .. Len(q) + 1
          /\ DOMAIN q = 1 .. Len(q) /\ Len(q) \in Nat
          /\ \A i \in 1 .. Len(q) : Append(q, h)[i] = q[i]
          /\ Append(q, h)[Len(q) + 1] = h
      BY <3>1
    <3>4. {Append(q, h)[i] : i \in DOMAIN Append(q, h)}
            = {q[i] : i \in DOMAIN q} \cup {h}
      <4>1. \A i \in 1 .. Len(q) + 1 : i \in 1 .. Len(q) \/ i = Len(q) + 1
        BY <3>3
      <4>2. \A i \in 1 .. Len(q) : i \in 1 .. Len(q) + 1
        BY <3>3
      <4>3. Len(q) + 1 \in 1 .. Len(q) + 1
        BY <3>3
      <4> QED
        BY <3>3, <4>1, <4>2, <4>3
    <3>5. {d \in DOMAIN envelopes' : envelopes'[d].subject = s}
            = {d \in DOMAIN envelopes : envelopes[d].subject = s} \cup {h}
      BY <1>1, <1>3, <2>3
    <3> QED
      BY <2>1, <3>2, <3>4, <3>5 DEF q
  <2> QED
    BY <2>2, <2>3
<1>11. DOMAIN envelopes' \subseteq DOMAIN blobs'
  BY <1>0, <1>1 DEF MemoryInv, MapsAgree
<1> QED
  BY <1>1, <1>3, <1>4, <1>5, <1>9, <1>10, <1>11 DEF MemoryInv, MapsAgree

\* What the store knows of the bytes of envelopes survives a Put.
LEMMA PutKeepsBytes ==
    ASSUME BytesMatch, NEW e, NEW p,
           \/ blobs' = Assign(blobs, JsonHash(e), JsonHash(e))
           \/ blobs' = Assign(Assign(blobs, JsonHash(e), JsonHash(e)),
                              PayloadHash(p), PayloadHash(p))
    PROVE  /\ BytesMatch'
           /\ JsonHash(e) \in DOMAIN blobs'
           /\ DOMAIN blobs \subseteq DOMAIN blobs'
<1>1. ASSUME NEW x \in Envelopes, JsonHash(x) \in DOMAIN blobs'
      PROVE  blobs'[JsonHash(x)] = JsonHash(x)
  <2>1. JsonHash(x) # PayloadHash(p)
    BY HashesDiffer
  <2>2. JsonHash(x) \in DOMAIN blobs => blobs[JsonHash(x)] = JsonHash(x)
    BY DEF BytesMatch
  <2>3. CASE blobs' = Assign(blobs, JsonHash(e), JsonHash(e))
    BY <1>1, <2>2, <2>3 DEF Assign
  <2>4. CASE blobs' = Assign(Assign(blobs, JsonHash(e), JsonHash(e)),
                             PayloadHash(p), PayloadHash(p))
    BY <1>1, <2>1, <2>2, <2>4 DEF Assign
  <2> QED
    BY <2>3, <2>4
<1>2. JsonHash(e) \in DOMAIN blobs' /\ DOMAIN blobs \subseteq DOMAIN blobs'
  BY DEF Assign
<1> QED
  BY <1>1, <1>2 DEF BytesMatch

\* A Put keeps the relation of memory to what was accepted, whatever becomes of
\* the file, as long as nothing but e is accepted.
LEMMA PutKeepsAccepted ==
    ASSUME CASInv, NEW e \in Envelopes, Remember(e), acked' \subseteq acked \cup {e},
           DOMAIN envelopes' = DOMAIN envelopes \cup {JsonHash(e)},
           envelopes'[JsonHash(e)] = e,
           \A d \in DOMAIN envelopes : envelopes'[d] = envelopes[d]
    PROVE  AcceptedInMemory'
<1> SUFFICES ASSUME NEW x \in acked'
             PROVE  \E d \in DOMAIN envelopes' : Digest(envelopes'[d]) = Digest(x)
  BY DEF AcceptedInMemory
<1>1. CASE x = e
  BY <1>1
<1>2. CASE x # e
  <2>1. x \in acked /\ running
    BY <1>2 DEF Remember
  <2>2. PICK d \in DOMAIN envelopes : Digest(envelopes[d]) = Digest(x)
    BY <2>1 DEF CASInv, AcceptedInMemory
  <2> QED
    BY <2>2
<1> QED
  BY <1>1, <1>2

\* A Put that leaves e on disk or reports an error keeps the invariant.
LEMMA PutPreserves ==
    ASSUME CASInv, NEW e \in Envelopes, NEW p, Remember(e),
           \/ blobs' = Assign(blobs, JsonHash(e), JsonHash(e))
           \/ blobs' = Assign(Assign(blobs, JsonHash(e), JsonHash(e)),
                              PayloadHash(p), PayloadHash(p)),
           DiskInv', acked' \subseteq acked \cup {e},
           files \ {e} \subseteq files', failed \ {e} \subseteq failed',
           e \in files' \cup failed'
    PROVE  CASInv'
<1>1. BytesMatch /\ now \in 0 .. MaxTime
  BY DEF CASInv, TypeOK
<1>2. /\ BytesMatch' /\ JsonHash(e) \in DOMAIN blobs'
      /\ DOMAIN blobs \subseteq DOMAIN blobs'
  BY <1>1, PutKeepsBytes
<1>3. /\ MemoryInv'
      /\ DOMAIN envelopes' = DOMAIN envelopes \cup {JsonHash(e)}
      /\ envelopes'[JsonHash(e)] = e
      /\ \A d \in DOMAIN envelopes : envelopes'[d] = envelopes[d]
  BY <1>2, RememberKeepsMemory
<1>4. AcceptedInMemory'
  BY <1>3, PutKeepsAccepted
<1>5. ListedIsDurable'
  BY <1>3 DEF CASInv, ListedIsDurable
<1>6. now' \in 0 .. MaxTime
  BY <1>1 DEF Remember
<1> QED
  BY <1>3, <1>4, <1>5, <1>6, InvariantParts DEF MemoryInv, DiskInv, CASInv, TypeOK, Shapes

\* A failed write takes at most the file it was writing, which then no longer
\* counts as accepted.
LEMMA WriteFailureKeepsDisk ==
    ASSUME DiskInv, NEW e, WriteFileFails(e)
    PROVE  /\ DiskInv'
           /\ acked' \subseteq acked
           /\ files \ {e} \subseteq files'
<1>1. CASE UNCHANGED <<files, torn, acked>>
  BY <1>1 DEF DiskInv
<1>2. CASE files' = files \ {e} /\ torn' = torn \cup {e} /\ acked' = acked \ {e}
  BY <1>2, FS_Subset DEF DiskInv
<1> QED
  BY <1>1, <1>2 DEF WriteFileFails

\* Starting again reads back all that was accepted.
LEMMA StartPreserves == CASInv /\ Start => CASInv'
<1> SUFFICES ASSUME CASInv, Start PROVE CASInv'
  OBVIOUS
<1> DEFINE inBlobs == {Digest(e) : e \in files}
           all == inBlobs \cup {Digest(e) : e \in RootEnvelopes}
<1>0. DiskInv /\ now \in 0 .. MaxTime
  BY InvariantParts
<1>1. PICK m \in LoadedMaps :
        /\ envelopes' = m
        /\ blobs' = [d \in DOMAIN m |-> IF m[d] \in files
                                       THEN JsonHash(m[d])
                                       ELSE CompactHash(m[d])]
        /\ subjectIndex' \in Indexes(m, {Digest(e) : e \in files})
  BY DEF Start, loadFromDisk
<1>2. /\ DOMAIN m = all
      /\ \A d \in DOMAIN m : Digest(m[d]) = d /\ m[d] \in files \cup RootEnvelopes
  BY DEF LoadedMaps
<1>3. IsFiniteSet(DOMAIN m)
  <2>1. IsFiniteSet(inBlobs)
    BY <1>0, FinitelyManyDigests DEF DiskInv
  <2> DEFINE inRoot == {Digest(e) : e \in RootEnvelopes}
  <2>2. IsFiniteSet(inRoot)
    BY CASAssumption, FinitelyManyDigests
  <2>3. DOMAIN m = inBlobs \cup inRoot
    BY <1>2
  <2> HIDE DEF inBlobs, inRoot
  <2> QED
    BY <2>1, <2>2, <2>3, FS_Union
<1>4. \A d \in DOMAIN m : m[d] \in Envelopes
  BY <1>0, <1>2, CASAssumption DEF DiskInv
<1>5. /\ subjectIndex' \in [Subjects -> Seq(DOMAIN m)]
      /\ \A s \in Subjects :
           {subjectIndex'[s][i] : i \in DOMAIN subjectIndex'[s]}
               = {d \in DOMAIN m : m[d].subject = s}
  BY <1>1, <1>3, IndexesAgree
<1>6. BytesMatch'
  <2>1. ASSUME NEW e PROVE JsonHash(e) \notin DOMAIN m
    BY <1>2, HashesDiffer
  <2> QED
    BY <1>1, <2>1 DEF BytesMatch
<1>7. MemoryInv'
  BY <1>1, <1>2, <1>3, <1>4, <1>5, <1>6 DEF MemoryInv, MapsAgree
<1>8. DiskInv' /\ now' \in 0 .. MaxTime
  BY <1>0 DEF DiskInv, Start, disk, history
<1>9. AcceptedInMemory'
  <2> SUFFICES ASSUME NEW e \in acked
               PROVE  \E d \in DOMAIN m : Digest(m[d]) = Digest(e)
    BY <1>1 DEF AcceptedInMemory, Start, history
  <2>1. Digest(e) \in DOMAIN m
    BY <1>0, <1>2 DEF DiskInv
  <2> QED
    BY <1>2, <2>1
<1>10. ListedIsDurable'
  BY <1>1, <1>2 DEF ListedIsDurable, Start, disk, history
<1> QED
  BY <1>7, <1>8, <1>9, <1>10 DEF MemoryInv, DiskInv, CASInv, TypeOK, Shapes

\* When the process dies, between two calls or inside a Put, the disk keeps what
\* is still counted as accepted.
LEMMA CrashPreserves ==
    CASInv /\ (Crash \/ \E e \in Envelopes : CrashInPut(e)) => CASInv'
<1> SUFFICES ASSUME CASInv, Crash \/ \E e \in Envelopes : CrashInPut(e)
             PROVE  CASInv'
  OBVIOUS
<1>1. DiskInv /\ now \in 0 .. MaxTime
  BY InvariantParts
<1>2. /\ envelopes' = <<>> /\ blobs' = <<>>
      /\ subjectIndex' = [s \in Subjects |-> <<>>]
      /\ running' = FALSE
      /\ now' = now
  BY DEF Crash, CrashInPut, NoMemory
<1>3. MemoryInv' /\ ListedIsDurable'
  <2>1. DOMAIN envelopes' = {} /\ DOMAIN blobs' = {}
    BY <1>2
  <2>2. IsFiniteSet(DOMAIN envelopes')
    BY <2>1, FS_EmptySet
  <2>3. ASSUME NEW s \in Subjects
        PROVE  {subjectIndex'[s][i] : i \in DOMAIN subjectIndex'[s]} = {}
    BY <1>2
  <2>4. subjectIndex' \in [Subjects -> Seq(DOMAIN envelopes')]
    BY <1>2
  <2> QED
    BY <2>1, <2>2, <2>3, <2>4 DEF MemoryInv, MapsAgree, BytesMatch, ListedIsDurable
<1>4. AcceptedInMemory'
  BY <1>2 DEF AcceptedInMemory
<1>5. DiskInv'
  <2>1. CASE Crash
    BY <1>1, <2>1 DEF DiskInv, Crash, disk, history
  <2>2. CASE \E e \in Envelopes : CrashInPut(e)
    <3>1. PICK e \in Envelopes : WriteFileFails(e)
      BY <2>2 DEF CrashInPut
    <3> QED
      BY <1>1, <3>1, WriteFailureKeepsDisk
  <2> QED
    BY <2>1, <2>2
<1> QED
  BY <1>1, <1>2, <1>3, <1>4, <1>5 DEF MemoryInv, DiskInv, CASInv, TypeOK, Shapes

\* Prune takes from memory and disk only what is expired, and what is expired no
\* longer counts as accepted.
LEMMA PrunePreserves == CASInv /\ (\E maxAge \in Ages : Prune(maxAge)) => CASInv'
<1> SUFFICES ASSUME CASInv, NEW maxAge \in Ages, Prune(maxAge) PROVE CASInv'
  OBVIOUS
<1> DEFINE old == Expired(maxAge)
           kept == Without(envelopes, old)
<1>1. MemoryInv /\ DiskInv /\ now \in 0 .. MaxTime
  BY InvariantParts
<1>2. PICK es \in Removed({e \in Envelopes : JsonHash(e) \in old}) :
        files' = files \ es /\ torn' = torn \ es
  BY DEF Prune
<1>3. es \subseteq {e \in Envelopes : JsonHash(e) \in old}
  BY DEF Removed
<1>4. envelopes' = kept /\ subjectIndex' \in Indexes(kept, DOMAIN kept)
  BY DEF Prune, RebuildIndex
<1>5. /\ DOMAIN kept = DOMAIN envelopes \ old
      /\ \A d \in DOMAIN kept : kept[d] = envelopes[d]
  BY DEF Without
<1>6. /\ DOMAIN blobs' = DOMAIN blobs \ old
      /\ \A d \in DOMAIN blobs' : blobs'[d] = blobs[d]
  BY DEF Prune, Without
<1>7. IsFiniteSet(DOMAIN kept)
  BY <1>1, <1>5, FS_Subset DEF MemoryInv
<1>8. /\ subjectIndex' \in [Subjects -> Seq(DOMAIN kept)]
      /\ \A s \in Subjects :
           {subjectIndex'[s][i] : i \in DOMAIN subjectIndex'[s]}
               = {d \in DOMAIN kept : kept[d].subject = s}
  <2> HIDE DEF kept
  <2> QED
    BY <1>4, <1>7, IndexesAgree
<1>9. ASSUME NEW e \in es PROVE JsonHash(e) \in old /\ envelopes[JsonHash(e)] = e
  <2>1. JsonHash(e) \in old /\ JsonHash(e) \in DOMAIN envelopes
    BY <1>3 DEF Expired
  <2> QED
    BY <1>1, <2>1, HashesDiffer DEF MemoryInv
<1>10. ASSUME NEW d \in DOMAIN envelopes, d \notin old
       PROVE  envelopes[d] \notin es
  BY <1>9, <1>10 DEF Expired
<1>11. \A e \in acked' : e \in acked /\ e.capturedAt >= now - maxAge
  BY DEF Prune
<1>12. now \in Int /\ maxAge \in Int /\ now' = now
  BY <1>1, CASAssumption DEF Prune
<1>13. MemoryInv'
  <2>1. BytesMatch'
    BY <1>1, <1>6 DEF MemoryInv, BytesMatch
  <2>2. DOMAIN envelopes' \subseteq DOMAIN blobs'
    BY <1>1, <1>4, <1>5, <1>6 DEF MemoryInv, MapsAgree
  <2>3. \A d \in DOMAIN kept :
           kept[d] \in Envelopes /\ d \in {JsonHash(kept[d]), Digest(kept[d])}
    BY <1>1, <1>5 DEF MemoryInv
  <2> HIDE DEF kept
  <2> QED
    BY <1>4, <1>7, <1>8, <2>1, <2>2, <2>3 DEF MemoryInv, MapsAgree
<1>14. DiskInv'
  <2>1. IsFiniteSet(files') /\ files' \subseteq Envelopes /\ files' \cap torn' = {}
    BY <1>1, <1>2, FS_Subset DEF DiskInv
  <2>2. ASSUME NEW e \in acked' PROVE e \in files'
    <3>1. e \in files /\ e \in Envelopes /\ e.capturedAt >= now - maxAge
      BY <1>1, <1>11 DEF DiskInv
    <3>2. e \in es => e.capturedAt < now - maxAge
      BY <1>9 DEF Expired
    <3>3. e.capturedAt \in Int
      BY <3>1, EnvelopeFields
    <3> QED
      BY <1>2, <1>12, <3>1, <3>2, <3>3
  <2> QED
    BY <2>1, <2>2 DEF DiskInv
<1>15. AcceptedInMemory'
  <2> SUFFICES ASSUME NEW e \in acked'
               PROVE  \E d \in DOMAIN kept : Digest(kept[d]) = Digest(e)
    BY <1>4 DEF AcceptedInMemory
  <2>1. e \in acked /\ e \in Envelopes /\ running /\ e.capturedAt >= now - maxAge
    BY <1>1, <1>11 DEF Prune, DiskInv
  <2>2. PICK d \in DOMAIN envelopes : Digest(envelopes[d]) = Digest(e)
    BY <2>1 DEF CASInv, AcceptedInMemory
  <2>3. envelopes[d] \in Envelopes
    BY <1>1 DEF MemoryInv
  <2>4. envelopes[d].capturedAt = e.capturedAt
    BY <2>1, <2>2, <2>3, DigestKeepsFields
  <2>5. e.capturedAt \in Int
    BY <2>1, EnvelopeFields
  <2>6. d \notin old
    BY <1>12, <2>1, <2>4, <2>5 DEF Expired
  <2> QED
    BY <1>5, <2>2, <2>6
<1>16. ListedIsDurable'
  <2> SUFFICES ASSUME NEW d \in DOMAIN kept
               PROVE  kept[d] \in files' \cup RootEnvelopes \cup failed'
    BY <1>4 DEF ListedIsDurable
  <2>1. d \in DOMAIN envelopes /\ d \notin old /\ kept[d] = envelopes[d]
    BY <1>5
  <2>2. envelopes[d] \in files \cup RootEnvelopes \cup failed
    BY <2>1 DEF CASInv, ListedIsDurable
  <2>3. envelopes[d] \notin es
    BY <1>10, <2>1
  <2> QED
    BY <1>2, <2>1, <2>2, <2>3 DEF Prune
<1> QED
  BY <1>1, <1>12, <1>13, <1>14, <1>15, <1>16 DEF MemoryInv, DiskInv, CASInv, TypeOK, Shapes

\* The four outcomes of a Put that returns.
LEMMA ReturningPutPreserves ==
    ASSUME CASInv, NEW e \in Envelopes,
           \/ PutEnvelope(e)
           \/ \E p \in Payloads : PutWithPayload(e, p)
           \/ PutFails(e)
           \/ PayloadUnreadable(e)
    PROVE  CASInv'
<1>1. DiskInv
  BY InvariantParts
<1>2. ASSUME files' = files \cup {e}, torn' = torn \ {e}, acked' \subseteq acked \cup {e}
      PROVE  DiskInv'
  <2>1. IsFiniteSet(files')
    BY <1>1, <1>2, FS_AddElement DEF DiskInv
  <2> QED
    BY <1>1, <1>2, <2>1 DEF DiskInv
<1>3. CASE PutEnvelope(e)
  BY <1>2, <1>3, PutPreserves DEF PutEnvelope, Acknowledge
<1>4. CASE \E p \in Payloads : PutWithPayload(e, p)
  BY <1>2, <1>4, PutPreserves DEF PutWithPayload, Acknowledge
<1>5. CASE PutFails(e)
  <2>1. DiskInv' /\ acked' \subseteq acked /\ files \ {e} \subseteq files'
    BY <1>1, <1>5, WriteFailureKeepsDisk DEF PutFails
  <2> QED
    BY <1>5, <2>1, PutPreserves DEF PutFails
<1>6. CASE PayloadUnreadable(e)
  BY <1>2, <1>6, PutPreserves DEF PayloadUnreadable
<1> QED
  BY <1>3, <1>4, <1>5, <1>6

\* The invariant holds in every state of the store.
THEOREM StoreInvariant == Spec => []CASInv
<1>1. Init => CASInv
  <2> SUFFICES ASSUME Init PROVE CASInv
    OBVIOUS
  <2>1. MemoryInv /\ ListedIsDurable
    BY EmptyMemory DEF Init
  <2>2. DiskInv /\ AcceptedInMemory
    BY FS_EmptySet DEF Init, DiskInv, AcceptedInMemory
  <2>3. now \in 0 .. MaxTime
    BY CASAssumption DEF Init
  <2> QED
    BY <2>1, <2>2, <2>3, InvariantParts
<1>2. CASInv /\ [Next]_vars => CASInv'
  <2> SUFFICES ASSUME CASInv, [Next]_vars PROVE CASInv'
    OBVIOUS
  <2>1. CASE Start
    BY <2>1, StartPreserves
  <2>2. CASE Crash \/ \E e \in Envelopes : CrashInPut(e)
    BY <2>2, CrashPreserves
  <2>3. ASSUME NEW e \in Envelopes,
               \/ PutEnvelope(e)
               \/ \E p \in Payloads : PutWithPayload(e, p)
               \/ PutFails(e)
               \/ PayloadUnreadable(e)
        PROVE  CASInv'
    BY <2>3, ReturningPutPreserves
  <2>4. CASE \E maxAge \in Ages : Prune(maxAge)
    BY <2>4, PrunePreserves
  <2>5. CASE Tick
    <3>1. now' \in 0 .. MaxTime
      BY <2>5, CASAssumption DEF Tick, CASInv, TypeOK
    <3> QED
      BY <2>5, <3>1 DEF Tick, memory, disk, history, CASInv, TypeOK, Shapes, MapsAgree,
         BytesMatch, AcceptedInMemory, ListedIsDurable
  <2>6. CASE UNCHANGED vars
    BY <2>6 DEF vars, memory, disk, history, CASInv, TypeOK, Shapes, MapsAgree,
       BytesMatch, AcceptedInMemory, ListedIsDurable
  <2> QED
    BY <2>1, <2>2, <2>3, <2>4, <2>5, <2>6 DEF Next
<1> QED
  BY <1>1, <1>2, PTL DEF Spec

\* Keys in memory are digests of what they name, no file is both intact and torn,
\* and the clock stays in its range, in every state of the store.
THEOREM StoreTypeOK == Spec => []TypeOK
BY StoreInvariant, PTL DEF CASInv

\* The three maps of the store agree after any sequence of puts, failures,
\* crashes, restarts and prunes.
THEOREM StoreMapsAgree == Spec => []MapsAgree
BY StoreInvariant, PTL DEF CASInv

\* What the store accepted stays retrievable, verifies and is listed.
THEOREM StoreKeepsAccepted == Spec => []AcceptedIsKept
BY StoreInvariant, InvariantKeepsAccepted, PTL

\* What the store lists is on disk, unless its last Put returned an error.
THEOREM StoreListsDurable == Spec => []ListedIsDurable
BY StoreInvariant, PTL DEF CASInv

\* The number of puts is a number.
LEMMA PutsCounted == Spec => [](puts \in Nat)
<1>1. Init => puts \in Nat
  BY DEF Init
<1>2. puts \in Nat /\ [Next]_vars => (puts \in Nat)'
  <2> SUFFICES ASSUME puts \in Nat, [Next]_vars PROVE puts' = puts \/ puts' = puts + 1
    OBVIOUS
  <2> QED
    BY DEF Next, vars, Start, Crash, Tick, PutEnvelope, PutWithPayload, PutFails,
           PayloadUnreadable, CrashInPut, Remember, Prune
<1> QED
  BY <1>1, <1>2, PTL DEF Spec

\* No prune takes, from memory or from disk, what is within every retention.
THEOREM StorePruneSparesFresh == Spec => PruneSparesFresh
<1> DEFINE Spared == \A e \in Envelopes :
             (\A age \in Ages : e.capturedAt >= now - age) =>
                 /\ e \in files => e \in files'
                 /\ \A d \in DOMAIN envelopes :
                      envelopes[d] = e => d \in DOMAIN envelopes'
<1>1. CASInv /\ puts \in Nat /\ [Next]_vars
        => [pruned' # pruned /\ puts' = puts => Spared]_vars
  <2> SUFFICES ASSUME CASInv, puts \in Nat, Next, pruned' # pruned, puts' = puts
               PROVE  Spared
    OBVIOUS
  <2>1. PICK maxAge \in Ages : Prune(maxAge)
    <3>1. ~ Start /\ ~ Crash /\ ~ Tick
      BY DEF Start, Crash, Tick, history
    <3>2. ASSUME NEW e \in Envelopes
          PROVE  /\ ~ PutEnvelope(e) /\ ~ PutFails(e)
                 /\ ~ PayloadUnreadable(e) /\ ~ CrashInPut(e)
                 /\ \A p \in Payloads : ~ PutWithPayload(e, p)
      BY DEF PutEnvelope, PutWithPayload, PutFails, PayloadUnreadable, CrashInPut,
             Remember
    <3> QED
      BY <3>1, <3>2 DEF Next
  <2> SUFFICES ASSUME NEW e \in Envelopes, e.capturedAt >= now - maxAge
               PROVE  /\ e \in files => e \in files'
                      /\ \A d \in DOMAIN envelopes :
                           envelopes[d] = e => d \in DOMAIN envelopes'
    OBVIOUS
  <2>2. now \in Int /\ maxAge \in Int /\ e.capturedAt \in Int
    BY CASAssumption, EnvelopeFields DEF CASInv, TypeOK
  <2>3. \A d \in Expired(maxAge) : d \in DOMAIN envelopes /\ envelopes[d] # e
    BY <2>2 DEF Expired
  <2>4. JsonHash(e) \notin Expired(maxAge)
    <3>1. JsonHash(e) \in DOMAIN envelopes => envelopes[JsonHash(e)] = e
      BY HashesDiffer DEF CASInv, TypeOK
    <3> QED
      BY <2>3, <3>1
  <2>5. \E es \in Removed({x \in Envelopes : JsonHash(x) \in Expired(maxAge)}) :
           files' = files \ es
    BY <2>1 DEF Prune
  <2>6. e \in files => e \in files'
    BY <2>4, <2>5 DEF Removed
  <2>7. DOMAIN envelopes' = DOMAIN envelopes \ Expired(maxAge)
    BY <2>1 DEF Prune, Without
  <2> QED
    BY <2>3, <2>6, <2>7
<1> QED
  BY <1>1, StoreInvariant, PutsCounted, PTL DEF Spec, PruneSparesFresh
=============================================================================
