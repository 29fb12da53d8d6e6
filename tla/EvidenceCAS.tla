------------------------------ MODULE EvidenceCAS ------------------------------
(***************************************************************************)
(* The content-addressed evidence store                                    *)
(* (internal/adapters/storage/cas.go): its maps in memory, its directory,  *)
(* and the process that owns them and may die at any time.                 *)
(*                                                                         *)
(* Every method holds the store's mutex, so it is one action, unless the   *)
(* process dies inside it.  SHA-256 is injective.  A file holds what was   *)
(* written or, after a failed or interrupted write, something that does    *)
(* not parse.                                                              *)
(***************************************************************************)
EXTENDS Integers, Sequences, FiniteSets, SequencesExt

CONSTANTS
    Envelopes,      \* [id, subject, capturedAt, uri]
    RootEnvelopes,  \* envelopes listed in JSON files in the base directory
    Payloads,       \* raw payloads
    Ages,           \* values of maxAge for Prune
    RemoveMayFail,  \* os.Remove may return an error
    MaxTime,        \* bound: the clock runs from 0 to MaxTime
    MaxPuts,        \* bound: calls of Put
    MaxStarts       \* bound: times the process is started

ASSUME CASAssumption ==
    /\ Envelopes \subseteq [id : {e.id : e \in Envelopes},
                            subject : {e.subject : e \in Envelopes},
                            capturedAt : Int, uri : {e.uri : e \in Envelopes}]
    /\ RootEnvelopes \subseteq Envelopes /\ IsFiniteSet(RootEnvelopes)
    /\ Ages \subseteq Nat
    /\ RemoveMayFail \in BOOLEAN
    /\ {MaxTime, MaxPuts, MaxStarts} \subseteq Nat

VARIABLES
    running,      \* the process is up
    envelopes,    \* memory: digest -> envelope
    blobs,        \* memory: digest -> hash of the bytes stored under it
    subjectIndex, \* memory: subject -> sequence of digests
    files,        \* disk: envelopes whose <hash>.json is intact
    torn,         \* disk: envelopes whose <hash>.json does not parse
    bins,         \* disk: payloads stored as <hash>.bin
    now,          \* the clock
    acked,        \* history: envelopes the store has accepted and must keep
    failed,       \* history: envelopes whose last Put returned an error
    pruned,       \* history: envelopes that Prune reported as removed
    puts,         \* calls of Put so far
    starts        \* starts so far

memory == <<envelopes, blobs, subjectIndex>>
disk == <<files, torn, bins>>
history == <<acked, failed, pruned>>
vars == <<running, memory, disk, now, history, puts, starts>>

Subjects == {e.subject : e \in Envelopes}

(***************************************************************************)
(* The three digests.  Put names an envelope by the hash of its indented   *)
(* JSON; loadFromDisk by EvidenceEnvelope.Digest(), which leaves out the   *)
(* artifact's URI and media type; and an element of a list is marshalled   *)
(* anew, without indentation.                                              *)
(***************************************************************************)
JsonHash(e) == <<"json", e>>
CompactHash(e) == <<"compact", e>>
Digest(e) == <<"digest", [e EXCEPT !.uri = ""]>>
PayloadHash(p) == <<"payload", [payload |-> p]>>

\* Sets d to v in the map m.
Assign(m, d, v) == [x \in DOMAIN m \cup {d} |-> IF x = d THEN v ELSE m[x]]

Without(m, keys) == [x \in DOMAIN m \ keys |-> m[x]]

\* The keys under which the map m has envelopes about s.
KeysAbout(m, s) == {d \in DOMAIN m : m[d].subject = s}

\* The sequences that list each of the keys once, those in early first.
Orders(keys, early) ==
    UNION {{ds \o more : more \in SetToSeqs(keys \ early)} :
             ds \in SetToSeqs(keys \cap early)}

\* The indexes of the map m: the keys about each subject in any such order.
Indexes(m, early) ==
    {index \in [Subjects -> UNION {Orders(KeysAbout(m, s), early) : s \in Subjects}] :
        \A s \in Subjects : index[s] \in Orders(KeysAbout(m, s), early)}

(***************************************************************************)
(* loadFromDisk: the files of blobs/sha256 and then those of the base      *)
(* directory, each in the order of their names, which for hashes is any    *)
(* order.  Of the envelopes with one digest the first is kept.             *)
(***************************************************************************)
LoadedMaps ==
    LET inBlobs == {Digest(e) : e \in files}
        all == inBlobs \cup {Digest(e) : e \in RootEnvelopes}
    IN {m \in [all -> files \cup RootEnvelopes] :
          \A d \in all : /\ Digest(m[d]) = d
                         /\ d \in inBlobs => m[d] \in files}

loadFromDisk ==
    \E m \in LoadedMaps :
        /\ envelopes' = m
        /\ blobs' = [d \in DOMAIN m |-> IF m[d] \in files
                                       THEN JsonHash(m[d])
                                       ELSE CompactHash(m[d])]
        /\ subjectIndex' \in Indexes(m, {Digest(e) : e \in files})

\* Before the first start there is no memory, and nothing has been stored.
NoMemory ==
    /\ envelopes' = <<>> /\ blobs' = <<>>
    /\ subjectIndex' = [s \in Subjects |-> <<>>]

Init ==
    /\ running = FALSE
    /\ envelopes = <<>> /\ blobs = <<>>
    /\ subjectIndex = [s \in Subjects |-> <<>>]
    /\ files = {} /\ torn = {} /\ bins = {}
    /\ now = 0
    /\ acked = {} /\ failed = {} /\ pruned = {}
    /\ puts = 0
    /\ starts = 0

-----------------------------------------------------------------------------

\* NewFilesystemEvidenceRepository.
Start ==
    /\ ~running
    /\ starts < MaxStarts
    /\ running' = TRUE
    /\ starts' = starts + 1
    /\ loadFromDisk
    /\ UNCHANGED <<disk, now, history, puts>>

\* The process dies between two calls.
Crash ==
    /\ running
    /\ running' = FALSE
    /\ NoMemory
    /\ UNCHANGED <<disk, now, history, puts, starts>>

\* Faulty variant of Remember: the key is the hash of the compact JSON.
RememberCompact(e) ==
    /\ running
    /\ puts < MaxPuts
    /\ puts' = puts + 1
    /\ envelopes' = Assign(envelopes, CompactHash(e), e)
    /\ subjectIndex' = [subjectIndex EXCEPT ![e.subject] =
                          Append(@, CompactHash(e))]
    /\ pruned' = pruned \ {e}
    /\ UNCHANGED <<running, now, starts>>

\* Put changes the maps first and writes the file after that.
Remember(e) ==
    /\ running
    /\ puts < MaxPuts
    /\ puts' = puts + 1
    /\ envelopes' = Assign(envelopes, JsonHash(e), e)
    /\ subjectIndex' = [subjectIndex EXCEPT ![e.subject] =
                          Append(@, JsonHash(e))]
    /\ pruned' = pruned \ {e}
    /\ UNCHANGED <<running, now, starts>>

Acknowledge(e) ==
    /\ acked' = acked \cup {e}
    /\ failed' = failed \ {e}

\* Faulty variant of PutEnvelope: the file is not written.
PutInMemoryOnly(e) ==
    /\ Remember(e)
    /\ blobs' = Assign(blobs, JsonHash(e), JsonHash(e))
    /\ Acknowledge(e)
    /\ UNCHANGED disk

\* Put without a payload succeeds.
PutEnvelope(e) ==
    /\ Remember(e)
    /\ blobs' = Assign(blobs, JsonHash(e), JsonHash(e))
    /\ files' = files \cup {e}
    /\ torn' = torn \ {e}
    /\ Acknowledge(e)
    /\ UNCHANGED bins

\* Put with a payload succeeds; an error when the payload is written to disk is
\* ignored.
PutWithPayload(e, p) ==
    /\ Remember(e)
    /\ blobs' = Assign(Assign(blobs, JsonHash(e), JsonHash(e)),
                       PayloadHash(p), PayloadHash(p))
    /\ files' = files \cup {e}
    /\ torn' = torn \ {e}
    /\ bins' \in {bins, bins \cup {p}}
    /\ Acknowledge(e)

\* What an unsuccessful os.WriteFile leaves behind: nothing new if the file
\* could not be opened, else a file cut short, in place of an older one too.
WriteFileFails(e) ==
    \/ UNCHANGED <<files, torn, acked>>
    \/ /\ files' = files \ {e}
       /\ torn' = torn \cup {e}
       /\ acked' = acked \ {e}

\* The write fails and Put returns the error, with memory already changed.
PutFails(e) ==
    /\ Remember(e)
    /\ blobs' = Assign(blobs, JsonHash(e), JsonHash(e))
    /\ WriteFileFails(e)
    /\ failed' = failed \cup {e}
    /\ UNCHANGED bins

\* The file is written, the payload cannot be read, and Put returns the error.
PayloadUnreadable(e) ==
    /\ Remember(e)
    /\ blobs' = Assign(blobs, JsonHash(e), JsonHash(e))
    /\ files' = files \cup {e}
    /\ torn' = torn \ {e}
    /\ failed' = failed \cup {e}
    /\ UNCHANGED <<bins, acked>>

\* The process dies while it writes the file of e.
CrashInPut(e) ==
    /\ running
    /\ puts < MaxPuts
    /\ puts' = puts + 1
    /\ running' = FALSE
    /\ NoMemory
    /\ WriteFileFails(e)
    /\ UNCHANGED <<bins, now, failed, pruned, starts>>

(***************************************************************************)
(* Prune removes the entries of envelopes captured before the cutoff, and  *)
(* for each the file whose name is its key in memory, and rebuilds the     *)
(* index in the order in which the map is iterated.  The error of a remove *)
(* is ignored.  A payload is stored under a hash of its own, so no removal *)
(* reaches it.  A dry run changes nothing.                                 *)
(***************************************************************************)

\* Faulty variant of Expired: evidence of exactly the maximal age is removed.
ExpiredAtLimit(maxAge) ==
    {d \in DOMAIN envelopes : envelopes[d].capturedAt <= now - maxAge}

Expired(maxAge) ==
    {d \in DOMAIN envelopes : envelopes[d].capturedAt < now - maxAge}

\* Faulty variant of RebuildIndex: the index is left as it was.
RebuildIndexNot(m) == UNCHANGED subjectIndex

RebuildIndex(m) == subjectIndex' \in Indexes(m, DOMAIN m)

\* Those of the envelopes es whose files are really removed.
Removed(es) == IF RemoveMayFail THEN SUBSET es ELSE {es}

Prune(maxAge) ==
    LET old == Expired(maxAge) IN
    /\ running
    /\ envelopes' = Without(envelopes, old)
    /\ blobs' = Without(blobs, old)
    /\ RebuildIndex(Without(envelopes, old))
    /\ \E es \in Removed({e \in Envelopes : JsonHash(e) \in old}) :
         /\ files' = files \ es
         /\ torn' = torn \ es
    /\ pruned' = pruned \cup {envelopes[d] : d \in old}
    /\ acked' = {e \in acked : e.capturedAt >= now - maxAge}
    /\ UNCHANGED <<running, bins, now, failed, puts, starts>>

Tick ==
    /\ now < MaxTime
    /\ now' = now + 1
    /\ UNCHANGED <<running, memory, disk, history, puts, starts>>

Next ==
    \/ Start \/ Crash \/ Tick
    \/ \E e \in Envelopes :
         \/ PutEnvelope(e)
         \/ \E p \in Payloads : PutWithPayload(e, p)
         \/ PutFails(e)
         \/ PayloadUnreadable(e)
         \/ CrashInPut(e)
    \/ \E maxAge \in Ages : Prune(maxAge)

Spec == Init /\ [][Next]_vars

-----------------------------------------------------------------------------
(***************************************************************************)
(* Reading.                                                                *)
(***************************************************************************)

Absent == <<"absent">>

\* Faulty variant of Get: memory only.
GetFromMemory(d) == IF d \in DOMAIN blobs THEN blobs[d] ELSE Absent

\* Get, by the hash of the bytes it returns: from memory, else from the file of
\* that name.  Payload files are not read back.
Get(d) ==
    IF d \in DOMAIN blobs THEN blobs[d]
    ELSE IF \E e \in files : JsonHash(e) = d THEN d
    ELSE Absent

Verify(d) == Get(d) = d

\* The part of ListBySubject that comes from the index: per ID, the first
\* envelope in index order.
ListBySubject(s) ==
    LET ds == subjectIndex[s]
    IN {envelopes[ds[i]] : i \in
          {k \in DOMAIN ds : \A j \in 1 .. k - 1 :
              envelopes[ds[j]].id # envelopes[ds[k]].id}}

-----------------------------------------------------------------------------
(***************************************************************************)
(* Properties.                                                             *)
(***************************************************************************)

\* Type invariant: keys are digests of what they name, and the clock and the
\* disk keep their shapes (cas.go 25-32).
TypeOK ==
    /\ \A d \in DOMAIN envelopes :
         /\ envelopes[d] \in Envelopes
         /\ d \in {JsonHash(envelopes[d]), Digest(envelopes[d])}
    /\ files \cap torn = {}
    /\ now \in 0 .. MaxTime

\* The three maps agree after any sequence of puts, failed puts, prunes and
\* restarts: the index of a subject lists exactly the keys of the envelopes
\* about it, and each has its bytes, so no lookup of ListBySubject goes astray
\* (cas.go 138-142, 92-98, 311-329).
MapsAgree ==
    /\ \A s \in Subjects :
         {subjectIndex[s][i] : i \in DOMAIN subjectIndex[s]}
             = {d \in DOMAIN envelopes : envelopes[d].subject = s}
    /\ DOMAIN envelopes \subseteq DOMAIN blobs

\* Evidence the store has accepted stays retrievable under the reference Put
\* returned, verifies, and its ID is listed for its subject, across crashes,
\* restarts and prunes, until it expires or an interrupted Put of the same
\* envelope destroys its file (cas.go 121-218).
AcceptedIsKept ==
    \A e \in acked :
        /\ Verify(JsonHash(e))
        /\ running => \E x \in ListBySubject(e.subject) : x.id = e.id

\* What is listed survives a crash: every envelope in memory is also on disk,
\* unless the last Put of it returned an error (cas.go 138-150).
ListedIsDurable ==
    \A d \in DOMAIN envelopes :
        envelopes[d] \in files \cup RootEnvelopes \cup failed

\* Prune takes nothing that is still within the shortest retention, neither
\* from memory nor from disk (cas.go 290-322).
PruneSparesFresh ==
    [][pruned' # pruned /\ puts' = puts =>
         \A e \in Envelopes :
             (\A age \in Ages : e.capturedAt >= now - age) =>
                 /\ e \in files => e \in files'
                 /\ \A d \in DOMAIN envelopes :
                      envelopes[d] = e => d \in DOMAIN envelopes']_vars

\* "Prune removes evidence envelopes older than the specified maxAge
\* threshold" (cas.go 288): what was removed does not come back by itself.
PrunedStaysGone ==
    \A d \in DOMAIN envelopes : envelopes[d] \notin pruned
=============================================================================
