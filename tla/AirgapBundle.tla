----------------------------- MODULE AirgapBundle -----------------------------
(***************************************************************************)
(* Air-gap bundles (internal/adapters/airgap/bundle.go): evaluations,      *)
(* receipts, envelopes and payloads are exported from one evidence store,  *)
(* travel as a file that may be damaged, and are imported into another     *)
(* store, whose Put may fail for any envelope.  An import can be repeated. *)
(*                                                                         *)
(* Payloads stand for their digests.  An envelope is a record with id,     *)
(* artifact (the payload its artifact names, or none), captured, and uri,  *)
(* which no digest covers.  An evaluation has id, state and validUntil.    *)
(***************************************************************************)
EXTENDS Receipts

CONSTANTS
    Stored,       \* payloads the exporting store can still read
    Packages,     \* the sequences of envelopes that are exported
    MaxImports    \* bound: imports of one bundle

ASSUME BundleAssumption ==
    \A p \in Packages :
        /\ p \in Seq({p[i] : i \in DOMAIN p})
        /\ \A i \in DOMAIN p : p[i] \in [id : {p[i].id}, artifact : {p[i].artifact},
                                        captured : Int, uri : {p[i].uri}]

VARIABLES
    bundle,       \* the bundle as exported
    file,         \* the bundle as it arrived
    signer,       \* key of the importer's ReceiptSigner, BadKey for nil
    target,       \* the importing store: its envelopes and payloads
    phase,        \* what the importer is doing
    at,           \* envelopes put so far in this import
    imports       \* imports begun

bundleVars == <<bundle, file, signer, target, phase, at, imports>>

None == "none"          \* no artifact
EmptyPayload == "empty" \* the payload of zero bytes

\* EvidenceEnvelope.Digest and ClaimEvaluation.Digest.
EnvelopeDigest(e) == [e EXCEPT !.uri = Empty]
EvaluationDigest(v) == [v EXCEPT !.validUntil = 0]

(***************************************************************************)
(* ComputeManifestDigest: the parts are sorted, so they form a set.  Of a  *)
(* receipt only the root and the signature are hashed.                     *)
(***************************************************************************)
\* Faulty variant of ComputeManifestDigest: payloads are not hashed.
ManifestWithoutBlobs(b) ==
    [metadata |-> b.metadata,
     evals |-> {EvaluationDigest(v) : v \in b.evaluations},
     envs |-> {EnvelopeDigest(b.envelopes[i]) : i \in DOMAIN b.envelopes},
     receipts |-> {<<r.evidenceRoot, r.signature>> : r \in b.receipts},
     blobs |-> DOMAIN b.blobs]

ComputeManifestDigest(b) ==
    [metadata |-> b.metadata,
     evals |-> {EvaluationDigest(v) : v \in b.evaluations},
     envs |-> {EnvelopeDigest(b.envelopes[i]) : i \in DOMAIN b.envelopes},
     receipts |-> {<<r.evidenceRoot, r.signature>> : r \in b.receipts},
     blobs |-> {<<d, b.blobs[d]>> : d \in DOMAIN b.blobs}]

\* The payloads that can be read are packed; the others are skipped.
PackedBlobs(envelopes) ==
    [d \in {envelopes[i].artifact : i \in DOMAIN envelopes} \cap Stored |-> d]

ExportBundle(envelopes, evaluations, receipts) ==
    LET b == [metadata |-> "bundle", evaluations |-> evaluations,
              receipts |-> receipts, envelopes |-> envelopes,
              blobs |-> PackedBlobs(envelopes), manifest |-> Empty]
    IN [b EXCEPT !.manifest = ComputeManifestDigest(b)]

\* Damage on the way: a field of some part changes, a payload is replaced,
\* an envelope is lost.
Damaged(b) ==
    {[b EXCEPT !.metadata = "other"]}
      \cup {[b EXCEPT !.envelopes = Tail(@)] : x \in {i \in {1} : b.envelopes # <<>>}}
      \cup {[b EXCEPT !.envelopes[i].captured = @ + 1] : i \in DOMAIN b.envelopes}
      \cup {[b EXCEPT !.envelopes[i].uri = "elsewhere"] : i \in DOMAIN b.envelopes}
      \cup {[b EXCEPT !.blobs[d] = "damage"] : d \in DOMAIN b.blobs}
      \cup {[b EXCEPT !.receipts = {[r EXCEPT !.state = <<"FAILED">>] : r \in @}]}
      \cup {[b EXCEPT !.evaluations = {[v EXCEPT !.validUntil = 2] : v \in @}]}
      \cup {[b EXCEPT !.evaluations = {[v EXCEPT !.state = "FAILED"] : v \in @}]}

-----------------------------------------------------------------------------

\* ContentAddressedEvidenceRepository.Put, as far as the importer sees it.
Put(store, e, payload) ==
    [envelopes |-> store.envelopes \cup {e}, blobs |-> store.blobs \cup {payload}]

\* A failed Put has filed the envelope in memory and not the payload.
PutThatFails(store, e) ==
    [store EXCEPT !.envelopes = @ \cup {e}]

NoBundle == ExportBundle(<<>>, {}, {})

BundleInit ==
    /\ bundle = NoBundle /\ file = NoBundle
    /\ signer = BadKey
    /\ target = [envelopes |-> {}, blobs |-> {}]
    /\ phase = "idle"
    /\ at = 0
    /\ imports = 0

Receipt ==
    IssueReceipt([key |-> 1, evaluator |-> "evaluator"], "web",
                 [namespace |-> "nist", id |-> "AC-6", version |-> Empty],
                 <<"ASSURED">>, "epoch", "root", 1)

Evaluation == [id |-> "eval", state |-> "ASSURED", validUntil |-> 1]

\* ExportBundle, and the way of the file to the importer.
Export(envelopes, receipts) ==
    /\ phase = "idle"
    /\ bundle' = ExportBundle(envelopes, {Evaluation}, receipts)
    /\ file' \in {bundle'} \cup Damaged(bundle')
    /\ signer' \in {BadKey, 1, 2}
    /\ phase' = "arrived"
    /\ UNCHANGED <<target, at, imports>>

\* The checks of ImportBundle, before anything is put.
Admissible(f) ==
    /\ f.manifest = ComputeManifestDigest(f)
    /\ signer # BadKey =>
         \A r \in f.receipts : VerifyIndependentReceipt(r, signer) = "valid"

CanImport == phase \notin {"idle", "loading"} /\ imports < MaxImports

\* A file that is no JSON, or fails a check, is refused.
Refuse(readable) ==
    /\ CanImport
    /\ ~readable \/ ~Admissible(file)
    /\ phase' = "refused"
    /\ imports' = imports + 1
    /\ UNCHANGED <<bundle, file, signer, target, at>>

BeginImport ==
    /\ CanImport
    /\ Admissible(file)
    /\ phase' = IF file.envelopes = <<>> THEN "imported" ELSE "loading"
    /\ at' = 0
    /\ imports' = imports + 1
    /\ UNCHANGED <<bundle, file, signer, target>>

\* Faulty variant of PayloadFor: payloads are looked up under the ID.
PayloadForID(e) ==
    IF e.id \in DOMAIN file.blobs THEN file.blobs[e.id] ELSE EmptyPayload

\* bundle.Blobs[env.Artifact.Digest]: a missing entry is an empty payload.
PayloadFor(e) ==
    IF e.artifact \in DOMAIN file.blobs THEN file.blobs[e.artifact] ELSE EmptyPayload

\* One turn of the loop that fills the target.
LoadEnvelope ==
    LET e == file.envelopes[at + 1] IN
    /\ phase = "loading"
    /\ target' = Put(target, e, PayloadFor(e))
    /\ at' = at + 1
    /\ phase' = IF at' = Len(file.envelopes) THEN "imported" ELSE "loading"
    /\ UNCHANGED <<bundle, file, signer, imports>>

\* Faulty variant of LoadFails: the loop goes on behind the error.
LoadFailsAndGoesOn ==
    /\ phase = "loading"
    /\ target' = PutThatFails(target, file.envelopes[at + 1])
    /\ at' = at + 1
    /\ phase' = IF at' = Len(file.envelopes) THEN "failed" ELSE "loading"
    /\ UNCHANGED <<bundle, file, signer, imports>>

\* Put returns an error, and the import with it.
LoadFails ==
    /\ phase = "loading"
    /\ target' = PutThatFails(target, file.envelopes[at + 1])
    /\ phase' = "failed"
    /\ UNCHANGED <<bundle, file, signer, at, imports>>

BundleNext ==
    \/ \E p \in Packages, rs \in {{}, {Receipt}} : Export(p, rs)
    \/ \E readable \in BOOLEAN : Refuse(readable)
    \/ BeginImport
    \/ LoadEnvelope
    \/ LoadFails

BundleSpec == BundleInit /\ [][BundleNext]_bundleVars

(***************************************************************************)
(* Properties.                                                             *)
(***************************************************************************)

\* What imports leave in the store, also when they failed half way and were
\* repeated, is a beginning of the file: no envelope is there without the ones
\* before it, and only the last one may lack its payload.
PartialIsPrefix ==
    \E n \in 0 .. Len(file.envelopes) :
      /\ target.envelopes = {file.envelopes[i] : i \in 1 .. n}
      /\ {PayloadFor(file.envelopes[i]) : i \in 1 .. n - 1} \subseteq target.blobs
      /\ target.blobs \subseteq {PayloadFor(file.envelopes[i]) : i \in 1 .. n}

\* The file has passed the checks of ImportBundle.
Accepted == phase \in {"loading", "imported", "failed"}

\* What ImportBundle lets pass was exported, up to what the manifest leaves
\* out: envelopes in the store differ from exported ones in the URI of their
\* artifact at most, payloads not at all; the metadata of an accepted file is
\* the exported one, its evaluations differ in validUntil at most, its receipts
\* have exported roots and signatures, and are the exported ones if they were
\* verified.
LoadedWasExported ==
    /\ \A e \in target.envelopes : \E i \in DOMAIN bundle.envelopes :
         e = [bundle.envelopes[i] EXCEPT !.uri = e.uri]
    /\ target.blobs \subseteq Stored \cup {EmptyPayload}
    /\ Accepted =>
         /\ file.metadata = bundle.metadata
         /\ \A v \in file.evaluations : \E w \in bundle.evaluations :
              v = [w EXCEPT !.validUntil = v.validUntil]
         /\ \A r \in file.receipts : \E q \in bundle.receipts :
              r.evidenceRoot = q.evidenceRoot /\ r.signature = q.signature
         /\ signer # BadKey => file.receipts = bundle.receipts

\* "Any modification to evaluations, receipts, metadata, or blobs triggers
\* manifest verification failure" (README.md): a file whose import goes past
\* the checks has these parts as they were exported.
ModifiedIsRefused ==
    Accepted =>
      /\ file.evaluations = bundle.evaluations
      /\ file.receipts = bundle.receipts
      /\ file.metadata = bundle.metadata
      /\ file.blobs = bundle.blobs

\* When an import reports success, also after one that failed half way, every
\* exported envelope is in the store and its payload, if it could be read at
\* export, is found under the artifact's digest.
ImportIsComplete ==
    phase = "imported" =>
      \A i \in DOMAIN bundle.envelopes :
        LET e == bundle.envelopes[i] IN
        /\ \E x \in target.envelopes : EnvelopeDigest(x) = EnvelopeDigest(e)
        /\ e.artifact \in Stored => e.artifact \in target.blobs
=============================================================================
