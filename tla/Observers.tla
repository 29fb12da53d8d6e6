------------------------------- MODULE Observers -------------------------------
(***************************************************************************)
(* The observers that turn what happens in a cluster into evidence or      *)
(* findings (internal/adapters/tetragon, cilium, sigstore, shield,         *)
(* openreports; the admission observer cel is in AdmissionWebhook), their  *)
(* envelopes as observations (storage/observation_source.go), and a        *)
(* contract that composes them into one claim.                             *)
(***************************************************************************)
EXTENDS WorkloadIdentity

CONSTANTS
    ClusterEvents,   \* what happens: records with the field kind
    WorkloadEpochs,  \* epochs of the workload
    ObservedAge,     \* MaxAge of the contract's requirements
    MaxTime,         \* bound: time
    MaxEnvelopes     \* bound: envelopes and findings

\* Scanners date their reports themselves.
ASSUME ObserversAssumption ==
    /\ ObservedAge \in Nat \ {0}
    /\ \A event \in ClusterEvents :
         /\ event.kind \in {"process", "flow", "admission", "artifact", "model", "report"}
         /\ event.kind = "report" => event.timestamp \in Int

VARIABLES
    time,            \* the observers' clock
    workload,        \* the epoch the workload is in
    ledger,          \* the envelopes, in the order they were made
    findings,        \* the findings
    conduct          \* history: the events that were as they should be

observerVars == <<time, workload, ledger, findings, conduct>>

Identity(name) == <<"spiffe", "prod", name>>

Envelope(name, type, capturedAt) ==
    [producer |-> Identity(name), type |-> type, capturedAt |-> capturedAt,
     epoch |-> workload]

Finding(control, severity) == [control |-> control, severity |-> severity]

\* What an observer returns: envelopes, and a finding or none.
Makes(envelopes) == [envelopes |-> envelopes, findings |-> {}]
Finds(control, severity) ==
    [envelopes |-> <<>>, findings |-> {Finding(control, severity)}]
Silent == Makes(<<>>)

-----------------------------------------------------------------------------

\* Faulty variant of GenerateProcessEvidence: it only looks at the user.
ProcessEvidenceOfUser(event) ==
    IF event.uid = 0 THEN Finds("container.least-privilege", "CRITICAL")
    ELSE Makes(<<Envelope("tetragon-collector", <<"workload", "runtime", "process">>, time)>>)

\* tetragon: GenerateProcessEvidence.
GenerateProcessEvidence(event) ==
    IF event.uid = 0 THEN Finds("container.least-privilege", "CRITICAL")
    ELSE IF event.capabilities \cap {"CAP_SYS_ADMIN", "CAP_NET_ADMIN"} # {}
    THEN Finds("container.least-privilege", "HIGH")
    ELSE Makes(<<Envelope("tetragon-collector", <<"workload", "runtime", "process">>, time)>>)

\* cilium: GenerateNetworkEvidence.
GenerateNetworkEvidence(event) ==
    IF event.egressIsolated
    THEN Makes(<<Envelope("cilium-collector", <<"network", "flow", "isolation">>, time)>>)
    ELSE Finds("network.isolated", "HIGH")

\* cel: the Pod was admitted.
AdmissionEvidence(event) ==
    IF event.allowed
    THEN Makes(<<Envelope("cel-admission-observer", <<"kubernetes", "admission">>, time)>>)
    ELSE Silent

\* sigstore: VerifyArtifact and GenerateSupplyChainEvidence; "*" in the
\* trusted signers trusts all.
VerifyArtifact(event, trustedSigners) ==
    event.digestIsSHA256 /\ {event.signer, "*"} \cap trustedSigners # {}

GenerateSupplyChainEvidence(event) ==
    IF VerifyArtifact(event, {"release"})
    THEN Makes(<<Envelope("sigstore-verifier", <<"supply", "chain", "signature">>, time),
                 Envelope("sigstore-verifier", <<"supply", "chain", "provenance">>, time)>>)
    ELSE Silent

\* shield: GenerateModelEvidence; scores are in hundredths.
GenerateModelEvidence(event) ==
    IF ~event.tamperProof THEN Finds("ai.weight.integrity", "CRITICAL")
    ELSE IF event.safetyScore < 80 THEN Finds("ai.safety.guardrails", "HIGH")
    ELSE Makes(<<Envelope("shield-admission-inspector", <<"model", "weights", "forensics">>, time),
                 Envelope("shield-admission-inspector", <<"model", "aibom">>, time)>>)

\* openreports: NormalizeSeverity and IngestReport, here of one finding,
\* which keeps the scanner's time.
NormalizeSeverity(severity) ==
    CASE severity \in {"CRITICAL", "HIGH", "LOW"} -> severity
      [] severity \in {"MEDIUM", "MODERATE"} -> "MEDIUM"
      [] OTHER -> "INFORMATIONAL"

IngestReport(event) ==
    CASE event.result \in {"fail", "error"} ->
           Finds("external-scanner", NormalizeSeverity(event.severity))
      [] event.result = "pass" ->
           Makes(<<Envelope("openreports-normalizer", <<"scanner", event.source>>,
                            event.timestamp)>>)
      [] OTHER -> Silent

Observed(event) ==
    CASE event.kind = "process" -> GenerateProcessEvidence(event)
      [] event.kind = "flow" -> GenerateNetworkEvidence(event)
      [] event.kind = "admission" -> AdmissionEvidence(event)
      [] event.kind = "artifact" -> GenerateSupplyChainEvidence(event)
      [] event.kind = "model" -> GenerateModelEvidence(event)
      [] event.kind = "report" -> IngestReport(event)

\* RepositoryObservationSource.ListObservations since a time, 0 for always:
\* the envelopes that are not skipped, by their place.
ListObservations(envelopes, since) ==
    [i \in {j \in DOMAIN envelopes : since = 0 \/ envelopes[j].capturedAt >= since}
       |-> envelopes[i]]

-----------------------------------------------------------------------------

ObserversInit ==
    /\ time = 0
    /\ workload \in WorkloadEpochs
    /\ ledger = <<>>
    /\ findings = {}
    /\ conduct = {}

\* Is the event what the platform demands of a workload?
AsItShould(event) ==
    CASE event.kind = "process" ->
           event.uid # 0 /\ event.capabilities \cap {"CAP_SYS_ADMIN", "CAP_NET_ADMIN"} = {}
      [] event.kind = "flow" -> event.egressIsolated
      [] event.kind = "admission" -> event.allowed
      [] event.kind = "artifact" -> event.digestIsSHA256 /\ event.signer = "release"
      [] event.kind = "model" -> event.tamperProof /\ event.safetyScore >= 80
      [] event.kind = "report" -> event.result = "pass"

\* Something happens and its observer reports it, with its own default
\* identity, in the epoch the workload is in.
Observe(event) ==
    LET report == Observed(event) IN
    /\ Len(ledger) + Cardinality(findings) < MaxEnvelopes
    /\ ledger' = ledger \o report.envelopes
    /\ findings' = findings \cup report.findings
    /\ conduct' = IF AsItShould(event) THEN conduct \cup {<<event.kind, time, workload>>}
                  ELSE conduct
    /\ UNCHANGED <<time, workload>>

TimePasses ==
    /\ time < MaxTime
    /\ time' = time + 1
    /\ UNCHANGED <<workload, ledger, findings, conduct>>

\* The workload, its policy or its authority changes.
WorkloadChanges(epoch) ==
    /\ workload # epoch
    /\ workload' = epoch
    /\ UNCHANGED <<time, ledger, findings, conduct>>

ObserversNext ==
    \/ \E event \in ClusterEvents : Observe(event)
    \/ TimePasses
    \/ \E epoch \in WorkloadEpochs : WorkloadChanges(epoch)

ObserversSpec == ObserversInit /\ [][ObserversNext]_observerVars

(***************************************************************************)
(* The contract of tests/contract/composition_test.go.                     *)
(***************************************************************************)
Demand(type, name) ==
    [type |-> type, required |-> TRUE, maxAge |-> ObservedAge,
     accepted |-> {[open |-> FALSE, parts |-> Identity(name)]}]

CompositeContract ==
    [requirements |->
       <<Demand(<<"kubernetes", "admission">>, "cel-admission-observer"),
         Demand(<<"workload", "runtime", "process">>, "tetragon-collector"),
         Demand(<<"network", "flow", "isolation">>, "cilium-collector")>>,
     onMissing |-> "UNKNOWN"]

(***************************************************************************)
(* Properties.                                                             *)
(***************************************************************************)

\* The composite claim is VERIFIED exactly when an admission, a process and a
\* flow were each seen as they should be, in an epoch that agrees with the
\* workload's present one in all it says, and not longer ago than the contract
\* allows, in whatever order they came and whatever other observers reported;
\* and the producers on which the verdict rests are ones the default authority
\* policy lets assert it, and who lists the observations of the contract's
\* window finds their evidence.
VerifiedIsWitnessed ==
    LET verdict == Evaluate(CompositeContract, ledger, workload, time)
        recent(kind) == \E c \in conduct :
                          /\ c[1] = kind
                          /\ c[2] \in time - ObservedAge .. time
                          /\ \A d \in Dimensions : workload[d] \in {Unset, c[3][d]}
    IN /\ verdict.state = "VERIFIED" <=>
            \A kind \in {"admission", "process", "flow"} : recent(kind)
       /\ \A e \in verdict.verified :
            /\ IsAuthorizedProducer(NewDefaultAuthorityPolicy, e.producer, e.type)
            /\ e \in Range(ListObservations(ledger, time - ObservedAge))
=============================================================================
