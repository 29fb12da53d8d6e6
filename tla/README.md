# TLA+ models of ckodex-oskal

These modules model the parts of ckodex-oskal that decide whether a workload is
ASSURED, whether an agent may act, and what becomes of evidence when calls race,
fail or are cut short. TLC checks them on small instances; TLAPS proves every
safety property that holds for every value of the constants.

## 1. The system

Evidence about workloads is collected by observers, the admission webhook and
RPC clients, kept in a content-addressed store, and evaluated against evidence
contracts. The verdict (`ASSURED`, `STALE`, `UNKNOWN`, `FAILED`) is published in
the status of Kubernetes objects, in RPC answers and in signed receipts. Beside
this, an effect broker lets AI agents act under leases.

| Component | State | Operations | Talks to | What makes it correct |
|---|---|---|---|---|
| Evaluation kernel (`core/assurance/evidence.go`, `epoch.go`) | none | `Evaluate`, `Matches`, `IsFresh`, `IsProducerAccepted` | called by the controller, the service, the CLI | VERIFIED exactly when everything required is supported; more evidence never hurts |
| Leases and effect broker (`core/assurance/lease.go`, `internal/adapters/workcell`) | map of leases: turn, head hash, revoked | `RegisterLease`, `RequestExecution`, `Revoke` | agents, concurrently, under one mutex | one unforked receipt chain within budget, lifetime and capabilities; a denial changes nothing |
| ControlBinding controller (`internal/application/reconcile`) | none of its own: API objects, informer cache, work queue | `Reconcile` | API server, evidence store, resolver | ASSURED only on evidence; no binding forgotten; status converges |
| Evidence store (`internal/adapters/storage/cas.go`) | three maps and a directory | `Put`, `Get`, `Verify`, `ListBySubject`, `Prune`, load | disk; all readers of evidence | maps agree; accepted evidence survives crashes; prune takes only what is old |
| AssuranceService (`internal/service`) | observations, receipts | five RPCs, concurrently | evidence store, kernel | ASSURED only on stored evidence about the subject; accepted evidence counts |
| Admission webhook (`internal/adapters/webhook`, `cel`) | server life cycle, requests in flight | validate a Pod, produce and deliver evidence, start, shut down | API server, evidence store or directory | only conformant Pods in enforcing mode; evidence before the answer |
| Receipts (`internal/receipts`) and SDK (`pkg/oskal`) | key pair per process, maps of receipts and observations | issue, sign, verify, submit, three queries, in process and over gRPC | service, controller, programs | what was issued verifies; what is kept was issued; queries agree |
| Air-gap bundles (`internal/adapters/airgap`) | none; a file between two stores | export, import | evidence stores, receipts | what is loaded was exported, up to what the manifest leaves out; a failed import leaves a beginning of the bundle; success means everything is there |
| State machine and vector (`core/assurance/state.go`, `claim.go`), drift (`kubernetes/discovery.go`) | none | `Transition`, `Resolve`, `EvaluateDrift` | kernel users | ASSURED is earned in order; a negative dimension dominates; no unexplained drift |
| State repository (`internal/adapters/storage/assurance_repo.go`) | a map and one file | `SaveState`, `GetState`, load | disk | a state is never replaced by an older one |
| Identity (`internal/adapters/spire`) | trust bundles | add roots, validate SVIDs, attest, authorise | observers | the clock skew tolerated is the one configured; a domain vouches for itself only |
| Observers (`tetragon`, `cilium`, `sigstore`, `shield`, `openreports`, `cel`) | none | turn events into evidence or findings | evidence store, kernel | a composite claim holds exactly when the conduct it is about was seen |
| OSCAL (`internal/projection/oscal`, `internal/reconciler/oscal`) | compiled schemas; a directory of manifests | project, detect, validate, ingest | CLI, MCP server, SDK | references resolve; validation and ingestion agree; projections of complete data are valid; no control is lost or bound with another demand |
| CLI (`cmd/oskal`), configuration (`internal/config`), diagnostics, cockpit | settings file, evidence directories | about twenty commands, each a process | everything above | what is recorded is found |
| MCP server (`internal/adapters/mcp`), scaffolding (`internal/scaffold`) | stdin, stdout | JSON-RPC loop, seven tools | OSCAL, doctor, scaffold | one answer per request, in order; tools do what they advertise |
| Telemetry, API types, generated code | metrics | - | - | not modelled |

The hard behaviours: edits, rollouts, new evidence and the clock between the
remote calls of one `Reconcile`; conflicts, failed calls and crashes of the
controller; a store that changes its maps before its file and may die inside the
write; RPCs that release one lock before they take the next; agents that act on
the same receipt head; receipts, bundles and answers that arrive changed, late or
after a restart; a webhook that is stopped between its decision and its evidence;
commands that find their directory by different rules. `PROJECT.json` lists them under `hazards`, each at its
line and with the properties that would catch it.

## 2. Modules

### EvidenceContract - the kernel
Pure operators named after the Go functions. Digests, producers and evidence
types are sequences: a digest is the tuple of what it hashes (SHA-256 taken to
be injective), a producer `scheme://a/b` is `<<scheme, a, b>>`, a type
`kubernetes.admission` is `<<"kubernetes", "admission">>`, with case folded and
`-` read as `.` as `matchesEvidenceType` does. Prefix patterns of producers are
cut at part boundaries. The loops of `Evaluate` become sets (`Candidates`,
`Verifying`, `MatchedSet`, ...), and its counters their cardinalities.
`Supported` says without loops and counters what evaluation promises.

### CapabilityGrant and EffectBroker - leases
`CapabilityGrant` is the abstract specification: a grant is used at most `limit`
times and never after it is withdrawn. `EffectBroker` is the code: all broker
methods hold one mutex, so each is one action. Agents may present any hash they
were ever given, the genesis hash or one nobody issued; the clock may be set
back, because `time.Now().UTC()` is compared with a stored time. `chain` and
`seen` are history. The refinement maps the admitted receipts to uses.

### ControlBindingReconciler - the controller
One worker; each remote call of `Reconcile` is a step (`Begin`,
`ResolveSubject`, `LoadContract`, one `EvaluateControl` per control,
`UpdateStatus`, `UpdateProjection`), so that everything else can happen between
them. `api` and `cache` are the binding at the API server and in the informer;
the status update is accepted only for the version that was read. `Deliver`,
`TimerFires`, `Restart` and the edits stand for controller-runtime, the
operating system and the API server, as the code uses them. `basis` is history:
what the last status was computed from. Stale cached reads of Deployments and
contracts are the same as later edits and have no state of their own.
The ClaimEvaluator is a port that may return an error, though the evaluator the
repository ships returns none. Metrics and the signing of receipts at the end of
`Reconcile` change no object and are left out.

### EvidenceCAS - the store
Memory (`envelopes`, `blobs`, `subjectIndex`), disk (`files`, `torn`, `bins`)
and the process. `Put` succeeds, fails in the write, fails on the payload, or
dies in the write, which may leave a file that does not parse. `loadFromDisk`
gives envelopes other keys than `Put` did, in any order. `acked`, `failed` and
`pruned` are history. The matching of related subjects, which only reads, is
modelled where it matters, in AssuranceService.

### AssuranceService - the RPCs
`SubmitObservation` is cut where it gives up the server's lock and after each
`Put`; `EvaluateSubject` between the repository and the fallback to
observations. `Related` is any relation between subjects, for `matchSubject`.
The repository is the one in memory, with which the CLI serves the API.

### Receipts and ReceiptExchange - receipts, server and SDK
`Receipts` has the bytes that are signed, with signatures as pairs of key and
bytes (so they cannot be forged), and evidence roots as bags of digests.
`ReceiptExchange` is a program with a ReceiptManager and an in-process client,
and a server that shares its process or not. Key pairs are numbers, new at each
start. A remote call is a record: it is handled once, its answer is received or
the deadline of `withTimeout` passes first, and the server never learns of the
latter. Receipts are presented as issued or with one field changed. The second
part is the in-process client's observations and its three queries, which are
operators because they only read; `BuildExplainGraph` is among them.

### AirgapBundle
Export, the way of the file (untouched or with one of eight damages), and any
number of imports, each of which checks first and then puts envelope by
envelope, where `Put` may fail. `ComputeManifestDigest` is the record of what it
hashes: of evaluations and receipts only the fields their digests cover, so a
changed `validUntil` or receipt state passes it, as it does in the code.
`LoadedWasExported` says which fields those are, part by part; that nothing else
may differ is `ModifiedIsRefused`, which the code does not keep (section 6).

### AssuranceFSM and StateRepository
`Transition` as a set with at most one state, `Resolve` as the chain of tests in
the code, `EvaluateDrift`. `trail` remembers the last three events. The
repository numbers saves instead of recording states, so that older and newer
are numbers.

### AdmissionWebhook
A Pod is its security contexts; pointers are sets with at most one element. A
request goes through `sent`, `delivering`, `answered` and `admitted` or
`denied`; the API server may give up at any time and the process may stop at any
time. Bodies that do not decode deny like no answer. Ephemeral containers are
not in the model because the code does not read them.

### WorkloadIdentity and Observers
Certificates have URIs, a root and a window; chain verification is membership of
the root and the window at the verification time. The observers are operators
from events to envelopes and findings; `Observe` appends what they make, in the
epoch the workload is in. `conduct` is history: what really happened. The claim
is the contract of `tests/contract/composition_test.go`, evaluated by
EvidenceContract.

### OscalDocuments
A document is a record of what the five kinds hold. Control IDs and titles are
sequences of parts or letters, because the code searches and rewrites them; UUIDs
are names of what they identify. `SchemaAccepts` stands for the NIST schemas and
checks the data types where documents differ in them: tokens for control IDs,
lines for titles, strings for props, date-times with a year from 1900 on (a time
that Go leaves zero is 0 and is none), and no null or empty list. `origin` is
history: what a document was projected from. `ToolEvaluation` is the evaluation
the MCP tool makes up, without `ValidUntil`. In ingestion a prop has the set of
what `time.ParseDuration` makes of its value, empty if that is an error;
`ContractRequirement` takes the last type and producer and the last age that
parses, as the loop of the code does.

### Scaffold, McpServer
`Scaffold` is what each profile yields. `McpServer` is the loop over lines and
the tools' decisions; `asked` is history, the lines read so far that are owed an
answer.

### CommandLine
Each command is one action on the directories, settings and clock; a command that
reads evidence creates its directory as opening a store does. `LoadConfig`
unmarshals the file over the defaults, so a key that is absent and one that is
empty differ; a file that does not parse keeps what it set and hides the
environment. With a server in the settings or in `OSKAL_SERVER`, `state` and
`explain` ask it and never look at local evidence; its answer is any. `said` is
what the last command printed and which directory it read, `noted` what was
recorded under the settings in force.

### Proof and MC modules
`*Proofs` hold the theorems, `ComponentProofs` those of all components from the
webhook to the MCP server; `MC*` give constants that a `.cfg` cannot write.
`MCComponents` puts the components that share no state side by side: `part` says
which one moves, the others rest in one initial state, so one run explores their
union and never their product.
Operators commented "Faulty variant of X" are deliberate bugs in X; each is used
to see that a property fails when the code is wrong in that way.

## 3. Runs

| Run | Shows | Bounds |
|---|---|---|
| `effect_broker` | chain, budget, revocation, denial, refinement | 2 leases, limits 0 and 1, lifetimes 0 and 1, 2 registrations, 2 turns |
| `reconciler_safety` | ASSURED only on evidence; complete AssuranceState | 1 binding with 0, 1 or 2 controls, 1 edit of binding and contract, 2 producers, evidence dated ahead |
| `reconciler_liveness` | nothing forgotten; convergence | 1 failed call, 1 crash, store in memory, evidence that can go stale |
| `evidence_cas` | maps, durability, prune boundary | 4 envelopes (renewed ID, same digest with another URI, one from the base directory), 3 puts, 2 starts |
| `assurance_service` | evidence behind ASSURED; no false alarm | 2 callers, a Deployment and its Pod, 2 observations |
| `components` | the twenty invariants of the modules from ReceiptExchange to McpServer | see below |
| `webhook_assurance`, `expired_projection`, `cas_prune`, `service_no_evidence`, `audit_evidence`, `tampered_bundle` | disagreements, see section 6 | the smallest that show them |

What `components` checks:

| Property | Says |
|---|---|
| `AcceptedWasIssued`, `IssuedIsAccepted`, `VerifiedIsHeld` | receipts that are kept were issued with the key in force and not changed; unchanged ones verify; "verified" can be relied on after timeouts and repetitions |
| `ReadsAgree` | the three queries of the in-process client tell the same story |
| `PartialIsPrefix`, `LoadedWasExported`, `ImportIsComplete` | bundles: failed and repeated imports leave a beginning of the file with its payloads; what passes the checks was exported up to the fields the manifest leaves out; success complete also after a failed import |
| `AssuredIsEarned`, `DriftIsExplained`, `AssuredNeedsEveryDimension` | state machine, drift and vector |
| `NeverGoesBack` | the state repository across failed writes and crashes |
| `AdmittedIsConformant`, `AdmittedHasEvidence` | the webhook against the kubelet's inheritance rules; evidence before the answer |
| `SkewIsTolerance` | SVIDs are accepted exactly within the tolerance and by their own domain |
| `VerifiedIsWitnessed` | the composite claim holds exactly on recent, proper conduct in an epoch that agrees with the present one, by authorised producers whose observations are listed |
| `ReferencesResolve`, `ValidIsIngestible`, `ImportedIsBound` | OSCAL documents: closed references; validation, detection and ingestion agree, and projections of complete evaluations and findings are valid; no control lost, and each demands what its document states last and legibly |
| `RecordedIsReported` | what was recorded stays filed and is found by the commands that read, called alike, unless the settings erase the directory |
| `AnsweredAsAdvertised` | one answer per request in order; tools accept what they advertise |

Its bounds: one subject under two controls (with and without version), one issued
receipt, two calls in flight, one restart of either process, two observations;
three packages (payloads readable, one lost, none) and two imports of one bundle;
four epochs that differ in one dimension; three saves of two subjects; two
admission requests at once over Pods with every kind of init container, in the
enforcing and the audit mode; certificate windows of one and two seconds with a
skew of two and a clock that passes both; nine events and at most three
envelopes of the observers in three epochs (one of which says nothing of the
policy), an age limit of 1 with a clock up to 2; documents
with colliding names, two roots, no UUID, a null list, shared artifacts, control
IDs that contain one another, are empty or no tokens, an evaluation without
`validUntil`, a finding without texts, props of one meaning under two names and
ages that do not parse, two of the documents ingested; two workloads of one name
in two namespaces, settings that are absent, name a server and a directory, an
empty directory, or do not parse, an environment that names both or nothing, two
records and a clock that passes the window of drift and reaches the window of
inspect; two lines to the MCP server. This gives 1.1 million distinct states. Deadlock is off because every
part stops when its bound is used up.

Why the bounds suffice. A fork needs two requests on one head, an overrun one
turn more than the budget of one, a re-registration two registrations: all fit.
A status is only ever computed by one call at a time, so one binding, one edit
during the call and evidence of a good and a bad producer cover what can go
wrong in it; rollouts from absent to present change the digest under it. Two
starts and three puts give every order of put, failed put, crash, load and
prune of one ID; a third put repeats an envelope. Two callers are needed for a
race, and each RPC touches one subject and at most one related to it. Age limits
are 1 with clocks up to 2, so that exactly at the limit, below and beyond it
occur. Symmetry is used for callers and observation IDs, which the service only
compares, in a run of invariants only. Deadlock is checked in `effect_broker`
and `assurance_service`; the other runs end when their bounds are used up (a
deleted binding leaves nothing to do, a crashed store that may not start again
nothing at all).

Fairness, only in the controller's liveness runs: watches deliver (`Deliver`),
delays run out (`TimerFires`) and a call in progress goes on (`Worker`), as
controller-runtime's goroutines do; a binding in the queue is taken eventually
(strong fairness of `Begin`, since the queue is first-in first-out and the
worker is busy in between). Nothing is assumed of the cluster, the clock or
crashes; failures end because they are bounded.

## 4. Proofs

TLAPS checks all of them, from nothing but the named ASSUMEs on constants. Those
say that bounds are natural numbers and times integers, and that inputs have the
shape the Go types give them: lists are lists, an absent security context has no
fields, an SVID names a known domain or none, a document of another tool has no
OSKAL observations and its props are lists, the environment variable names a
directory or is empty. The age
limits of the service and of the composite claim are positive, as in the code;
those of the controller's contracts are any integers. TLC evaluates every
assumption in the runs.

Each theorem `Spec => []P` goes through an inductive invariant: P is
seldom inductive alone, because it speaks of the end of an operation while a step
happens in the middle. Every such invariant was checked by TLC on the bounds of
section 3 before it was proved.

- `EffectBrokerProofs`. The inductive invariant is `IInv == TypeOK /\
  ChainLinked /\ AdmittedWithinLease`: the budget is checked on `CurrentTurn`,
  so one must know that it is the length of the chain. `NoFork` follows from
  `ChainLinked`, because the hash a receipt points to determines its turn.
  `RevokedIsFinal` and `DenialIsInert` are proved as action properties, and
  `ImplementsGrant` by mapping each action to a use, a gift, a withdrawal or a
  stutter.
- `EvidenceContractProofs`. `VerifiedIffSupported`: the counters of `Evaluate`
  amount to `Supported`, by comparing cardinalities of finite sets.
  `EvidenceNeverHurts` is its corollary. `NamedEvidenceSupports`: each envelope
  that a verdict names, of a complete contract or not, was given and supports a
  requirement. The controller, the service and the observers rest on these.
- `ControlBindingReconcilerProofs`. `NeverForgotten` is inductive together with
  `CacheBehind`: the informer never runs ahead of the API server, otherwise an
  edit could produce exactly what is cached and no event would follow.
  `AssuredOnEvidence` and `AssuredProjectionIsComplete` are inductive as
  `ReportInv`, which adds what a call of `Reconcile` holds at each point
  (`CallInv`): after each control, the last verdict, if VERIFIED, is supported by
  what is stored (`LastVerdictHolds`), so that `UpdateStatus`, many steps later,
  writes nothing that is not. Evidence that is added between the calls cannot
  spoil this, by `EvidenceNeverHurts`; edits cannot either, because the status
  is accepted only for the version that was read.
- `EvidenceCASProofs`. `CASInv` adds to the properties that the bytes filed under
  the hash of an envelope are that envelope (`BytesMatch`) and that accepted
  evidence has an envelope of its digest in memory (`AcceptedInMemory`), perhaps
  a copy with another URI that a load put there. `loadFromDisk` in any
  order is covered by `IndexesAgree`. `PruneSparesFresh` is an action property.
- `AssuranceServiceProofs`. `AssuredIsStored` needs that every stored envelope
  carries the epoch of its own subject; a related subject's evidence then fails
  `Matches`, and fallback envelopes, which leave four digests empty, do too.
  The converse, `FreshEvidenceCounts`, needs `CountInv`: what was accepted is in
  the store, a submission in progress has stored what it says it has, and a later
  envelope with the same ID does not displace one that is filed.
- `StateRepositoryProofs`. `NeverGoesBack` is inductive once it is also said of
  the file and once no kept save is later than the last: a restart replaces
  memory by the file.
- `AssuranceFSMProofs`. `AssuredIsEarned` needs what OBSERVED and VERIFIED say
  about the last one and two events. `DriftIsExplained` rests on
  `MismatchIsDifference`: epochs that do not match differ somewhere, although
  `Matches` and `Diff` treat empty digests differently.
  `VectorNeedsEveryDimension` is a fact about `Resolve` for every vector.
- `ComponentProofs`, one part per component:

| Part | Properties | What the invariant adds |
|---|---|---|
| identity | `SkewIsTolerance` | a domain without a pool has no roots; the last verdict is the one today's pools give (`IdentityInv`) |
| webhook | `AdmittedIsConformant`, `AdmittedHasEvidence` | a request past its decision has the answer of `validateRequest`; an answered one has delivered its envelope, failed to, or shares its file name (`WebhookInv`) |
| bundles | `PartialIsPrefix`, `LoadedWasExported`, `ImportIsComplete` | a file that was ever accepted has the manifest of its own parts, and its first `at` envelopes are in the store with their payloads (`BundleInv`) |
| receipts | `AcceptedWasIssued`, `IssuedIsAccepted`, `VerifiedIsHeld` | what was issued is signed over its own bytes, keys in use were generated, a call to an earlier life of the server has an earlier key, answers say what verification says (`ExchangeInv`); no field can change under a signature (`VerifiedWasIssued`) |
| SDK queries | `ReadsAgree` | none: a fact about every list of observations |
| commands | `RecordedIsReported` | the directory of a record exists from then on, so the two rules for finding it agree as long as the settings do not erase it (`CommandInv`) |
| MCP server | `AnsweredAsAdvertised` | answers and lines owed one correspond place by place (`McpInv`) |
| OSCAL | `ReferencesResolve`, `ValidIsIngestible`, `ImportedIsBound` | the document is blank, another tool's or a projection of one origin; the fields of each projection have the data types the schemas want; a manifest holds what came of the last document with its file name, whose props are lists, so that a last one exists (`OscalInv`) |
| observers | `VerifiedIsWitnessed` | envelopes of an authorised producer report conduct, and all conduct the claim is about has such an envelope (`WitnessInv`) |

Only model-checked: `Converges`, the liveness property of the controller, because
fairness and ENABLED are beyond the prover. The runs of section 6 show
violations, and a theorem could say no more of them. What stays informal is what
the models leave out, and that a model is the code; operators that walk over
data are written by place or as sets, so no proof needs an induction over data.

## 5. Plan

1. Done: kernel, broker, controller, store, service, with their runs; the
   broker's safety and refinement, the kernel's meaning, `NeverForgotten` and
   `AssuredIsStored` proved.
2. Done: receipts and SDK, bundles, state machine, state repository, webhook,
   identity, observers, OSCAL, commands, scaffolding and MCP server, with the run
   `components`; the state machine and the state repository proved.
3. Done: every invariant and action property of the passing runs proved.
4. Next: abstract specifications of the store (a set of accepted evidence) and of
   the service, and that the modules implement them.
5. Two bindings on one AssuranceState, once a document says which should win.

## 6. Where the code and its documents disagree

- Evidence of the admission webhook never assures a workload
  (`webhook_assurance`): it is recorded under a digest of the Pod's reference
  and evaluated against the Deployment's digest.
- An AssuranceState stays ASSURED past `validUntil` once its binding is deleted
  (`expired_projection`); ADR-003 has it become STALE.
- Prune of a store loaded from disk removes no file (`cas_prune`): the keys in
  memory are canonical digests, the file names hashes of the JSON.
- `GetAssuranceState` answers ASSURED for an observation without evidence
  (`service_no_evidence`), against invariant I-02 in its own comment.
- In audit mode a violating Pod leaves no evidence (`audit_evidence`); the README
  promises violation evidence.
- A bundle with another `validUntil` in an evaluation, or another state in a
  receipt that nobody verifies, is accepted (`tampered_bundle`), although the
  README has any modification fail; the manifest hashes neither. Nor does it hash
  the URIs of artifacts. `LoadedWasExported` says that this is all.

Disagreements that a passing property names as its exceptions:

- An empty `evidence_dir` in the settings erases the default directory
  (`config.go:77`), and what `record admission` then writes to `./evidence` is not
  seen by `state`, which goes on recommending `record admission` (`main.go:226`).
  `RecordedIsReported` excepts exactly these settings (`Erased`).
- With a server in the settings, `state` and `explain` never look at what
  `record` wrote, while `drift`, `evidence` and `inspect` do.
- The how-to on exports has all projections conform strictly to the NIST
  definitions. The assessment results of the MCP tool `project_oscal` have no
  `ValidUntil`, end in the year 1 and are refused by the embedded schema
  (`mcp/server.go:471`, `projector.go:319`); control IDs that are no tokens, as
  `AC-2(1)`, make any projection invalid that has them, and so do no evaluations
  at all. `ValidIsIngestible` asks for filled-in evaluations and findings
  (`Presentable`, `Readable`).
- A `freshness` or `max-age` that `time.ParseDuration` does not read (`P1D`,
  `30d`) becomes an earlier age or 24 hours without a word (`ingest.go:112`, 249).
  `ImportedIsBound` asks for the last age that can be read.

Smaller things met while modelling, which no run is about:

- `pkg/oskal` has a second `ComputeEvidenceRoot` that differs from the one
  receipts use.
- `oskal export ssp` says ASSURED of any workload without looking at evidence, as
  do the cockpit and, in their way, `export poam` and `receipt verify` without a
  file (`main.go:838`).
- `SubmitReceipt`, of the server and of the SDK, drops the control's version, so
  receipts of versioned controls never verify.
- The producer of an SVID attestation carries the scheme twice
  (`spiffe://spiffe://...`), and the default authority policy knows it as little
  as the producers of shield and openreports.
- `SanitizeK8sName` trims before it cuts, so a name may end in a hyphen, and
  different titles give one name, whose later manifest replaces the earlier.
- Two `record admission` of one name in one second write one file; `prune` never
  removes the files of `record`; `record` defaults to the namespace `production`
  and the reading commands to `default`.
- A `.oskal.yaml` that does not parse disables the environment variables too,
  although `config.go:58` lists them as the stronger source.
- Scaffolded contracts demand types and producers that no observer has, and the
  SOC 2 and ISO bindings do not refer to their contracts.
- Findings are related to observations by substring: AC-2 also finds AC-20.
- The state gauge is only ever set to 1, so the series of earlier states stay up
  (`telemetry/metrics.go:83`); payload files are looked for under the digest of the
  envelope and never removed (`cas.go:319`).
- The webhook reads neither ephemeral containers nor the capability `ALL`.
- `get_assurance_state` of the MCP server is UNKNOWN whatever evidence there is,
  `detect_drift` ASSURED; a line beyond 10 MB ends the loop.

## 7. Not modelled

Cryptography itself (hashes are injective, signatures cannot be forged, chains
are membership of roots); JSON and YAML layout and the NIST schemas beyond what
the documents differ in; payloads and attributes of evidence; terminal output,
the text of explanations, manifests as files, metrics and tracing; the evidence
verifier, which nothing calls; subject selectors and `ResolveControls`, whose
result is only logged; the wiring of `serve`, `mcp` and `scaffold`; generated
API code. Several bindings that share an AssuranceState overwrite each other;
the runs use one. Observations without a time, and several evidence references
that would differ only in their artifact, are left out of the service model.
