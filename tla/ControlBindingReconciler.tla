----------------------- MODULE ControlBindingReconciler -----------------------
(***************************************************************************)
(* The ControlBinding controller                                           *)
(* (internal/application/reconcile/controller.go) with the Kubernetes API  *)
(* server, the informer cache and the work queue it runs against, as       *)
(* controller-runtime provides them, and the evidence store it reads.      *)
(*                                                                         *)
(* One worker takes bindings off the queue.  Each remote call of Reconcile *)
(* is a step of its own, so that edits of the binding, of its contract and *)
(* of the workload, new evidence, the clock and a crash can fall between   *)
(* any two of them.  Deployments and EvidenceContracts are read directly:  *)
(* nothing orders a stale read of them before or after anything else, so   *)
(* it is the same as an edit that comes later.                             *)
(***************************************************************************)
EXTENDS EvidenceContract

CONSTANTS
    Bindings,        \* names of ControlBindings
    Workloads,       \* names of Deployments and of their AssuranceStates
    Target,          \* Target[b]: b without its suffix "-binding"
    BindingSpecs,    \* specs: [controls, requirements, contractRef]
    ContractSpecs,   \* specs an EvidenceContract object may get
    Kinds,           \* kinds of evidence: [type, producer]
    Sources,         \* who computes an envelope's subject digest
    Skews,           \* how far the capture time may be ahead of the clock
    DurableStore,    \* TRUE if the evidence store is on disk
    DefaultMaxAge,   \* 24 hours
    Validity,        \* 5 minutes
    MaxTime,         \* bound: the clock runs from 0 to MaxTime
    MaxGeneration,   \* bound: generations of a binding
    MaxRevision,     \* bound: revisions of a Deployment
    MaxEvidence,     \* bound: envelopes per workload
    MaxEdits,        \* bound: edits of the EvidenceContract
    MaxFaults,       \* bound: failed remote calls
    MaxRestarts      \* bound: crashes of the controller

ASSUME ReconcilerAssumption ==
    /\ Target \in [Bindings -> Workloads]
    /\ BindingSpecs \subseteq [controls : Nat, requirements : Nat, contractRef : BOOLEAN]
    /\ \A ec \in ContractSpecs :
         /\ ec.requirements \in Seq({ec.requirements[i] : i \in DOMAIN ec.requirements})
         /\ \A i \in DOMAIN ec.requirements :
              ec.requirements[i] \in [type : {ec.requirements[i].type}, required : BOOLEAN,
                                     maxAge : Int, accepted : {ec.requirements[i].accepted}]
    /\ Sources \subseteq {"resolver", "webhook"}
    /\ DurableStore \in BOOLEAN
    /\ {DefaultMaxAge, Validity} \subseteq Nat \ {0}
    /\ {MaxTime, MaxGeneration, MaxRevision, MaxEvidence, MaxEdits,
        MaxFaults, MaxRestarts} \subseteq Nat
    /\ Skews \subseteq Int

VARIABLES
    api,        \* api[b]: the ControlBinding at the API server
    cache,      \* cache[b]: the informer's copy of it
    contract,   \* the EvidenceContract object, no requirements if absent
    revision,   \* revision[w]: the Deployment's generation, 0 if absent
    evidence,   \* evidence[w]: what ListBySubject returns, in order
    projection, \* projection[w]: the status of the AssuranceState object
    queue,      \* bindings in the work queue
    timers,     \* bindings that are requeued later (RequeueAfter)
    worker,     \* the call of Reconcile in progress
    basis,      \* history: what the status of a binding was computed from
    now,        \* the clock
    faults,     \* remote calls that failed so far
    restarts    \* crashes so far

cluster == <<api, contract, revision, evidence>>
vars == <<api, cache, contract, revision, evidence, projection, queue, timers,
          worker, basis, now, faults, restarts>>

(***************************************************************************)
(* Digests.  A Deployment's digest covers its UID and generation; without  *)
(* one the resolver hashes the subject's attributes.  The webhook hashes   *)
(* the SubjectRef of the Pod it admits.                                    *)
(***************************************************************************)
ComputeSubjectDigest(w) ==
    IF revision[w] > 0 THEN <<"deploy", w, revision[w]>> ELSE <<"attributes", w>>

PodSubjectDigest(w) == <<"pod", w, revision[w]>>

\* Epochs.  Reconcile fills in the subject only, and Matches then compares
\* nothing else, whatever else the producer of the evidence filled in.
EpochOf(digest) ==
    [d \in Dimensions |-> IF d = "subject" THEN digest ELSE Unset]

(***************************************************************************)
(* The contract Reconcile evaluates: the referenced object if there is one *)
(* with requirements, else one "admission" item per requirement.           *)
(***************************************************************************)
InlineRequirement ==
    [type |-> <<"admission">>, required |-> TRUE, maxAge |-> DefaultMaxAge,
     accepted |-> {}]

EffectiveContract(spec, ec) ==
    IF spec.requirements > 0 /\ spec.contractRef /\ ec.requirements # <<>>
    THEN [requirements |->
            [i \in DOMAIN ec.requirements |->
               [ec.requirements[i] EXCEPT
                  !.maxAge = IF @ <= 0 THEN DefaultMaxAge ELSE @]],
          onMissing |-> IF ec.onMissing = "Failed" THEN "FAILED" ELSE "UNKNOWN"]
    ELSE [requirements |-> [i \in 1 .. spec.requirements |-> InlineRequirement],
          onMissing |-> "UNKNOWN"]

NoContract == [requirements |-> <<>>, onMissing |-> "UNKNOWN"]

\* A verified claim counts as assured.
Assured(state) == IF state = "VERIFIED" THEN "ASSURED" ELSE state

\* Faulty variants of Overall: the last control decides; a verified claim is
\* not turned into an assured one.
OverallLast(states) ==
    IF states = <<>> THEN "ASSURED" ELSE Assured(states[Len(states)])

OverallKeepsVerified(states) ==
    IF \E i \in DOMAIN states : states[i] = "FAILED" THEN "FAILED"
    ELSE IF \E i \in DOMAIN states : states[i] = "UNKNOWN" THEN "UNKNOWN"
    ELSE IF \E i \in DOMAIN states : states[i] = "STALE" THEN "STALE"
    ELSE "VERIFIED"

\* The loop over the controls keeps the worst state: FAILED before UNKNOWN
\* before STALE.
Overall(states) ==
    IF \E i \in DOMAIN states : states[i] = "FAILED" THEN "FAILED"
    ELSE IF \E i \in DOMAIN states : states[i] = "UNKNOWN" THEN "UNKNOWN"
    ELSE IF \E i \in DOMAIN states : states[i] = "STALE" THEN "STALE"
    ELSE "ASSURED"

NewBinding(spec) ==
    [exists |-> TRUE, generation |-> 1, spec |-> spec, state |-> "NONE",
     observedGeneration |-> 0, transitionAt |-> 0]

NoProjection ==
    [state |-> "NONE", controls |-> <<>>, evidenceRoot |-> {},
     evaluatedAt |-> -1, validUntil |-> -1, subject |-> Unset]

Idle == [pc |-> "idle"]

NoBasis == [digest |-> Unset, contract |-> NoContract, evaluatedAt |-> -1]

Init ==
    /\ \E specs \in [Bindings -> BindingSpecs] :
          api = [b \in Bindings |-> NewBinding(specs[b])]
    /\ cache = api
    /\ \E spec \in ContractSpecs : contract = [spec |-> spec, generation |-> 1]
    /\ revision \in [Workloads -> {0, 1}]
    /\ evidence = [w \in Workloads |-> <<>>]
    /\ projection = [w \in Workloads |-> NoProjection]
    /\ queue = Bindings
    /\ timers = {}
    /\ worker = Idle
    /\ basis = [b \in Bindings |-> NoBasis]
    /\ now = 0
    /\ faults = 0
    /\ restarts = 0

-----------------------------------------------------------------------------
(***************************************************************************)
(* The controller.                                                         *)
(***************************************************************************)

\* The informer sees the latest version of a binding and enqueues it.
Deliver(b) ==
    /\ cache[b] # api[b]
    /\ cache' = [cache EXCEPT ![b] = api[b]]
    /\ queue' = queue \cup {b}
    /\ UNCHANGED <<cluster, projection, timers, worker, basis, now, faults,
                   restarts>>

\* RequeueAfter has passed.
TimerFires(b) ==
    /\ b \in timers
    /\ timers' = timers \ {b}
    /\ queue' = queue \cup {b}
    /\ UNCHANGED <<cluster, cache, projection, worker, basis, now, faults,
                   restarts>>

\* Reconcile starts: the binding is read from the cache; a deleted one is
\* ignored, and one without controls is not evaluated.
Begin(b) ==
    /\ worker.pc = "idle"
    /\ b \in queue
    /\ queue' = queue \ {b}
    /\ worker' =
         IF cache[b].exists
         THEN [pc |-> IF cache[b].spec.controls > 0 THEN "subject" ELSE "status",
               binding |-> b, object |-> cache[b], digest |-> Unset,
               contract |-> NoContract,
               states |-> <<>>, root |-> {}, evaluatedAt |-> -1,
               failed |-> FALSE]
         ELSE Idle
    /\ UNCHANGED <<cluster, cache, projection, timers, basis, now, faults,
                   restarts>>

ResolveSubject ==
    /\ worker.pc = "subject"
    /\ worker' = [worker EXCEPT !.pc = "contract",
                    !.digest = ComputeSubjectDigest(Target[worker.binding])]
    /\ UNCHANGED <<cluster, cache, projection, queue, timers, basis, now,
                   faults, restarts>>

LoadContract ==
    /\ worker.pc = "contract"
    /\ worker' = [worker EXCEPT !.pc = "evaluate",
                    !.contract = EffectiveContract(worker.object.spec,
                                                  contract.spec)]
    /\ UNCHANGED <<cluster, cache, projection, queue, timers, basis, now,
                   faults, restarts>>

\* ContractEvaluator.Evaluate for the next control, on the evidence and at the
\* time of that call.
EvaluateControl ==
    /\ worker.pc = "evaluate"
    /\ LET result == Evaluate(worker.contract,
                              evidence[Target[worker.binding]],
                              EpochOf(worker.digest), now)
           states == Append(worker.states, result.state)
       IN worker' = [worker EXCEPT
                       !.states = states,
                       !.root = {env.artifact : env \in result.verified},
                       !.evaluatedAt = now,
                       !.pc = IF Len(states) = worker.object.spec.controls
                              THEN "status" ELSE "evaluate"]
    /\ UNCHANGED <<cluster, cache, projection, queue, timers, basis, now,
                   faults, restarts>>

\* The ClaimEvaluator returns an error, as its port allows (the evaluator
\* shipped returns none): the loop ends with FAILED.
EvaluateFails ==
    /\ worker.pc = "evaluate"
    /\ faults < MaxFaults
    /\ faults' = faults + 1
    /\ worker' = [worker EXCEPT !.failed = TRUE, !.pc = "status"]
    /\ UNCHANGED <<cluster, cache, projection, queue, timers, basis, now,
                   restarts>>

\* The state Reconcile reports.
TargetState ==
    IF worker.object.spec.controls = 0 THEN "UNKNOWN"
    ELSE IF worker.failed THEN "FAILED"
    ELSE Overall(worker.states)

\* Status().Update of the binding.  The API server accepts it only for the
\* version that was read; an update that changes nothing makes no new version.
UpdateStatus ==
    /\ worker.pc = "status"
    /\ api[worker.binding] = worker.object
    /\ api' = [api EXCEPT ![worker.binding] =
                 [worker.object EXCEPT
                    !.state = TargetState,
                    !.observedGeneration = worker.object.generation,
                    !.transitionAt = now]]
    /\ basis' = [basis EXCEPT ![worker.binding] =
                   [digest |-> worker.digest, contract |-> worker.contract,
                    evaluatedAt |-> worker.evaluatedAt]]
    /\ worker' = [worker EXCEPT !.pc = "project"]
    /\ UNCHANGED <<cache, contract, revision, evidence, projection, queue,
                   timers, now, faults, restarts>>

\* Faulty variant of UpdateStatusFails: the error is swallowed.
UpdateStatusGivesUp ==
    /\ worker.pc = "status"
    /\ \/ /\ api[worker.binding] # worker.object
          /\ UNCHANGED faults
       \/ /\ faults < MaxFaults
          /\ faults' = faults + 1
    /\ worker' = Idle
    /\ UNCHANGED <<cluster, cache, projection, queue, timers, basis, now,
                   restarts>>

\* A conflict, or a failed call: Reconcile returns the error and is retried.
UpdateStatusFails ==
    /\ worker.pc = "status"
    /\ \/ /\ api[worker.binding] # worker.object
          /\ UNCHANGED faults
       \/ /\ faults < MaxFaults
          /\ faults' = faults + 1
    /\ queue' = queue \cup {worker.binding}
    /\ worker' = Idle
    /\ UNCHANGED <<cluster, cache, projection, timers, basis, now, restarts>>

\* What the status of the AssuranceState object becomes.
ProjectionOf(old) ==
    LET evaluated == worker.states # <<>> IN
    [state |-> TargetState,
     controls |-> [i \in 1 .. worker.object.spec.controls |->
                     IF i <= Len(worker.states)
                     THEN Assured(worker.states[i]) ELSE TargetState],
     evidenceRoot |-> worker.root,
     evaluatedAt |-> IF evaluated THEN worker.evaluatedAt ELSE old.evaluatedAt,
     validUntil |-> IF evaluated THEN worker.evaluatedAt + Validity
                    ELSE old.validUntil,
     subject |-> IF evaluated THEN worker.digest ELSE old.subject]

\* Faulty variant of UpdateProjection: no RequeueAfter.
UpdateProjectionOnce ==
    /\ worker.pc = "project"
    /\ LET w == Target[worker.binding] IN
       \/ /\ projection' = [projection EXCEPT ![w] = ProjectionOf(@)]
          /\ UNCHANGED faults
       \/ /\ faults < MaxFaults
          /\ faults' = faults + 1
          /\ UNCHANGED projection
    /\ worker' = Idle
    /\ UNCHANGED <<cluster, cache, queue, timers, basis, now, restarts>>

\* The AssuranceState of the workload is updated; a failure of the List or of
\* the update is only logged.  Reconcile returns with RequeueAfter.
UpdateProjection ==
    /\ worker.pc = "project"
    /\ LET w == Target[worker.binding] IN
       \/ /\ projection' = [projection EXCEPT ![w] = ProjectionOf(@)]
          /\ UNCHANGED faults
       \/ /\ faults < MaxFaults
          /\ faults' = faults + 1
          /\ UNCHANGED projection
    /\ timers' = timers \cup {worker.binding}
    /\ worker' = Idle
    /\ UNCHANGED <<cluster, cache, queue, basis, now, restarts>>

\* The controller dies and comes up again: queue, timers and the call in
\* progress are lost, and an evidence store in memory too.  The informer's
\* first List enqueues every binding.
Restart ==
    /\ restarts < MaxRestarts
    /\ restarts' = restarts + 1
    /\ worker' = Idle
    /\ timers' = {}
    /\ cache' = api
    /\ queue' = {b \in Bindings : api[b].exists}
    /\ evidence' = IF DurableStore THEN evidence
                   ELSE [w \in Workloads |-> <<>>]
    /\ UNCHANGED <<api, contract, revision, projection, basis, now, faults>>

-----------------------------------------------------------------------------
(***************************************************************************)
(* The cluster around it.                                                  *)
(***************************************************************************)

EditBinding(b) ==
    /\ api[b].exists
    /\ api[b].generation < MaxGeneration
    /\ \E spec \in BindingSpecs \ {api[b].spec} :
          api' = [api EXCEPT ![b].spec = spec, ![b].generation = @ + 1]
    /\ UNCHANGED <<cache, contract, revision, evidence, projection, queue,
                   timers, worker, basis, now, faults, restarts>>

DeleteBinding(b) ==
    /\ api[b].exists
    /\ api' = [api EXCEPT ![b].exists = FALSE]
    /\ UNCHANGED <<cache, contract, revision, evidence, projection, queue,
                   timers, worker, basis, now, faults, restarts>>

\* The EvidenceContract is edited, created or deleted.
EditContract ==
    /\ contract.generation <= MaxEdits
    /\ \E spec \in ContractSpecs \ {contract.spec} :
          contract' = [spec |-> spec, generation |-> contract.generation + 1]
    /\ UNCHANGED <<api, cache, revision, evidence, projection, queue, timers,
                   worker, basis, now, faults, restarts>>

\* The Deployment is created, or its generation grows.
Rollout(w) ==
    /\ revision[w] < MaxRevision
    /\ revision' = [revision EXCEPT ![w] = @ + 1]
    /\ UNCHANGED <<api, cache, contract, evidence, projection, queue, timers,
                   worker, basis, now, faults, restarts>>

\* An envelope about the workload's current revision enters the store.
StoreEvidence(w) ==
    /\ Len(evidence[w]) < MaxEvidence
    /\ \E kind \in Kinds, source \in Sources, skew \in Skews :
         evidence' = [evidence EXCEPT ![w] = Append(@,
           [type |-> kind.type, producer |-> kind.producer,
            capturedAt |-> now + skew,
            epoch |-> EpochOf(IF source = "webhook" THEN PodSubjectDigest(w)
                              ELSE ComputeSubjectDigest(w)),
            artifact |-> <<source, w, revision[w], now>>])]
    /\ UNCHANGED <<api, cache, contract, revision, projection, queue, timers,
                   worker, basis, now, faults, restarts>>

Tick ==
    /\ now < MaxTime
    /\ now' = now + 1
    /\ UNCHANGED <<cluster, cache, projection, queue, timers, worker, basis,
                   faults, restarts>>

Worker ==
    \/ ResolveSubject
    \/ LoadContract
    \/ EvaluateControl
    \/ EvaluateFails
    \/ UpdateStatus
    \/ UpdateStatusFails
    \/ UpdateProjection

Cluster ==
    \/ \E b \in Bindings : EditBinding(b) \/ DeleteBinding(b)
    \/ EditContract
    \/ \E w \in Workloads : Rollout(w) \/ StoreEvidence(w)
    \/ Tick

Next ==
    \/ \E b \in Bindings : Deliver(b) \/ TimerFires(b) \/ Begin(b)
    \/ Worker
    \/ Restart
    \/ Cluster

Spec == Init /\ [][Next]_vars

(***************************************************************************)
(* Watches deliver, delays run out and the worker keeps working: all of    *)
(* them are goroutines of the controller.  Nothing is assumed of the       *)
(* cluster or the clock, and failures stop because they are bounded.       *)
(***************************************************************************)
Fairness ==
    /\ \A b \in Bindings : /\ WF_vars(Deliver(b))
                          /\ WF_vars(TimerFires(b))
                          /\ SF_vars(Begin(b))
    /\ WF_vars(Worker)

FairSpec == Spec /\ Fairness

-----------------------------------------------------------------------------
(***************************************************************************)
(* Properties.                                                             *)
(***************************************************************************)

States == {"NONE", "ASSURED", "STALE", "UNKNOWN", "FAILED"}

\* Type invariant of the status fields and of the call in progress.
TypeOK ==
    /\ \A b \in Bindings :
         /\ api[b].state \in States
         /\ api[b].observedGeneration \in 0 .. api[b].generation
         /\ cache[b].generation \in 1 .. api[b].generation
    /\ \A w \in Workloads : projection[w].state \in States
    /\ worker.pc \in {"idle", "subject", "contract", "evaluate", "status",
                      "project"}
    /\ queue \subseteq Bindings /\ timers \subseteq Bindings

\* The set of envelopes stored for a workload.
Stored(w) == {evidence[w][i] : i \in DOMAIN evidence[w]}

\* A binding reported as ASSURED has controls, and for the subject digest, the
\* contract and the time its status was computed from, all evidence the
\* contract requires was in the store (invariant I-02 at the controller).  If
\* observedGeneration is current, that contract is one of the current spec,
\* however edits and the reconcile interleaved (controller.go 180-250).
AssuredOnEvidence ==
    \A b \in Bindings :
        api[b].state = "ASSURED" =>
            /\ DurableStore =>
                 Supported(basis[b].contract, Stored(Target[b]),
                           EpochOf(basis[b].digest), basis[b].evaluatedAt)
            /\ api[b].observedGeneration = api[b].generation =>
                 /\ api[b].spec.controls > 0
                 /\ \E ec \in ContractSpecs :
                      basis[b].contract = EffectiveContract(api[b].spec, ec)

\* No binding is ever forgotten: it is queued, waits for a delay, is being
\* reconciled, or a watch event for it is on its way, whatever failed, was
\* edited or crashed (the return values of Reconcile, controller.go 247-250
\* and 328).
NeverForgotten ==
    \A b \in Bindings :
        api[b].exists =>
            \/ b \in queue \cup timers
            \/ worker.pc # "idle" /\ worker.binding = b
            \/ cache[b] # api[b]

\* An AssuranceState that says ASSURED says it of every control, names the
\* evidence and the subject it rests on and how long it is valid
\* (controller.go 263-295).
AssuredProjectionIsComplete ==
    \A w \in Workloads :
        projection[w].state = "ASSURED" =>
            /\ projection[w].controls # <<>>
            /\ \A i \in DOMAIN projection[w].controls :
                  projection[w].controls[i] = "ASSURED"
            /\ projection[w].evidenceRoot # {}
            /\ projection[w].subject # Unset
            /\ projection[w].validUntil = projection[w].evaluatedAt + Validity

\* What the binding's state should be, all things as they are now.
CurrentState(b) ==
    IF api[b].spec.controls = 0 THEN "UNKNOWN"
    ELSE Assured(Evaluate(EffectiveContract(api[b].spec, contract.spec),
                          evidence[Target[b]],
                          EpochOf(ComputeSubjectDigest(Target[b])), now).state)

\* Level-triggered convergence: once the cluster is quiet, the status of every
\* binding and the AssuranceState become what an evaluation of the present
\* contract, workload and evidence says, and stay so: drift, conflicts, failed
\* calls and crashes are made good by the requeue (controller.go 328).
Converges ==
    <>[](\A b \in Bindings :
            api[b].exists => /\ api[b].state = CurrentState(b)
                             /\ projection[Target[b]].state = CurrentState(b))

\* Temporal drift as ADR-003 states it: an AssuranceState that is ASSURED past
\* its validUntil does not stay so.
ExpiredIsNotAssured ==
    \A w \in Workloads :
        (projection[w].state = "ASSURED" /\ now > projection[w].validUntil)
            ~> (projection[w].state # "ASSURED" \/ now <= projection[w].validUntil)

\* There is admission evidence in the store about the Pods of the workload's
\* current revision, and the binding asks for no more than that.
Compliant(b) ==
    /\ api[b].exists /\ api[b].spec.controls > 0
    /\ api[b].spec.requirements > 0 /\ ~api[b].spec.contractRef
    /\ \E env \in Stored(Target[b]) :
          /\ env.artifact[3] = revision[Target[b]]
          /\ matchesEvidenceType(env.type, InlineRequirement.type)
          /\ IsFresh(InlineRequirement, env.capturedAt, now)

\* A workload whose Pods the webhook admitted becomes ASSURED.
ComplianceIsAssured ==
    \A b \in Bindings : Compliant(b) ~> (api[b].state = "ASSURED" \/ ~Compliant(b))
=============================================================================
