-------------------- MODULE ControlBindingReconcilerProofs --------------------
(***************************************************************************)
(* No binding is ever forgotten by the controller, for any number of       *)
(* bindings, edits, failures and crashes.                                  *)
(***************************************************************************)
EXTENDS ControlBindingReconciler, EvidenceContractProofs, SequenceTheorems, TLAPS

\* The informer never runs ahead of the API server.  Without this an edit could
\* turn a binding into what the cache holds already, and no event would follow.
CacheBehind ==
    \A b \in Bindings :
        /\ "generation" \in DOMAIN api[b]
        /\ api[b].generation \in Nat
        /\ "generation" \in DOMAIN cache[b]
        /\ cache[b].generation \in Nat
        /\ cache[b].generation <= api[b].generation

\* What NeverForgotten needs to be inductive: the maps are indexed by binding,
\* a call in progress is about one of the bindings, and the cache is behind.
ReconcilerInv ==
    /\ DOMAIN api = Bindings
    /\ DOMAIN cache = Bindings
    /\ worker.pc # "idle" => worker.binding \in Bindings
    /\ CacheBehind
    /\ NeverForgotten

\* A worker that does nothing is idle.
LEMMA IdleFacts == Idle.pc = "idle"
  BY DEF Idle

\* Initially every binding is queued.
LEMMA InitReconcilerInv == Init => ReconcilerInv
<1> SUFFICES ASSUME Init PROVE ReconcilerInv
  OBVIOUS
<1>1. /\ DOMAIN api = Bindings
      /\ \A b \in Bindings : /\ "generation" \in DOMAIN api[b]
                            /\ api[b].generation = 1
      /\ cache = api /\ queue = Bindings
  BY DEF Init, NewBinding
<1>2. worker.pc = "idle"
  BY IdleFacts DEF Init
<1>3. QED
  BY <1>1, <1>2 DEF ReconcilerInv, CacheBehind, NeverForgotten

\* A step of the worker inside one call of Reconcile changes neither the
\* binding it works on nor what else is pending.
LEMMA WithinCall ==
    ASSUME ReconcilerInv,
           worker.pc # "idle", worker'.pc # "idle",
           worker'.binding = worker.binding,
           UNCHANGED <<api, cache, queue, timers>>
    PROVE  ReconcilerInv'
  BY DEF ReconcilerInv, CacheBehind, NeverForgotten

\* Every step of a worker, the queue and the cluster keeps the invariant.
LEMMA StepReconcilerInv == ReconcilerInv /\ [Next]_vars => ReconcilerInv'
<1> SUFFICES ASSUME ReconcilerInv, [Next]_vars
             PROVE  ReconcilerInv'
  OBVIOUS
<1>1. ASSUME NEW b \in Bindings, Deliver(b) PROVE ReconcilerInv'
  BY <1>1 DEF ReconcilerInv, CacheBehind, NeverForgotten, Deliver, cluster
<1>2. ASSUME NEW b \in Bindings, TimerFires(b) PROVE ReconcilerInv'
  BY <1>2 DEF ReconcilerInv, CacheBehind, NeverForgotten, TimerFires, cluster
<1>3. ASSUME NEW b \in Bindings, Begin(b) PROVE ReconcilerInv'
  <2>1. /\ queue' = queue \ {b}
        /\ UNCHANGED <<api, cache, timers>>
        /\ worker.pc = "idle"
    BY <1>3 DEF Begin, cluster
  <2>2. CASE cache[b].exists
    <3>1. worker'.pc # "idle" /\ worker'.binding = b
      BY <1>3, <2>2 DEF Begin
    <3>2. QED
      BY <2>1, <3>1 DEF ReconcilerInv, CacheBehind, NeverForgotten
  <2>3. CASE ~cache[b].exists
    <3>1. worker'.pc = "idle"
      BY <1>3, <2>3, IdleFacts DEF Begin
    <3>2. api[b].exists => cache[b] # api[b]
      BY <2>3
    <3>3. QED
      BY <2>1, <3>1, <3>2 DEF ReconcilerInv, CacheBehind, NeverForgotten
  <2>4. QED
    BY <2>2, <2>3
<1>4. CASE ResolveSubject
  BY <1>4, WithinCall DEF ResolveSubject, cluster
<1>5. CASE LoadContract
  BY <1>5, WithinCall DEF LoadContract, cluster
<1>6. CASE EvaluateControl
  BY <1>6, WithinCall DEF EvaluateControl, cluster
<1>7. CASE EvaluateFails
  BY <1>7, WithinCall DEF EvaluateFails, cluster
<1>8. CASE UpdateStatus
  BY <1>8 DEF UpdateStatus, ReconcilerInv, CacheBehind, NeverForgotten
<1>9. CASE UpdateStatusFails
  BY <1>9, IdleFacts DEF UpdateStatusFails, cluster, ReconcilerInv, CacheBehind, NeverForgotten
<1>10. CASE UpdateProjection
  BY <1>10, IdleFacts DEF UpdateProjection, cluster, ReconcilerInv, CacheBehind, NeverForgotten
<1>11. CASE Restart
  BY <1>11, IdleFacts DEF Restart, ReconcilerInv, CacheBehind, NeverForgotten
<1>12. ASSUME NEW b \in Bindings, EditBinding(b) PROVE ReconcilerInv'
  <2>1. PICK spec \in BindingSpecs :
            api' = [api EXCEPT ![b].spec = spec, ![b].generation = @ + 1]
    BY <1>12 DEF EditBinding
  <2>2. UNCHANGED <<cache, queue, timers, worker>>
    BY <1>12 DEF EditBinding
  <2>3. /\ DOMAIN api' = Bindings
        /\ api'[b].generation = api[b].generation + 1
        /\ "generation" \in DOMAIN api'[b]
        /\ \A x \in Bindings : x # b => api'[x] = api[x]
    BY <2>1 DEF ReconcilerInv, CacheBehind
  <2>4. cache[b].generation # api'[b].generation
    BY <2>3 DEF ReconcilerInv, CacheBehind
  <2>5. CacheBehind'
    BY <2>2, <2>3 DEF ReconcilerInv, CacheBehind
  <2>6. NeverForgotten'
    BY <2>2, <2>3, <2>4 DEF ReconcilerInv, NeverForgotten
  <2>7. QED
    BY <2>2, <2>3, <2>5, <2>6 DEF ReconcilerInv
<1>13. ASSUME NEW b \in Bindings, DeleteBinding(b) PROVE ReconcilerInv'
  BY <1>13 DEF DeleteBinding, ReconcilerInv, CacheBehind, NeverForgotten
<1>14. ASSUME UNCHANGED <<api, cache, queue, timers, worker>> PROVE ReconcilerInv'
  BY <1>14 DEF ReconcilerInv, CacheBehind, NeverForgotten
<1>15. CASE EditContract \/ Tick \/ UNCHANGED vars
  BY <1>14, <1>15 DEF EditContract, Tick, cluster, vars
<1>16. ASSUME NEW w \in Workloads, Rollout(w) \/ StoreEvidence(w)
       PROVE  ReconcilerInv'
  BY <1>14, <1>16 DEF Rollout, StoreEvidence
<1>17. QED
  BY <1>1, <1>2, <1>3, <1>4, <1>5, <1>6, <1>7, <1>8, <1>9, <1>10, <1>11, <1>12,
     <1>13, <1>15, <1>16 DEF Next, Worker, Cluster

\* However edits, conflicts, failed calls and crashes interleave, every existing
\* binding is queued, delayed, being reconciled or about to be delivered.
THEOREM ReconcilerNeverForgets == Spec => []NeverForgotten
<1>1. ReconcilerInv => NeverForgotten
  BY DEF ReconcilerInv
<1>2. QED
  BY <1>1, InitReconcilerInv, StepReconcilerInv, PTL DEF Spec

(***************************************************************************)
(* What the controller reports, and on which evidence.                     *)
(***************************************************************************)

Objects ==
    [exists : BOOLEAN, generation : Nat \ {0}, spec : BindingSpecs, state : States,
     observedGeneration : Nat, transitionAt : Nat]

Digests ==
    {Unset} \cup ({"deploy", "pod"} \X Workloads \X Nat)
            \cup ({"attributes"} \X Workloads)

Envelopes ==
    [type : {kind.type : kind \in Kinds}, producer : {kind.producer : kind \in Kinds},
     capturedAt : Int, epoch : [Dimensions -> Digests],
     artifact : Sources \X Workloads \X Nat \X Nat]

\* The shapes of what the API server, the informer and the store hold.
ObjectsInv ==
    /\ api \in [Bindings -> Objects] /\ cache \in [Bindings -> Objects]
    /\ \A b \in Bindings : /\ cache[b].generation <= api[b].generation
                          /\ api[b].observedGeneration <= api[b].generation
    /\ contract.spec \in ContractSpecs
    /\ revision \in [Workloads -> Nat]
    /\ evidence \in [Workloads -> Seq(Envelopes)]
    /\ now \in Nat
    /\ queue \subseteq Bindings /\ timers \subseteq Bindings
    /\ DOMAIN basis = Bindings
    /\ DOMAIN projection = Workloads
    /\ \A w \in Workloads : projection[w].state \in States

\* A call of Reconcile in progress has all its local variables.
CallShape ==
    /\ worker = [pc |-> worker.pc, binding |-> worker.binding, object |-> worker.object,
                 digest |-> worker.digest, contract |-> worker.contract,
                 states |-> worker.states, root |-> worker.root,
                 evaluatedAt |-> worker.evaluatedAt, failed |-> worker.failed]
    /\ worker.pc \in {"subject", "contract", "evaluate", "status", "project"}
    /\ worker.binding \in Bindings
    /\ worker.object \in Objects
    /\ worker.states \in Seq({"VERIFIED", "STALE", "UNKNOWN", "FAILED"})
    /\ worker.failed \in BOOLEAN

\* What the last control's verdict rests on, when it is VERIFIED: evidence in the
\* store for the digest, the contract and the time of the call.
LastVerdictHolds ==
    /\ worker.digest # Unset
    /\ \E ec \in ContractSpecs :
          worker.contract = EffectiveContract(worker.object.spec, ec)
    /\ worker.states # <<>> /\ worker.states[Len(worker.states)] = "VERIFIED" =>
          /\ DurableStore => Supported(worker.contract, Stored(Target[worker.binding]),
                                       EpochOf(worker.digest), worker.evaluatedAt)
          /\ worker.root # {}

\* How far the call has come.
CallInv ==
    worker.pc # "idle" =>
        /\ CallShape
        /\ worker.pc \in {"subject", "contract", "evaluate"} =>
             worker.object.spec.controls > 0 /\ ~ worker.failed
        /\ worker.pc \in {"subject", "contract"} => worker.states = <<>>
        /\ worker.pc = "contract" => worker.digest # Unset
        /\ worker.pc = "evaluate" =>
             LastVerdictHolds /\ Len(worker.states) < worker.object.spec.controls
        /\ worker.pc \in {"status", "project"} =>
             \/ worker.object.spec.controls = 0
             \/ worker.failed
             \/ LastVerdictHolds /\ Len(worker.states) = worker.object.spec.controls

ReportInv ==
    /\ ObjectsInv
    /\ CallInv
    /\ AssuredOnEvidence
    /\ AssuredProjectionIsComplete

\* The contract Reconcile evaluates is a list of requirements with ages, and asks
\* for FAILED or UNKNOWN when evidence is missing.
LEMMA EffectiveContractShape ==
    ASSUME NEW spec \in BindingSpecs, NEW ec \in ContractSpecs
    PROVE  LET c == EffectiveContract(spec, ec) IN
           /\ \E n \in Nat : DOMAIN c.requirements = 1 .. n
           /\ \A r \in DOMAIN c.requirements : c.requirements[r].maxAge \in Int
           /\ c.onMissing \in {"FAILED", "UNKNOWN"}
<1> DEFINE c == EffectiveContract(spec, ec)
           reqs == ec.requirements
<1>1. spec.requirements \in Nat
  BY ReconcilerAssumption
<1>2. DefaultMaxAge \in Int
  BY ReconcilerAssumption
<1>3. DOMAIN reqs = 1 .. Len(reqs) /\ Len(reqs) \in Nat
  BY ReconcilerAssumption
<1>4. \A i \in DOMAIN reqs : "maxAge" \in DOMAIN reqs[i] /\ reqs[i].maxAge \in Int
  BY ReconcilerAssumption
<1>5. CASE spec.requirements > 0 /\ spec.contractRef /\ reqs # <<>>
  <2>1. /\ DOMAIN c.requirements = DOMAIN reqs
        /\ \A r \in DOMAIN reqs :
             c.requirements[r] = [reqs[r] EXCEPT
                                    !.maxAge = IF @ <= 0 THEN DefaultMaxAge ELSE @]
        /\ c.onMissing \in {"FAILED", "UNKNOWN"}
    BY <1>5 DEF EffectiveContract
  <2>2. \A r \in DOMAIN reqs : c.requirements[r].maxAge \in Int
    BY <1>2, <1>4, <2>1
  <2> QED
    BY <1>3, <2>1, <2>2
<1>6. CASE ~ (spec.requirements > 0 /\ spec.contractRef /\ reqs # <<>>)
  <2>1. /\ DOMAIN c.requirements = 1 .. spec.requirements
        /\ \A r \in DOMAIN c.requirements : c.requirements[r] = InlineRequirement
        /\ c.onMissing = "UNKNOWN"
    BY <1>6 DEF EffectiveContract
  <2>2. InlineRequirement.maxAge = DefaultMaxAge
    BY DEF InlineRequirement
  <2> QED
    BY <1>1, <1>2, <2>1, <2>2
<1> QED
  BY <1>5, <1>6

\* One call of the evaluator on a contract Reconcile built.
LEMMA EvaluationFacts ==
    ASSUME NEW spec \in BindingSpecs, NEW ec \in ContractSpecs,
           NEW envelopes, \A i \in DOMAIN envelopes : envelopes[i].capturedAt \in Int,
           NEW epoch, NEW t \in Int
    PROVE  LET c == EffectiveContract(spec, ec)
               result == Evaluate(c, envelopes, epoch, t)
           IN /\ result.state \in {"VERIFIED", "STALE", "UNKNOWN", "FAILED"}
              /\ result.state = "VERIFIED" =>
                   /\ Supported(c, {envelopes[i] : i \in DOMAIN envelopes}, epoch, t)
                   /\ result.verified # {}
<1> DEFINE c == EffectiveContract(spec, ec)
<1>1. /\ \E n \in Nat : DOMAIN c.requirements = 1 .. n
      /\ \A r \in DOMAIN c.requirements : c.requirements[r].maxAge \in Int
      /\ c.onMissing \in {"FAILED", "UNKNOWN"}
  BY EffectiveContractShape
<1> HIDE DEF c
<1>2. WellFormed(c, envelopes, t)
  BY <1>1 DEF WellFormed
<1>3. Evaluate(c, envelopes, epoch, t).state \in {"VERIFIED", "STALE", "UNKNOWN", "FAILED"}
  BY <1>1, VerdictRange
<1>4. Evaluate(c, envelopes, epoch, t).state = "VERIFIED" =>
        /\ Supported(c, {envelopes[i] : i \in DOMAIN envelopes}, epoch, t)
        /\ Evaluate(c, envelopes, epoch, t).verified # {}
  BY <1>2, VerifiedIffSupported, VerifiedNamesEvidence DEF Contents
<1> QED
  BY <1>3, <1>4 DEF c

\* The state a call reports is one of the states of a binding, and it is ASSURED
\* only if every control was evaluated and every verdict was VERIFIED.
LEMMA TargetStateFacts ==
    ASSUME worker.pc # "idle", CallInv
    PROVE  /\ TargetState \in States
           /\ worker.pc \in {"status", "project"} /\ TargetState = "ASSURED" =>
                /\ worker.object.spec.controls > 0
                /\ Len(worker.states) = worker.object.spec.controls
                /\ \A i \in 1 .. Len(worker.states) : worker.states[i] = "VERIFIED"
                /\ worker.states # <<>> /\ worker.states[Len(worker.states)] = "VERIFIED"
                /\ LastVerdictHolds
<1>1. TargetState \in States
  BY DEF TargetState, Overall, States
<1>2. ASSUME worker.pc \in {"status", "project"}, TargetState = "ASSURED"
      PROVE  /\ worker.object.spec.controls > 0
             /\ Len(worker.states) = worker.object.spec.controls
             /\ \A i \in 1 .. Len(worker.states) : worker.states[i] = "VERIFIED"
             /\ worker.states # <<>> /\ worker.states[Len(worker.states)] = "VERIFIED"
             /\ LastVerdictHolds
  <2>1. /\ worker.object.spec.controls # 0 /\ ~ worker.failed
        /\ Overall(worker.states) = "ASSURED"
    BY <1>2 DEF TargetState
  <2>2. LastVerdictHolds /\ Len(worker.states) = worker.object.spec.controls
    BY <1>2, <2>1 DEF CallInv
  <2>3. worker.states \in Seq({"VERIFIED", "STALE", "UNKNOWN", "FAILED"})
    BY DEF CallInv, CallShape
  <2>4. /\ DOMAIN worker.states = 1 .. Len(worker.states)
        /\ Len(worker.states) \in Nat
    BY <2>3
  <2>5. \A i \in 1 .. Len(worker.states) : worker.states[i] = "VERIFIED"
    BY <2>1, <2>3, <2>4 DEF Overall
  <2>6. Len(worker.states) > 0
    BY <2>1, <2>2, <2>4
  <2>7. worker.states # <<>>
    BY <2>6
  <2> QED
    BY <2>1, <2>2, <2>4, <2>5, <2>6, <2>7
<1> QED
  BY <1>1, <1>2

\* Nothing stored for a workload is lost in this step.
StoreKept == \A w \in Workloads : Stored(w) \subseteq Stored(w)'

\* A call in progress is not disturbed by what happens around it.
LEMMA CallKept ==
    ASSUME CallInv, worker' = worker, DurableStore => StoreKept
    PROVE  CallInv'
<1> SUFFICES ASSUME worker.pc # "idle", LastVerdictHolds PROVE LastVerdictHolds'
  BY DEF CallInv, CallShape
<1>1. worker.binding \in Bindings
  BY DEF CallInv, CallShape
<1>2. Target[worker.binding] \in Workloads
  BY <1>1, ReconcilerAssumption
<1>3. ASSUME DurableStore, Supported(worker.contract, Stored(Target[worker.binding]),
                                     EpochOf(worker.digest), worker.evaluatedAt)
      PROVE  Supported(worker.contract, Stored(Target[worker.binding])',
                       EpochOf(worker.digest), worker.evaluatedAt)
  BY <1>2, <1>3, SupportedGrows DEF StoreKept
<1> QED
  BY <1>3 DEF LastVerdictHolds

\* Neither is what was reported.
LEMMA ReportsKept ==
    ASSUME AssuredOnEvidence, api' = api, basis' = basis, DurableStore => StoreKept
    PROVE  AssuredOnEvidence'
<1> SUFFICES ASSUME NEW b \in Bindings, DurableStore,
                    Supported(basis[b].contract, Stored(Target[b]),
                              EpochOf(basis[b].digest), basis[b].evaluatedAt)
             PROVE  Supported(basis[b].contract, Stored(Target[b])',
                              EpochOf(basis[b].digest), basis[b].evaluatedAt)
  BY DEF AssuredOnEvidence
<1>1. Target[b] \in Workloads
  BY ReconcilerAssumption
<1> QED
  BY <1>1, SupportedGrows DEF StoreKept

\* A step that writes no projection leaves every projection complete.
LEMMA ProjectionsKept ==
    ASSUME AssuredProjectionIsComplete, projection' = projection
    PROVE  AssuredProjectionIsComplete'
BY DEF AssuredProjectionIsComplete

\* Nothing is reported at first.
LEMMA InitReportInv == Init => ReportInv
<1> SUFFICES ASSUME Init PROVE ReportInv
  OBVIOUS
<1>1. api \in [Bindings -> Objects] /\ \A b \in Bindings : api[b].state = "NONE"
  BY ReconcilerAssumption DEF Init, NewBinding, Objects, States
<1>2. \A b \in Bindings : api[b].observedGeneration <= api[b].generation
  BY DEF Init, NewBinding
<1>3. \A w \in Workloads : projection[w].state = "NONE"
  BY DEF Init, NoProjection
<1>4. ObjectsInv
  <2>1. contract.spec \in ContractSpecs
    BY DEF Init
  <2>2. revision \in [Workloads -> Nat] /\ evidence \in [Workloads -> Seq(Envelopes)]
    BY DEF Init
  <2>3. \A b \in Bindings : api[b].generation <= api[b].generation
    BY <1>1 DEF Objects
  <2> QED
    BY <1>1, <1>2, <1>3, <2>1, <2>2, <2>3 DEF Init, ObjectsInv, States
<1>5. CallInv
  BY IdleFacts DEF Init, CallInv
<1>6. AssuredOnEvidence /\ AssuredProjectionIsComplete
  BY <1>1, <1>3 DEF AssuredOnEvidence, AssuredProjectionIsComplete
<1> QED
  BY <1>4, <1>5, <1>6 DEF ReportInv

\* The informer, the timers and the clock touch neither calls nor reports.
LEMMA DeliveryReport ==
    ASSUME ReportInv, UNCHANGED <<api, contract, revision, evidence, projection,
                                  worker, basis>>,
           cache' = cache \/ \E b \in Bindings : cache' = [cache EXCEPT ![b] = api[b]],
           queue' \subseteq Bindings, timers' \subseteq Bindings, now' \in Nat
    PROVE  ReportInv'
<1>1. StoreKept
  BY DEF StoreKept, Stored
<1>2. CallInv' /\ AssuredOnEvidence' /\ AssuredProjectionIsComplete'
  BY <1>1, CallKept, ReportsKept, ProjectionsKept DEF ReportInv
<1>3. ObjectsInv'
  <2>1. cache' \in [Bindings -> Objects]
    BY DEF ReportInv, ObjectsInv
  <2>2. \A b \in Bindings : cache'[b].generation <= api[b].generation
    <3>1. \A b \in Bindings : api[b].generation \in Nat
      BY DEF ReportInv, ObjectsInv, Objects
    <3> QED
      BY <3>1 DEF ReportInv, ObjectsInv
  <2> QED
    BY <2>1, <2>2 DEF ReportInv, ObjectsInv
<1> QED
  BY <1>2, <1>3 DEF ReportInv

\* The cluster may edit or delete a binding: a new generation is one the status
\* does not speak about.
LEMMA EditReport ==
    ASSUME ReportInv, NEW b \in Bindings, EditBinding(b) \/ DeleteBinding(b)
    PROVE  ReportInv'
<1>1. StoreKept
  BY DEF EditBinding, DeleteBinding, StoreKept, Stored
<1>2. CallInv' /\ AssuredProjectionIsComplete'
  BY <1>1, CallKept, ProjectionsKept DEF ReportInv, EditBinding, DeleteBinding
<1>3. UNCHANGED <<cache, contract, revision, evidence, projection, queue,
                   timers, worker, basis, now>>
  BY DEF EditBinding, DeleteBinding
<1>4. api \in [Bindings -> Objects]
  BY DEF ReportInv, ObjectsInv
<1>5. CASE DeleteBinding(b)
  <2>1. /\ api' \in [Bindings -> Objects]
        /\ \A x \in Bindings : /\ api'[x].generation = api[x].generation
                              /\ api'[x].spec = api[x].spec
                              /\ api'[x].state = api[x].state
                              /\ api'[x].observedGeneration = api[x].observedGeneration
    BY <1>4, <1>5 DEF DeleteBinding, Objects
  <2>2. ObjectsInv'
    BY <1>3, <2>1 DEF ReportInv, ObjectsInv
  <2>3. AssuredOnEvidence'
    BY <1>3, <2>1 DEF ReportInv, AssuredOnEvidence, Stored
  <2> QED
    BY <1>2, <2>2, <2>3 DEF ReportInv
<1>6. CASE EditBinding(b)
  <2>1. PICK spec \in BindingSpecs :
            api' = [api EXCEPT ![b].spec = spec, ![b].generation = @ + 1]
    BY <1>6 DEF EditBinding
  <2>2. /\ api' \in [Bindings -> Objects]
        /\ \A x \in Bindings : x # b => api'[x] = api[x]
        /\ api'[b].generation = api[b].generation + 1
        /\ api'[b].state = api[b].state
        /\ api'[b].observedGeneration = api[b].observedGeneration
    BY <1>4, <2>1 DEF Objects
  <2>3. /\ api[b].generation \in Nat /\ api[b].observedGeneration \in Nat
        /\ api[b].observedGeneration <= api[b].generation
        /\ cache[b].generation \in Nat /\ cache[b].generation <= api[b].generation
    BY DEF ReportInv, ObjectsInv, Objects
  <2>4. /\ api'[b].observedGeneration <= api'[b].generation
        /\ cache[b].generation <= api'[b].generation
    BY <2>2, <2>3
  <2>5. ObjectsInv'
    <3>1. \A x \in Bindings : /\ cache'[x].generation <= api'[x].generation
                              /\ api'[x].observedGeneration <= api'[x].generation
      BY <1>3, <2>2, <2>4 DEF ReportInv, ObjectsInv
    <3> QED
      BY <1>3, <2>2, <3>1 DEF ReportInv, ObjectsInv
  <2>6. api'[b].observedGeneration # api'[b].generation
    BY <2>2, <2>3
  <2>7. AssuredOnEvidence'
    BY <1>3, <2>2, <2>6 DEF ReportInv, AssuredOnEvidence, Stored
  <2> QED
    BY <1>2, <2>5, <2>7 DEF ReportInv
<1> QED
  BY <1>5, <1>6

\* So may it edit the contract, roll out a workload and store evidence.
LEMMA ClusterReport ==
    ASSUME ReportInv, EditContract \/ \E w \in Workloads : Rollout(w) \/ StoreEvidence(w)
    PROVE  ReportInv'
<1>1. UNCHANGED <<api, cache, projection, queue, timers, worker, basis, now>>
  BY DEF EditContract, Rollout, StoreEvidence
<1>2. ASSUME StoreKept, contract'.spec \in ContractSpecs,
             revision' \in [Workloads -> Nat], evidence' \in [Workloads -> Seq(Envelopes)]
      PROVE  ReportInv'
  <2>1. CallInv' /\ AssuredOnEvidence' /\ AssuredProjectionIsComplete'
    BY <1>1, <1>2, CallKept, ReportsKept, ProjectionsKept DEF ReportInv
  <2>2. ObjectsInv'
    BY <1>1, <1>2 DEF ReportInv, ObjectsInv
  <2> QED
    BY <2>1, <2>2 DEF ReportInv
<1>3. CASE EditContract
  <2>1. contract'.spec \in ContractSpecs /\ UNCHANGED <<revision, evidence>>
    BY <1>3 DEF EditContract
  <2> QED
    BY <1>2, <2>1 DEF StoreKept, Stored, ReportInv, ObjectsInv
<1>4. ASSUME NEW w \in Workloads, Rollout(w) PROVE ReportInv'
  <2>1. revision' \in [Workloads -> Nat] /\ UNCHANGED <<contract, evidence>>
    BY <1>4 DEF Rollout, ReportInv, ObjectsInv
  <2> QED
    BY <1>2, <2>1 DEF StoreKept, Stored, ReportInv, ObjectsInv
<1>5. ASSUME NEW w \in Workloads, StoreEvidence(w) PROVE ReportInv'
  <2>1. PICK kind \in Kinds, source \in Sources, skew \in Skews :
           evidence' = [evidence EXCEPT ![w] = Append(@,
             [type |-> kind.type, producer |-> kind.producer,
              capturedAt |-> now + skew,
              epoch |-> EpochOf(IF source = "webhook" THEN PodSubjectDigest(w)
                                ELSE ComputeSubjectDigest(w)),
              artifact |-> <<source, w, revision[w], now>>])]
    BY <1>5 DEF StoreEvidence
  <2> DEFINE digest == IF source = "webhook" THEN PodSubjectDigest(w)
                       ELSE ComputeSubjectDigest(w)
             env == [type |-> kind.type, producer |-> kind.producer,
                     capturedAt |-> now + skew, epoch |-> EpochOf(digest),
                     artifact |-> <<source, w, revision[w], now>>]
  <2>2. revision[w] \in Nat /\ now \in Nat /\ skew \in Int
    BY ReconcilerAssumption DEF ReportInv, ObjectsInv
  <2>3. digest \in Digests
    BY <2>2 DEF Digests, PodSubjectDigest, ComputeSubjectDigest
  <2>4. EpochOf(digest) \in [Dimensions -> Digests]
    BY <2>3 DEF EpochOf, Digests
  <2>5. env \in Envelopes
    BY <2>2, <2>4 DEF Envelopes
  <2>6. evidence \in [Workloads -> Seq(Envelopes)] /\ evidence' = [evidence EXCEPT ![w] = Append(@, env)]
    BY <2>1 DEF ReportInv, ObjectsInv
  <2> HIDE DEF env, digest
  <2>7. evidence' \in [Workloads -> Seq(Envelopes)]
    BY <2>5, <2>6
  <2>8. StoreKept
    <3> SUFFICES ASSUME NEW x \in Workloads, NEW i \in DOMAIN evidence[x]
                 PROVE  i \in DOMAIN evidence'[x] /\ evidence'[x][i] = evidence[x][i]
      BY DEF StoreKept, Stored
    <3>1. evidence[x] \in Seq(Envelopes)
      BY <2>6
    <3>2. evidence'[x] = IF x = w THEN Append(evidence[x], env) ELSE evidence[x]
      BY <2>6
    <3>3. i \in DOMAIN Append(evidence[x], env) /\ Append(evidence[x], env)[i] = evidence[x][i]
      BY <2>5, <3>1
    <3> QED
      BY <3>2, <3>3
  <2>9. UNCHANGED <<contract, revision>>
    BY <1>5 DEF StoreEvidence
  <2> QED
    BY <1>2, <2>7, <2>8, <2>9 DEF ReportInv, ObjectsInv
<1> QED
  BY <1>3, <1>4, <1>5

(***************************************************************************)
(* The steps of a call of Reconcile.                                       *)
(***************************************************************************)

\* The steps of a call that read and compute change nothing but the call.
LEMMA ReadingReport ==
    ASSUME ReportInv, CallInv',
           UNCHANGED <<cluster, cache, projection, timers, basis, now>>,
           queue' \subseteq Bindings
    PROVE  ReportInv'
<1>1. StoreKept
  BY DEF StoreKept, Stored, cluster
<1>2. AssuredOnEvidence' /\ AssuredProjectionIsComplete'
  BY <1>1, ReportsKept, ProjectionsKept DEF ReportInv, cluster
<1>3. ObjectsInv'
  BY DEF ReportInv, ObjectsInv, cluster
<1> QED
  BY <1>2, <1>3 DEF ReportInv

\* A reconcile that begins has concluded nothing.
LEMMA BeginReport ==
    ASSUME ReportInv, NEW b \in Bindings, Begin(b) PROVE ReportInv'
<1>1. CallInv'
  <2>1. CASE cache[b].exists
    <3>1. cache[b] \in Objects /\ cache[b].spec.controls \in Nat
      BY ReconcilerAssumption DEF ReportInv, ObjectsInv, Objects
    <3>2. worker' = [pc |-> IF cache[b].spec.controls > 0 THEN "subject" ELSE "status",
                     binding |-> b, object |-> cache[b], digest |-> Unset,
                     contract |-> NoContract, states |-> <<>>, root |-> {},
                     evaluatedAt |-> -1, failed |-> FALSE]
      BY <2>1 DEF Begin
    <3>3. CallShape'
      BY <3>1, <3>2 DEF CallShape
    <3> QED
      BY <3>1, <3>2, <3>3 DEF CallInv
  <2>2. CASE ~ cache[b].exists
    BY <2>2, IdleFacts DEF Begin, CallInv
  <2> QED
    BY <2>1, <2>2
<1>2. queue' \subseteq Bindings
  BY DEF Begin, ReportInv, ObjectsInv
<1> QED
  BY <1>1, <1>2, ReadingReport DEF Begin

\* Resolving the subject concludes nothing yet.
LEMMA ResolveReport == ReportInv /\ ResolveSubject => ReportInv'
<1> SUFFICES ASSUME ReportInv, ResolveSubject PROVE ReportInv'
  OBVIOUS
<1> DEFINE digest == ComputeSubjectDigest(Target[worker.binding])
<1>1. /\ worker.pc = "subject" /\ CallShape
      /\ worker.object.spec.controls > 0 /\ ~ worker.failed /\ worker.states = <<>>
  BY DEF ResolveSubject, ReportInv, CallInv
<1>2. digest # Unset
  BY DEF ComputeSubjectDigest, Unset
<1>3. worker' = [worker EXCEPT !.pc = "contract", !.digest = digest]
  BY DEF ResolveSubject
<1> HIDE DEF digest
<1>4. worker' = [pc |-> "contract", binding |-> worker.binding, object |-> worker.object,
                 digest |-> digest, contract |-> worker.contract,
                 states |-> worker.states, root |-> worker.root,
                 evaluatedAt |-> worker.evaluatedAt, failed |-> worker.failed]
  BY <1>1, <1>3 DEF CallShape
<1>5. CallInv'
  BY <1>1, <1>2, <1>4 DEF CallInv, CallShape
<1> QED
  BY <1>5, ReadingReport DEF ResolveSubject, ReportInv, ObjectsInv

\* Loading the contract fixes what the evaluation will be of.
LEMMA LoadReport == ReportInv /\ LoadContract => ReportInv'
<1> SUFFICES ASSUME ReportInv, LoadContract PROVE ReportInv'
  OBVIOUS
<1> DEFINE c == EffectiveContract(worker.object.spec, contract.spec)
<1>1. /\ worker.pc = "contract" /\ CallShape /\ worker.digest # Unset
      /\ worker.object.spec.controls > 0 /\ ~ worker.failed /\ worker.states = <<>>
  BY DEF LoadContract, ReportInv, CallInv
<1>2. contract.spec \in ContractSpecs
  BY DEF ReportInv, ObjectsInv
<1>3. worker' = [worker EXCEPT !.pc = "evaluate", !.contract = c]
  BY DEF LoadContract
<1>4. \E ec \in ContractSpecs : c = EffectiveContract(worker.object.spec, ec)
  BY <1>2
<1> HIDE DEF c
<1>5. worker' = [pc |-> "evaluate", binding |-> worker.binding, object |-> worker.object,
                 digest |-> worker.digest, contract |-> c,
                 states |-> worker.states, root |-> worker.root,
                 evaluatedAt |-> worker.evaluatedAt, failed |-> worker.failed]
  BY <1>1, <1>3 DEF CallShape
<1>6. CallShape'
  BY <1>1, <1>5 DEF CallShape
<1>7. LastVerdictHolds' /\ Len(worker'.states) < worker'.object.spec.controls
  BY <1>1, <1>4, <1>5 DEF LastVerdictHolds
<1>8. CallInv'
  BY <1>1, <1>5, <1>6, <1>7 DEF CallInv
<1> QED
  BY <1>8, ReadingReport DEF LoadContract, ReportInv, ObjectsInv

\* What an evaluation finds VERIFIED is in the store at that moment.
LEMMA EvaluateReport == ReportInv /\ EvaluateControl => ReportInv'
<1> SUFFICES ASSUME ReportInv, EvaluateControl PROVE ReportInv'
  OBVIOUS
<1> DEFINE w == Target[worker.binding]
           result == Evaluate(worker.contract, evidence[w], EpochOf(worker.digest), now)
           states == Append(worker.states, result.state)
           root == {env.artifact : env \in result.verified}
           pc == IF Len(states) = worker.object.spec.controls THEN "status" ELSE "evaluate"
<1>1. /\ worker.pc = "evaluate" /\ CallShape /\ LastVerdictHolds
      /\ worker.object.spec.controls > 0 /\ ~ worker.failed
      /\ Len(worker.states) < worker.object.spec.controls
  BY DEF EvaluateControl, ReportInv, CallInv
<1>2. w \in Workloads /\ worker.object.spec \in BindingSpecs
  BY <1>1, ReconcilerAssumption DEF CallShape, Objects
<1>3. worker.object.spec.controls \in Nat
  BY <1>2, ReconcilerAssumption
<1>4. PICK ec \in ContractSpecs : worker.contract = EffectiveContract(worker.object.spec, ec)
  BY <1>1 DEF LastVerdictHolds
<1>5. \A i \in DOMAIN evidence[w] : evidence[w][i].capturedAt \in Int
  <2>1. evidence[w] \in Seq(Envelopes)
    BY <1>2 DEF ReportInv, ObjectsInv
  <2>2. \A i \in DOMAIN evidence[w] : evidence[w][i] \in Envelopes
    BY <2>1
  <2> QED
    BY <2>2 DEF Envelopes
<1>6. now \in Int
  BY DEF ReportInv, ObjectsInv
<1>7. /\ result.state \in {"VERIFIED", "STALE", "UNKNOWN", "FAILED"}
      /\ result.state = "VERIFIED" =>
           /\ Supported(worker.contract, Stored(w), EpochOf(worker.digest), now)
           /\ result.verified # {}
  BY <1>2, <1>4, <1>5, <1>6, EvaluationFacts DEF Stored
<1>8. worker' = [worker EXCEPT !.states = states, !.root = root, !.evaluatedAt = now,
                               !.pc = pc]
  BY DEF EvaluateControl
<1>9. result.state = "VERIFIED" => root # {}
  BY <1>7
<1>10. /\ states \in Seq({"VERIFIED", "STALE", "UNKNOWN", "FAILED"})
       /\ Len(states) = Len(worker.states) + 1
       /\ states[Len(states)] = result.state
       /\ Len(worker.states) \in Nat
  <2>1. worker.states \in Seq({"VERIFIED", "STALE", "UNKNOWN", "FAILED"})
    BY <1>1 DEF CallShape
  <2> HIDE DEF result
  <2> QED
    BY <1>7, <2>1
<1>11. evidence' = evidence
  BY DEF EvaluateControl, cluster
<1> HIDE DEF result, states, root, w
<1>12. worker' = [pc |-> pc, binding |-> worker.binding, object |-> worker.object,
                  digest |-> worker.digest, contract |-> worker.contract,
                  states |-> states, root |-> root,
                  evaluatedAt |-> now, failed |-> worker.failed]
  BY <1>1, <1>8 DEF CallShape
<1>13. CallShape'
  BY <1>1, <1>10, <1>12 DEF CallShape
<1>14. LastVerdictHolds'
  BY <1>1, <1>7, <1>9, <1>10, <1>11, <1>12 DEF LastVerdictHolds, Stored, w
<1>15. pc = "evaluate" => Len(states) < worker.object.spec.controls
  BY <1>1, <1>3, <1>10
<1>16. CallInv'
  BY <1>1, <1>12, <1>13, <1>14, <1>15 DEF CallInv
<1> QED
  BY <1>16, ReadingReport DEF EvaluateControl, ReportInv, ObjectsInv

\* A step that fails reports nothing new.
LEMMA FailingReport ==
    ReportInv /\ (EvaluateFails \/ UpdateStatusFails) => ReportInv'
<1> SUFFICES ASSUME ReportInv, EvaluateFails \/ UpdateStatusFails PROVE ReportInv'
  OBVIOUS
<1>1. CASE EvaluateFails
  <2>1. worker.pc = "evaluate" /\ CallShape
    BY <1>1 DEF EvaluateFails, ReportInv, CallInv
  <2>2. worker' = [worker EXCEPT !.failed = TRUE, !.pc = "status"]
    BY <1>1 DEF EvaluateFails
  <2>3. worker' = [pc |-> "status", binding |-> worker.binding, object |-> worker.object,
                   digest |-> worker.digest, contract |-> worker.contract,
                   states |-> worker.states, root |-> worker.root,
                   evaluatedAt |-> worker.evaluatedAt, failed |-> TRUE]
    BY <2>1, <2>2 DEF CallShape
  <2>4. CallInv'
    BY <2>1, <2>3 DEF CallInv, CallShape
  <2> QED
    BY <1>1, <2>4, ReadingReport DEF EvaluateFails, ReportInv, ObjectsInv
<1>2. CASE UpdateStatusFails
  <2>1. worker'.pc = "idle" /\ worker.binding \in Bindings
    BY <1>2, IdleFacts DEF UpdateStatusFails, ReportInv, CallInv, CallShape
  <2>2. CallInv' /\ queue' \subseteq Bindings
    BY <1>2, <2>1 DEF CallInv, UpdateStatusFails, ReportInv, ObjectsInv
  <2> QED
    BY <1>2, <2>2, ReadingReport DEF UpdateStatusFails
<1> QED
  BY <1>1, <1>2

\* The status of a binding is written from the object that was read, so what it
\* says of the generation it observed is what was evaluated.
LEMMA StatusReport == ReportInv /\ UpdateStatus => ReportInv'
<1> SUFFICES ASSUME ReportInv, UpdateStatus PROVE ReportInv'
  OBVIOUS
<1> DEFINE b == worker.binding
           obj == worker.object
           new == [obj EXCEPT !.state = TargetState,
                              !.observedGeneration = obj.generation,
                              !.transitionAt = now]
           base == [digest |-> worker.digest, contract |-> worker.contract,
                    evaluatedAt |-> worker.evaluatedAt]
<1>1. worker.pc = "status" /\ CallInv /\ CallShape /\ b \in Bindings /\ obj \in Objects
  BY DEF UpdateStatus, ReportInv, CallInv, CallShape
<1>2. api[b] = obj /\ api \in [Bindings -> Objects] /\ now \in Nat
  BY DEF UpdateStatus, ReportInv, ObjectsInv
<1>3. /\ api' = [api EXCEPT ![b] = new]
      /\ basis' = [basis EXCEPT ![b] = base]
      /\ worker' = [worker EXCEPT !.pc = "project"]
      /\ UNCHANGED <<cache, contract, revision, evidence, projection, queue, timers, now>>
  BY DEF UpdateStatus
<1>4. TargetState \in States
  BY <1>1, TargetStateFacts
<1>5. TargetState = "ASSURED" =>
        /\ obj.spec.controls > 0
        /\ worker.states # <<>> /\ worker.states[Len(worker.states)] = "VERIFIED"
        /\ LastVerdictHolds
  BY <1>1, TargetStateFacts
<1>6. /\ new \in Objects
      /\ new.generation = obj.generation /\ new.spec = obj.spec
      /\ new.state = TargetState /\ new.observedGeneration = obj.generation
  <2> HIDE DEF obj
  <2> QED
    BY <1>1, <1>2, <1>4 DEF Objects
<1> HIDE DEF new, base
<1>7. /\ api' \in [Bindings -> Objects]
      /\ api'[b] = new /\ \A x \in Bindings : x # b => api'[x] = api[x]
  BY <1>1, <1>2, <1>3, <1>6
<1>8. /\ DOMAIN basis' = Bindings
      /\ basis'[b] = base /\ \A x \in Bindings : x # b => basis'[x] = basis[x]
  BY <1>1, <1>3 DEF ReportInv, ObjectsInv
<1>9. worker' = [pc |-> "project", binding |-> worker.binding, object |-> worker.object,
                 digest |-> worker.digest, contract |-> worker.contract,
                 states |-> worker.states, root |-> worker.root,
                 evaluatedAt |-> worker.evaluatedAt, failed |-> worker.failed]
  BY <1>1, <1>3 DEF CallShape
<1>10. CallInv'
  <2>1. CallShape'
    BY <1>1, <1>9 DEF CallShape
  <2>2. LastVerdictHolds => LastVerdictHolds'
    BY <1>3, <1>9 DEF LastVerdictHolds, Stored
  <2> QED
    BY <1>1, <1>9, <2>1, <2>2 DEF CallInv
<1>11. ObjectsInv'
  <2>1. new.observedGeneration <= new.generation
    BY <1>1, <1>6 DEF Objects
  <2>2. \A x \in Bindings : /\ cache'[x].generation <= api'[x].generation
                           /\ api'[x].observedGeneration <= api'[x].generation
    BY <1>2, <1>3, <1>6, <1>7, <2>1 DEF ReportInv, ObjectsInv
  <2> QED
    BY <1>3, <1>7, <1>8, <2>2 DEF ReportInv, ObjectsInv
<1>12. AssuredOnEvidence'
  <2> SUFFICES ASSUME NEW x \in Bindings, api'[x].state = "ASSURED"
               PROVE  /\ DurableStore =>
                           Supported(basis'[x].contract, Stored(Target[x]),
                                     EpochOf(basis'[x].digest), basis'[x].evaluatedAt)
                      /\ api'[x].observedGeneration = api'[x].generation =>
                           /\ api'[x].spec.controls > 0
                           /\ \E ec \in ContractSpecs :
                                basis'[x].contract = EffectiveContract(api'[x].spec, ec)
    BY <1>3 DEF AssuredOnEvidence, Stored
  <2>1. CASE x # b
    BY <1>7, <1>8, <2>1 DEF ReportInv, AssuredOnEvidence
  <2>2. CASE x = b
    <3>1. /\ obj.spec.controls > 0
          /\ worker.states # <<>> /\ worker.states[Len(worker.states)] = "VERIFIED"
          /\ LastVerdictHolds
      BY <1>5, <1>6, <1>7, <2>2
    <3>2. base.contract = worker.contract /\ base.digest = worker.digest
          /\ base.evaluatedAt = worker.evaluatedAt
      BY DEF base
    <3> QED
      BY <1>6, <1>7, <1>8, <2>2, <3>1, <3>2 DEF LastVerdictHolds
  <2> QED
    BY <2>1, <2>2
<1>13. AssuredProjectionIsComplete'
  BY <1>3, ProjectionsKept DEF ReportInv
<1> QED
  BY <1>10, <1>11, <1>12, <1>13 DEF ReportInv

\* What an ASSURED call projects names its evidence and subject, and says ASSURED
\* of every control.
LEMMA ProjectReport == ReportInv /\ UpdateProjection => ReportInv'
<1> SUFFICES ASSUME ReportInv, UpdateProjection PROVE ReportInv'
  OBVIOUS
<1> DEFINE w == Target[worker.binding]
           new == ProjectionOf(projection[w])
<1>1. worker.pc = "project" /\ CallInv /\ CallShape /\ worker.binding \in Bindings
  BY DEF UpdateProjection, ReportInv, CallInv, CallShape
<1>2. w \in Workloads
  BY <1>1, ReconcilerAssumption
<1>3. /\ projection' = [projection EXCEPT ![w] = new] \/ projection' = projection
      /\ timers' = timers \cup {worker.binding}
      /\ worker' = Idle
      /\ UNCHANGED <<api, contract, revision, evidence, cache, queue, basis, now>>
  BY DEF UpdateProjection, cluster
<1>4. TargetState \in States
  BY <1>1, TargetStateFacts
<1>5. new.state = TargetState
  BY DEF ProjectionOf
<1>6. ASSUME new.state = "ASSURED"
      PROVE  /\ new.controls # <<>>
             /\ \A i \in DOMAIN new.controls : new.controls[i] = "ASSURED"
             /\ new.evidenceRoot # {}
             /\ new.subject # Unset
             /\ new.validUntil = new.evaluatedAt + Validity
  <2> DEFINE n == worker.object.spec.controls
  <2>1. /\ n > 0 /\ Len(worker.states) = n
        /\ \A i \in 1 .. Len(worker.states) : worker.states[i] = "VERIFIED"
        /\ worker.states # <<>> /\ worker.states[Len(worker.states)] = "VERIFIED"
        /\ LastVerdictHolds
    BY <1>1, <1>5, <1>6, TargetStateFacts
  <2>2. /\ new.controls = [i \in 1 .. n |-> IF i <= Len(worker.states)
                                           THEN Assured(worker.states[i]) ELSE TargetState]
        /\ new.evidenceRoot = worker.root
        /\ new.evaluatedAt = worker.evaluatedAt
        /\ new.validUntil = worker.evaluatedAt + Validity
        /\ new.subject = worker.digest
    BY <2>1 DEF ProjectionOf
  <2>3. n \in Nat
    BY <1>1, ReconcilerAssumption DEF CallShape, Objects
  <2> HIDE DEF n, new
  <2>4. DOMAIN new.controls = 1 .. n /\ 1 \in 1 .. n
    BY <2>1, <2>2, <2>3
  <2>5. \A i \in 1 .. n : new.controls[i] = "ASSURED"
    BY <2>1, <2>2, <2>3 DEF Assured
  <2>6. new.controls # <<>>
    <3>1. ASSUME NEW f, f = <<>> PROVE DOMAIN f = {}
      BY <3>1
    <3>2. DOMAIN new.controls # {}
      BY <2>4
    <3> HIDE DEF new
    <3> QED
      BY <3>1, <3>2
  <2> QED
    BY <2>1, <2>2, <2>4, <2>5, <2>6 DEF LastVerdictHolds
<1> HIDE DEF new, w
<1>7. AssuredProjectionIsComplete'
  <2>1. ASSUME NEW x \in Workloads PROVE projection'[x] \in {projection[x], new}
    BY <1>2, <1>3 DEF ReportInv, ObjectsInv
  <2> QED
    BY <1>6, <2>1 DEF ReportInv, AssuredProjectionIsComplete
<1>8. ObjectsInv'
  <2>1. DOMAIN projection' = Workloads /\ \A x \in Workloads : projection'[x].state \in States
    BY <1>2, <1>3, <1>4, <1>5 DEF ReportInv, ObjectsInv
  <2> QED
    BY <1>1, <1>3, <2>1 DEF ReportInv, ObjectsInv
<1>9. CallInv'
  BY <1>3, IdleFacts DEF CallInv
<1>10. StoreKept
  BY <1>3 DEF StoreKept, Stored
<1>11. AssuredOnEvidence'
  BY <1>3, <1>10, ReportsKept DEF ReportInv
<1> QED
  BY <1>7, <1>8, <1>9, <1>11 DEF ReportInv

\* A crash of the controller loses the call, and the store if it is in memory.
LEMMA RestartReport == ReportInv /\ Restart => ReportInv'
<1> SUFFICES ASSUME ReportInv, Restart PROVE ReportInv'
  OBVIOUS
<1>1. DurableStore => StoreKept
  BY DEF Restart, StoreKept, Stored
<1>2. CallInv' /\ AssuredOnEvidence' /\ AssuredProjectionIsComplete'
  BY <1>1, IdleFacts, ReportsKept, ProjectionsKept DEF ReportInv, Restart, CallInv
<1>3. evidence' \in [Workloads -> Seq(Envelopes)]
  BY DEF Restart, ReportInv, ObjectsInv
<1>4. \A b \in Bindings : api[b].generation <= api[b].generation
  BY DEF ReportInv, ObjectsInv, Objects
<1>5. ObjectsInv'
  BY <1>3, <1>4 DEF Restart, ReportInv, ObjectsInv
<1> QED
  BY <1>2, <1>5 DEF ReportInv

\* Every step keeps what reports and projections rest on.
LEMMA StepReportInv == ReportInv /\ [Next]_vars => ReportInv'
<1> SUFFICES ASSUME ReportInv, [Next]_vars PROVE ReportInv'
  OBVIOUS
<1>1. ASSUME NEW b \in Bindings, Deliver(b) \/ TimerFires(b) PROVE ReportInv'
  <2>1. /\ UNCHANGED <<api, contract, revision, evidence, projection, worker, basis, now>>
        /\ cache' = cache \/ cache' = [cache EXCEPT ![b] = api[b]]
        /\ queue' = queue \cup {b} /\ timers' \subseteq timers
    BY <1>1 DEF Deliver, TimerFires, cluster
  <2>2. queue' \subseteq Bindings /\ timers' \subseteq Bindings /\ now' \in Nat
    BY <2>1 DEF ReportInv, ObjectsInv
  <2> QED
    BY <2>1, <2>2, DeliveryReport
<1>2. CASE Tick
  <2>1. now' \in Nat
    BY <1>2 DEF Tick, ReportInv, ObjectsInv
  <2> QED
    BY <1>2, <2>1, DeliveryReport DEF Tick, cluster, ReportInv, ObjectsInv
<1>3. CASE UNCHANGED vars
  BY <1>3, DeliveryReport DEF vars, ReportInv, ObjectsInv
<1>4. ASSUME NEW b \in Bindings, Begin(b) PROVE ReportInv'
  BY <1>4, BeginReport
<1>5. CASE Worker
  BY <1>5, ResolveReport, LoadReport, EvaluateReport, FailingReport, StatusReport,
     ProjectReport DEF Worker
<1>6. CASE Restart
  BY <1>6, RestartReport
<1>7. CASE Cluster
  BY <1>2, <1>7, EditReport, ClusterReport DEF Cluster
<1> QED
  BY <1>1, <1>3, <1>4, <1>5, <1>6, <1>7 DEF Next

\* The invariant holds in every state of the controller.
LEMMA ReconcilerReports == Spec => []ReportInv
BY InitReportInv, StepReportInv, PTL DEF Spec

\* The status fields, the generations and the call in progress keep their types.
THEOREM ReconcilerTypeOK == Spec => []TypeOK
<1>1. ReportInv => TypeOK
  <2> SUFFICES ASSUME ReportInv PROVE TypeOK
    OBVIOUS
  <2>1. \A b \in Bindings :
          /\ api[b].state \in States
          /\ api[b].observedGeneration \in 0 .. api[b].generation
          /\ cache[b].generation \in 1 .. api[b].generation
    BY DEF ReportInv, ObjectsInv, Objects
  <2>2. worker.pc \in {"idle", "subject", "contract", "evaluate", "status", "project"}
    BY DEF ReportInv, CallInv, CallShape
  <2> QED
    BY <2>1, <2>2 DEF ReportInv, ObjectsInv, TypeOK
<1> QED
  BY <1>1, ReconcilerReports, PTL

\* However edits, rollouts, evidence, the clock, failed calls and crashes fall
\* between the steps of Reconcile, a binding is reported ASSURED only on evidence
\* the store holds, for a contract of the generation it says it observed.
THEOREM ReconcilerAssuresOnEvidence == Spec => []AssuredOnEvidence
BY ReconcilerReports, PTL DEF ReportInv

\* An AssuranceState that says ASSURED says it of every control and names its
\* evidence, its subject and its validity.
THEOREM ReconcilerProjectsCompletely == Spec => []AssuredProjectionIsComplete
BY ReconcilerReports, PTL DEF ReportInv
=============================================================================
