---------------------------- MODULE ComponentProofs ----------------------------
(***************************************************************************)
(* Invariants of the components that share no state with the others: the   *)
(* SVID validator and its trust bundle, the admission webhook, air-gap     *)
(* bundles, receipts that cross process borders, the command line, the MCP *)
(* server, OSCAL documents and the observers.  The theorems hold for every *)
(* set of certificates, Pods, packages, controls, keys, lines, documents   *)
(* and events, and for every number of requests, imports and restarts.     *)
(***************************************************************************)
EXTENDS Observers, AdmissionWebhook, AirgapBundle, ReceiptExchange,
        CommandLine, McpServer, EvidenceContractProofs, SequenceTheorems

\* What Append does, with the domains spelled out.
LEMMA AppendFacts ==
    ASSUME NEW S, NEW s \in Seq(S), NEW x \in S
    PROVE  /\ Append(s, x) \in Seq(S)
           /\ Len(s) \in Nat
           /\ DOMAIN s = 1 .. Len(s)
           /\ DOMAIN Append(s, x) = 1 .. (Len(s) + 1)
           /\ \A j \in 1 .. Len(s) : Append(s, x)[j] = s[j]
           /\ Append(s, x)[Len(s) + 1] = x
OBVIOUS

(***************************************************************************)
(* Identities.  A domain without a pool has no roots, and the verdict kept *)
(* in checked is the one that today's pools give.                          *)
(***************************************************************************)
PoolsInv ==
    /\ pools \in [Domains -> [pool : BOOLEAN, roots : SUBSET Roots]]
    /\ \A d \in Domains : ~pools[d].pool => pools[d].roots = {}

CheckedInv ==
    \/ checked.verdict = "none"
    \/ /\ checked.cert \in Certificates
       /\ checked.now \in Int
       /\ checked.verdict = ValidateSVID(checked.cert, checked.now)

IdentityInv == PoolsInv /\ CheckedInv

\* SpiffeURI is one of the certificate's URIs with the scheme spiffe: the
\* loop over cert.URIs stops at a position of the list.
LEMMA SpiffeURIFound ==
    ASSUME NEW cert \in Certificates, SpiffeURI(cert) # {}
    PROVE  \E i \in DOMAIN cert.uris :
              SpiffeURI(cert) = {cert.uris[i]} /\ cert.uris[i].scheme = "spiffe"
<1> DEFINE found == {i \in DOMAIN cert.uris : cert.uris[i].scheme = "spiffe"}
<1>1. found # {}
  BY DEF SpiffeURI
<1>2. cert.uris \in Seq({cert.uris[i] : i \in DOMAIN cert.uris})
  BY IdentityAssumption
<1>3. DOMAIN cert.uris \subseteq Nat
  <2> DEFINE S == {cert.uris[i] : i \in DOMAIN cert.uris}
  <2>1. cert.uris \in Seq(S)
    BY <1>2
  <2> HIDE DEF S
  <2>2. QED
    BY <2>1
<1>4. found \subseteq Nat
  BY <1>3
<1>5. \E k \in found : \A j \in found : k <= j
  <2> HIDE DEF found
  <2>1. QED
    BY <1>1, <1>4, LeastNumber
<1>6. First(found) \in found
  <2> HIDE DEF found
  <2>1. QED
    BY <1>5 DEF First
<1>7. SpiffeURI(cert) = {cert.uris[First(found)]}
  BY <1>1 DEF SpiffeURI
<1> QED
  BY <1>6, <1>7

\* An SVID that lives at least a second passes ValidateSVID exactly if a clock
\* at most Skew off shows a time in its window and its domain's pool has its
\* root: the clamped verification time lies in the window.
LEMMA ValidateIsTolerance ==
    ASSUME PoolsInv, NEW cert \in Certificates, NEW now \in Int,
           cert.notBefore < cert.notAfter
    PROVE  ValidateSVID(cert, now) = "valid" <=>
             /\ \E t \in now - Skew .. now + Skew :
                  cert.notBefore <= t /\ t <= cert.notAfter
             /\ \E u \in SpiffeURI(cert) :
                  u.domain # "" /\ cert.root \in pools[u.domain].roots
<1> DEFINE reachable == \E t \in now - Skew .. now + Skew :
                          cert.notBefore <= t /\ t <= cert.notAfter
           vouched == \E u \in SpiffeURI(cert) :
                        u.domain # "" /\ cert.root \in pools[u.domain].roots
<1>1. cert.notBefore \in Int /\ cert.notAfter \in Int /\ Skew \in Nat
  BY IdentityAssumption
<1>2. reachable <=> ~(now + Skew < cert.notBefore) /\ ~(now - Skew > cert.notAfter)
  <2>1. CASE reachable
    BY <1>1, <2>1
  <2>2. CASE ~(now + Skew < cert.notBefore) /\ ~(now - Skew > cert.notAfter)
    <3> DEFINE t == IF cert.notBefore >= now - Skew THEN cert.notBefore ELSE now - Skew
    <3>1. t \in now - Skew .. now + Skew /\ cert.notBefore <= t /\ t <= cert.notAfter
      BY <1>1, <2>2
    <3> HIDE DEF t
    <3>2. QED
      BY <2>2, <3>1
  <2>3. QED
    BY <2>1, <2>2
<1>3. /\ VerifyTime(cert, now) \in Int
      /\ cert.notBefore <= VerifyTime(cert, now)
      /\ VerifyTime(cert, now) <= cert.notAfter
  BY <1>1 DEF VerifyTime
<1>4. \A roots : ChainVerifies(cert, roots, VerifyTime(cert, now)) <=> cert.root \in roots
  BY <1>3 DEF ChainVerifies
<1> HIDE DEF reachable
<1>5. CASE SpiffeURI(cert) = {}
  BY <1>5 DEF ValidateSVID
<1>6. CASE SpiffeURI(cert) # {}
  <2>1. PICK i \in DOMAIN cert.uris :
          SpiffeURI(cert) = {cert.uris[i]} /\ cert.uris[i].scheme = "spiffe"
    BY <1>6, SpiffeURIFound
  <2> DEFINE u == cert.uris[i]
  <2>2. u.domain \in Domains \cup {""}
    BY <2>1, IdentityAssumption
  <2>3. vouched <=> u.domain # "" /\ cert.root \in pools[u.domain].roots
    BY <2>1
  <2>4. u.domain # "" /\ ~pools[u.domain].pool => pools[u.domain].roots = {}
    BY <2>2 DEF PoolsInv
  <2>5. ValidateSVID(cert, now) = "valid" <=>
          /\ ~(now + Skew < cert.notBefore) /\ ~(now - Skew > cert.notAfter)
          /\ u.domain # "" /\ pools[u.domain].pool
          /\ ChainVerifies(cert, pools[u.domain].roots, VerifyTime(cert, now))
    BY <2>1, <1>6 DEF ValidateSVID
  <2> HIDE DEF u, vouched
  <2>6. pools[u.domain].pool \in BOOLEAN \/ u.domain = ""
    BY <2>2 DEF PoolsInv
  <2>7. QED
    BY <1>2, <1>4, <2>3, <2>4, <2>5, <2>6 DEF vouched, reachable
<1> QED
  BY <1>5, <1>6

\* No pool has roots and nothing was checked at first.
LEMMA InitIdentityInv == IdentityInit => IdentityInv
BY DEF IdentityInit, IdentityInv, PoolsInv, CheckedInv, NoPool, Unchecked

\* AddRootCA discards the verdict, Attest renews it and leaves the pools.
LEMMA StepIdentityInv == IdentityInv /\ [IdentityNext]_identityVars => IdentityInv'
<1> SUFFICES ASSUME IdentityInv, [IdentityNext]_identityVars
             PROVE  IdentityInv'
  OBVIOUS
<1>1. ASSUME NEW d \in Domains, NEW r \in Roots, NEW parses \in BOOLEAN,
             AddRootCA(d, r, parses)
      PROVE  IdentityInv'
  <2>1. CheckedInv'
    BY <1>1 DEF AddRootCA, CheckedInv, Unchecked
  <2>2. PoolsInv'
    BY <1>1 DEF AddRootCA, IdentityInv, PoolsInv
  <2>3. QED
    BY <2>1, <2>2 DEF IdentityInv
<1>2. ASSUME NEW c \in Certificates, NEW now \in 0 .. MaxClock,
             NEW namespace, NEW account, Attest(c, now, namespace, account)
      PROVE  IdentityInv'
  <2>1. PoolsInv'
    BY <1>2 DEF Attest, IdentityInv, PoolsInv
  <2>2. ValidateSVID(c, now)' = ValidateSVID(c, now)
    BY <1>2 DEF Attest, ValidateSVID
  <2>3. now \in Int
    OBVIOUS
  <2>4. CheckedInv'
    BY <1>2, <2>2, <2>3 DEF Attest, CheckedInv, ValidateSVID
  <2>5. QED
    BY <2>1, <2>4 DEF IdentityInv
<1>3. CASE UNCHANGED identityVars
  BY <1>3 DEF identityVars, IdentityInv, PoolsInv, CheckedInv, ValidateSVID
<1> QED
  BY <1>1, <1>2, <1>3 DEF IdentityNext

\* Whatever roots were added in whatever order, at every clock reading and for
\* every set of SVIDs ValidateSVID tolerates exactly a skew of
\* clockSkewTolerance and trusts only the pool of the SVID's own domain.
THEOREM IdentityToleratesSkew == IdentitySpec => []SkewIsTolerance
<1>1. IdentityInv => SkewIsTolerance
  <2> SUFFICES ASSUME IdentityInv, checked.verdict # "none",
                      checked.cert.notBefore < checked.cert.notAfter
               PROVE  SkewIsTolerance
    BY DEF SkewIsTolerance
  <2>1. /\ checked.cert \in Certificates /\ checked.now \in Int
        /\ checked.verdict = ValidateSVID(checked.cert, checked.now)
        /\ PoolsInv
    BY DEF IdentityInv, CheckedInv
  <2>2. QED
    BY <2>1, ValidateIsTolerance DEF SkewIsTolerance
<1> QED
  BY <1>1, InitIdentityInv, StepIdentityInv, PTL DEF IdentitySpec

-----------------------------------------------------------------------------

(***************************************************************************)
(* The admission webhook.  A request that is past its decision has the     *)
(* answer of validateRequest, only an allowed one is admitted, and one     *)
(* that was answered has delivered its envelope.                           *)
(***************************************************************************)
RequestNames == {""} \cup {pod.name : pod \in Pods}

PodNames ==
    ({pod.prefix : pod \in Pods} \X Nat)
      \cup Seq(RequestNames)
      \cup Seq(Nat)

AdmissionEnvelope ==
    [id : Nat, subject : PodNames, uid : Nat, type : {"kubernetes.admission"}]

AdmissionResponse ==
    [allowed : BOOLEAN, degraded : BOOLEAN, warned : BOOLEAN,
     envelopes : SUBSET AdmissionEnvelope]

Request ==
    [kind : {"Pod", "Deployment"}, parses : BOOLEAN, pod : Pods,
     name : RequestNames, now : Nat,
     stage : {"sent", "lost", "delivering", "answered", "admitted", "denied"},
     response : AdmissionResponse, delivery : {"none", "done", "failed"},
     waiting : BOOLEAN]

WebhookTypeOK ==
    /\ sink \in {"repository", "directory", "none"}
    /\ requests \in Seq(Request)

\* The stages in which the handler has decided, and in which it has answered.
Decided(i) == requests[i].stage \in {"delivering", "answered", "admitted", "denied"}
Answered(i) == requests[i].stage \in {"answered", "admitted", "denied"}

DecisionInv ==
    \A i \in DOMAIN requests :
        /\ Decided(i) => requests[i].response = validateRequest(requests[i], i)
        /\ requests[i].stage = "admitted" => requests[i].response.allowed

Evidenced(i) ==
    \A envelope \in requests[i].response.envelopes :
        \/ envelope \in stored
        \/ requests[i].delivery = "failed"
        \/ sink = "directory"
             /\ \E j \in DOMAIN requests \ {i} : requests[j].now = requests[i].now

EvidenceInv == sink # "none" => \A i \in DOMAIN requests : Answered(i) => Evidenced(i)

WebhookInv == WebhookTypeOK /\ DecisionInv /\ EvidenceInv

\* The answer of validateRequest is well formed, and its envelope, of which
\* there is at most one, carries the handler's clock as its ID.
LEMMA DecisionShape ==
    ASSUME NEW q \in Request, NEW i \in Nat
    PROVE  /\ validateRequest(q, i) \in AdmissionResponse
           /\ \A e, f \in validateRequest(q, i).envelopes : e = f
           /\ \A e \in validateRequest(q, i).envelopes : e.id = q.now
<1>0. ASSUME NEW S, NEW x \in S
      PROVE  <<x>> \in Seq(S)
  OBVIOUS
<1>1. PodName(q, i) \in PodNames
  <2>0. Seq(RequestNames) \subseteq PodNames /\ Seq(Nat) \subseteq PodNames
    BY DEF PodNames
  <2>1. q.pod \in Pods /\ q.name \in RequestNames
    BY DEF Request
  <2> HIDE DEF Request
  <2>2. CASE q.name # ""
    <3>1. q.name \in RequestNames
      BY <2>1
    <3>2. <<q.name>> \in Seq(RequestNames)
      BY <1>0, <3>1
    <3>3. QED
      BY <2>0, <2>2, <3>2 DEF PodName
  <2>3. CASE q.name = "" /\ q.pod.name # ""
    <3>1. q.pod.name \in RequestNames
      BY <2>1 DEF RequestNames
    <3>2. <<q.pod.name>> \in Seq(RequestNames)
      BY <1>0, <3>1
    <3>3. QED
      BY <2>0, <2>3, <3>2 DEF PodName
  <2>4. CASE q.name = "" /\ q.pod.name = "" /\ q.pod.prefix # ""
    BY <2>1, <2>4 DEF PodName, PodNames
  <2>5. CASE q.name = "" /\ q.pod.name = "" /\ q.pod.prefix = ""
    <3>1. <<i>> \in Seq(Nat)
      BY <1>0
    <3>2. QED
      BY <2>0, <2>5, <3>1 DEF PodName
  <2>6. QED
    BY <2>2, <2>3, <2>4, <2>5
<1>2. q.now \in Nat
  BY DEF Request
<1>3. GenerateAdmissionEvidence(q, i) \in AdmissionEnvelope
  BY <1>1, <1>2 DEF GenerateAdmissionEvidence, AdmissionEnvelope
<1>4. GenerateAdmissionEvidence(q, i).id = q.now
  BY DEF GenerateAdmissionEvidence
<1>5. \A allowed, degraded \in BOOLEAN, envelopes \in SUBSET AdmissionEnvelope :
         /\ Response(allowed, degraded, envelopes) \in AdmissionResponse
         /\ Response(allowed, degraded, envelopes).envelopes = envelopes
  BY DEF Response, AdmissionResponse
<1>6. \E allowed, degraded \in BOOLEAN :
        \/ validateRequest(q, i) = Response(allowed, degraded, {})
        \/ validateRequest(q, i) =
             Response(allowed, degraded, {GenerateAdmissionEvidence(q, i)})
  BY DEF validateRequest
<1> QED
  BY <1>3, <1>4, <1>5, <1>6

\* What a handler decides does not depend on how far it has come.
LEMMA DecisionStays ==
    ASSUME webhookMode' = webhookMode, NEW j,
           requests'[j].kind = requests[j].kind,
           requests'[j].parses = requests[j].parses,
           requests'[j].pod = requests[j].pod,
           requests'[j].name = requests[j].name,
           requests'[j].now = requests[j].now
    PROVE  validateRequest(requests[j], j)' = validateRequest(requests[j], j)
BY DEF validateRequest, GenerateAdmissionEvidence, PodName, Response, Enforcing

\* Allowed in enforcing mode means that no check has found a violation.
LEMMA AllowedIsCompliant ==
    ASSUME Enforcing, NEW q, NEW i, q.kind = "Pod", validateRequest(q, i).allowed
    PROVE  ~checkNonRootCompliance(q.pod) /\ ~checkCapabilityCompliance(q.pod)
BY DEF validateRequest, Response

\* The checks, which look at each container and at the Pod, imply what the
\* kubelet computes from both.
LEMMA CompliantIsRestricted ==
    ASSUME NEW pod \in Pods, ~checkNonRootCompliance(pod),
           ~checkCapabilityCompliance(pod), NEW c \in pod.containers \cup pod.init
    PROVE  RunsRestricted(pod, c)
<1>1. c \in allContainers(pod)
  BY DEF allContainers
<1>2. /\ c.given \in BOOLEAN
      /\ c.nonRoot \in {{}, {TRUE}, {FALSE}}
      /\ ~c.given => /\ c.user = {} /\ c.nonRoot = {} /\ c.privileged = {}
                     /\ c.escalates = {} /\ c.adds = {}
  BY WebhookAssumption
<1>3. pod.context.user # {0}
  BY DEF checkNonRootCompliance
<1>4. CASE c.given
  <2>1. /\ c.user # {0} /\ c.nonRoot # {FALSE}
        /\ c.nonRoot = {} => pod.context.nonRoot = {TRUE}
    BY <1>1, <1>4 DEF checkNonRootCompliance
  <2>2. c.privileged # {TRUE} /\ c.escalates # {TRUE} /\ c.adds \cap Prohibited = {}
    BY <1>1, <1>4 DEF checkCapabilityCompliance
  <2>3. QED
    BY <1>2, <1>3, <2>1, <2>2 DEF RunsRestricted, Effective
<1>5. CASE ~c.given
  <2>1. pod.context.nonRoot = {TRUE}
    BY <1>1, <1>5 DEF checkNonRootCompliance
  <2>2. QED
    BY <1>2, <1>3, <1>5, <2>1 DEF RunsRestricted, Effective
<1> QED
  BY <1>2, <1>4, <1>5

\* A write keeps what the sink has, except a file of the same ID.
LEMMA WrittenKeeps ==
    ASSUME NEW e \in stored, NEW envelope
    PROVE  e \in Written(envelope) \/ (sink = "directory" /\ e.id = envelope.id)
<1>1. CASE sink = "directory"
  <2>1. Written(envelope) = {envelope} \cup {x \in stored : x.id # envelope.id}
    BY <1>1 DEF Written
  <2>2. QED
    BY <1>1, <2>1
<1>2. CASE sink # "directory"
  <2>1. Written(envelope) = {envelope} \cup stored
    BY <1>2 DEF Written
  <2>2. QED
    BY <2>1
<1> QED
  BY <1>1, <1>2

\* A handler's step: request i becomes q, and the sink stays as it is or takes
\* i's envelope.  What the other requests have delivered is still there, or
\* was replaced by an envelope with the same clock.
LEMMA HandlerStep ==
    ASSUME WebhookInv, UNCHANGED <<webhookMode, sink>>,
           NEW i \in DOMAIN requests, NEW q \in Request,
           requests' = [requests EXCEPT ![i] = q],
           q.kind = requests[i].kind, q.parses = requests[i].parses,
           q.pod = requests[i].pod, q.name = requests[i].name,
           q.now = requests[i].now,
           q.stage \in {"delivering", "answered", "admitted", "denied"}
             => q.response = validateRequest(requests[i], i),
           q.stage = "admitted" => q.response.allowed,
           sink # "none" /\ q.stage \in {"answered", "admitted", "denied"}
             => \A envelope \in q.response.envelopes :
                  \/ envelope \in stored'
                  \/ q.delivery = "failed"
                  \/ sink = "directory"
                       /\ \E j \in DOMAIN requests \ {i} :
                            requests[j].now = requests[i].now,
           \/ stored' = stored
           \/ /\ requests[i].stage = "delivering"
              /\ \E envelope \in requests[i].response.envelopes :
                   stored' = Written(envelope)
    PROVE  WebhookInv'
<1>1. requests \in Seq(Request) /\ sink \in {"repository", "directory", "none"}
  BY DEF WebhookInv, WebhookTypeOK
<1>2. DOMAIN requests' = DOMAIN requests /\ requests' \in Seq(Request)
  BY <1>1
<1>3. requests'[i] = q /\ \A j \in DOMAIN requests \ {i} : requests'[j] = requests[j]
  BY <1>1
<1>4. WebhookTypeOK'
  BY <1>1, <1>2 DEF WebhookTypeOK
<1>5. \A j \in DOMAIN requests :
         validateRequest(requests[j], j)' = validateRequest(requests[j], j)
  <2> TAKE j \in DOMAIN requests
  <2>1. /\ requests'[j].kind = requests[j].kind
        /\ requests'[j].parses = requests[j].parses
        /\ requests'[j].pod = requests[j].pod
        /\ requests'[j].name = requests[j].name
        /\ requests'[j].now = requests[j].now
    BY <1>3
  <2>2. QED
    BY <2>1, DecisionStays
<1>6. DecisionInv'
  <2> SUFFICES ASSUME NEW j \in DOMAIN requests
               PROVE  /\ Decided(j)' =>
                           requests'[j].response = validateRequest(requests[j], j)'
                      /\ requests'[j].stage = "admitted" => requests'[j].response.allowed
    BY <1>2 DEF DecisionInv
  <2>1. CASE j = i
    BY <1>3, <1>5, <2>1 DEF Decided
  <2>2. CASE j # i
    BY <1>3, <1>5, <2>2 DEF Decided, WebhookInv, DecisionInv
  <2>3. QED
    BY <2>1, <2>2
<1>7. \A j \in DOMAIN requests : Decided(j) =>
         \A e \in requests[j].response.envelopes : e.id = requests[j].now
  <2> TAKE j \in DOMAIN requests
  <2> HAVE Decided(j)
  <2>1. requests[j] \in Request /\ j \in Nat
    BY <1>1
  <2>2. requests[j].response = validateRequest(requests[j], j)
    BY DEF WebhookInv, DecisionInv
  <2>3. QED
    BY <2>1, <2>2, DecisionShape
<1>8. EvidenceInv'
  <2> SUFFICES ASSUME sink # "none", NEW j \in DOMAIN requests, Answered(j)'
               PROVE  Evidenced(j)'
    BY <1>2 DEF EvidenceInv
  <2>1. CASE j = i
    BY <1>2, <1>3, <2>1 DEF Answered, Evidenced
  <2>2. CASE j # i
    <3>1. Answered(j) /\ Decided(j)
      BY <1>3, <2>2 DEF Answered, Decided
    <3>2. Evidenced(j)
      BY <3>1 DEF WebhookInv, EvidenceInv
    <3> SUFFICES ASSUME NEW e \in requests[j].response.envelopes
                 PROVE  \/ e \in stored'
                        \/ requests[j].delivery = "failed"
                        \/ sink = "directory"
                             /\ \E k \in DOMAIN requests \ {j} :
                                  requests[k].now = requests[j].now
      BY <1>2, <1>3, <2>2 DEF Evidenced
    <3>3. CASE e \notin stored
      BY <3>2, <3>3 DEF Evidenced
    <3>4. CASE stored' = stored
      BY <3>3, <3>4
    <3>5. CASE e \in stored /\ stored' # stored
      <4>1. Decided(i)
        BY <3>5 DEF Decided
      <4>2. PICK envelope \in requests[i].response.envelopes : stored' = Written(envelope)
        BY <3>5
      <4>3. e.id = requests[j].now /\ envelope.id = requests[i].now
        BY <1>7, <3>1, <4>1
      <4>4. e \in stored' \/ (sink = "directory" /\ e.id = envelope.id)
        BY <3>5, <4>2, WrittenKeeps
      <4>5. QED
        BY <2>2, <4>3, <4>4
    <3>6. QED
      BY <3>3, <3>4, <3>5
  <2>3. QED
    BY <2>1, <2>2
<1> QED
  BY <1>4, <1>6, <1>8 DEF WebhookInv

\* No request is under way and nothing is stored at first.
LEMMA InitWebhookInv == WebhookInit => WebhookInv
<1> SUFFICES ASSUME WebhookInit
             PROVE  WebhookInv
  OBVIOUS
<1>1. requests = <<>> /\ sink \in {"repository", "directory", "none"}
  BY DEF WebhookInit
<1>2. requests \in Seq(Request) /\ DOMAIN requests = {}
  BY <1>1
<1> QED
  BY <1>1, <1>2 DEF WebhookInv, WebhookTypeOK, DecisionInv, EvidenceInv

\* A review that arrives disturbs no other request.
LEMMA SendReviewInv ==
    ASSUME WebhookInv, NEW kind \in {"Pod", "Deployment"}, NEW parses \in BOOLEAN,
           NEW pod \in Pods, NEW name \in RequestNames, NEW now \in Nat,
           SendReview(kind, parses, pod, name, now)
    PROVE  WebhookInv'
<1> DEFINE q == [kind |-> kind, parses |-> parses, pod |-> pod, name |-> name,
                 now |-> now, stage |-> IF expired THEN "lost" ELSE "sent",
                 response |-> NotAnswered, delivery |-> "none", waiting |-> ~expired]
           n == Len(requests)
<1>1. requests \in Seq(Request) /\ sink \in {"repository", "directory", "none"}
  BY DEF WebhookInv, WebhookTypeOK
<1>2. q \in Request
  <2>1. NotAnswered \in AdmissionResponse
    BY DEF NotAnswered, Response, AdmissionResponse
  <2>2. QED
    BY <2>1 DEF Request
<1>3. requests' = Append(requests, q)
  BY DEF SendReview
<1>4. q.stage \in {"lost", "sent"}
  OBVIOUS
<1>5. UNCHANGED <<webhookMode, sink, stored>>
  BY DEF SendReview
<1> HIDE DEF q
<1>6. /\ requests' \in Seq(Request) /\ n \in Nat
      /\ DOMAIN requests = 1 .. n /\ DOMAIN requests' = 1 .. (n + 1)
      /\ \A j \in 1 .. n : requests'[j] = requests[j]
      /\ requests'[n + 1] = q
  BY <1>1, <1>2, <1>3, AppendFacts
<1>0. n \in Nat
  BY <1>6
<1> HIDE DEF n
<1>7. WebhookTypeOK'
  BY <1>1, <1>5, <1>6 DEF WebhookTypeOK
<1>8. DecisionInv'
  <2> SUFFICES ASSUME NEW j \in 1 .. (n + 1)
               PROVE  /\ Decided(j)' =>
                           requests'[j].response = validateRequest(requests[j], j)'
                      /\ requests'[j].stage = "admitted" => requests'[j].response.allowed
    BY <1>6 DEF DecisionInv
  <2>1. CASE j = n + 1
    BY <1>4, <1>6, <2>1 DEF Decided
  <2>2. CASE j \in 1 .. n
    <3>1. validateRequest(requests[j], j)' = validateRequest(requests[j], j)
      BY <1>5, <1>6, <2>2, DecisionStays
    <3>2. QED
      BY <1>6, <2>2, <3>1 DEF Decided, WebhookInv, DecisionInv
  <2>3. QED
    BY <1>0, <2>1, <2>2
<1>9. EvidenceInv'
  <2> SUFFICES ASSUME sink # "none", NEW j \in 1 .. (n + 1), Answered(j)'
               PROVE  Evidenced(j)'
    BY <1>5, <1>6 DEF EvidenceInv
  <2>1. j \in 1 .. n
    <3>1. j # n + 1
      BY <1>4, <1>6 DEF Answered
    <3>2. QED
      BY <1>0, <3>1
  <2>2. Answered(j)
    BY <1>6, <2>1 DEF Answered
  <2>3. Evidenced(j)
    BY <1>6, <2>1, <2>2 DEF WebhookInv, EvidenceInv
  <2>4. \A k \in DOMAIN requests : k \in DOMAIN requests'
    BY <1>0, <1>6
  <2>5. QED
    BY <1>5, <1>6, <2>1, <2>3, <2>4 DEF Evidenced
<1> QED
  BY <1>7, <1>8, <1>9 DEF WebhookInv

\* The process ends: handlers that run are lost, the others stay as they are.
LEMMA WebhookExitsInv ==
    ASSUME WebhookInv, WebhookExits
    PROVE  WebhookInv'
<1>1. requests \in Seq(Request) /\ sink \in {"repository", "directory", "none"}
  BY DEF WebhookInv, WebhookTypeOK
<1>2. UNCHANGED <<webhookMode, sink, stored>>
  BY DEF WebhookExits
<1>3. requests' \in Seq(Request) /\ DOMAIN requests' = DOMAIN requests
  <2>1. DOMAIN requests' = DOMAIN requests
    BY DEF WebhookExits
  <2>2. \A j \in DOMAIN requests : requests'[j] \in Request
    <3> TAKE j \in DOMAIN requests
    <3>1. \E stage \in {requests[j].stage, "lost"} :
            requests'[j] = [requests[j] EXCEPT !.stage = stage]
      BY DEF WebhookExits
    <3>2. requests[j] \in Request
      BY <1>1
    <3>3. QED
      BY <3>1, <3>2 DEF Request
  <2>3. requests' \in [1 .. Len(requests) -> Request] /\ Len(requests) \in Nat
    BY <1>1, <2>1, <2>2 DEF WebhookExits
  <2>4. QED
    BY <2>1, <2>3
<1>4. \A j \in DOMAIN requests :
        /\ requests'[j].stage \in {requests[j].stage, "lost"}
        /\ requests'[j].kind = requests[j].kind
        /\ requests'[j].parses = requests[j].parses
        /\ requests'[j].pod = requests[j].pod
        /\ requests'[j].name = requests[j].name
        /\ requests'[j].now = requests[j].now
        /\ requests'[j].response = requests[j].response
        /\ requests'[j].delivery = requests[j].delivery
  <2> TAKE j \in DOMAIN requests
  <2>1. requests[j] \in Request
    BY <1>1
  <2>2. \E stage \in {requests[j].stage, "lost"} :
          requests'[j] = [requests[j] EXCEPT !.stage = stage]
    BY DEF WebhookExits
  <2>3. QED
    BY <2>1, <2>2 DEF Request
<1>5. \A j \in DOMAIN requests :
         validateRequest(requests[j], j)' = validateRequest(requests[j], j)
  BY <1>2, <1>4, DecisionStays
<1>6. WebhookTypeOK'
  BY <1>1, <1>2, <1>3 DEF WebhookTypeOK
<1>7. DecisionInv'
  BY <1>3, <1>4, <1>5 DEF WebhookInv, DecisionInv, Decided
<1>8. EvidenceInv'
  <2> SUFFICES ASSUME sink # "none", NEW j \in DOMAIN requests, Answered(j)'
               PROVE  Evidenced(j)'
    BY <1>2, <1>3 DEF EvidenceInv
  <2>1. Answered(j)
    BY <1>4 DEF Answered
  <2>2. Evidenced(j)
    BY <2>1 DEF WebhookInv, EvidenceInv
  <2>3. QED
    BY <1>2, <1>3, <1>4, <2>2 DEF Evidenced
<1> QED
  BY <1>6, <1>7, <1>8 DEF WebhookInv

\* Every step of a handler, of the API server or of its clock on request i.
LEMMA RequestStepInv ==
    ASSUME WebhookInv, NEW i \in DOMAIN requests,
           \/ HandleValidate(i) \/ BadRequest(i)
           \/ Deliver(i) \/ DeliverFails(i)
           \/ Conclude(i) \/ GiveUp(i)
    PROVE  WebhookInv'
<1> DEFINE r == requests[i]
<1>1. requests \in Seq(Request) /\ r \in Request /\ i \in Nat
  BY DEF WebhookInv, WebhookTypeOK
<1>2. /\ Decided(i) => r.response = validateRequest(r, i)
      /\ r.stage = "admitted" => r.response.allowed
  BY DEF WebhookInv, DecisionInv
<1>3. sink # "none" /\ Answered(i) => Evidenced(i)
  BY DEF WebhookInv, EvidenceInv
<1>4. CASE HandleValidate(i)
  <2> DEFINE response == validateRequest(r, i)
             q == [r EXCEPT !.response = response, !.stage = AfterDecision(response)]
  <2>1. response \in AdmissionResponse
    BY <1>1, DecisionShape
  <2>2. AfterDecision(response) \in {"delivering", "answered"}
    BY DEF AfterDecision
  <2>3. requests' = [requests EXCEPT ![i] = q] /\ UNCHANGED <<webhookMode, sink, stored>>
    BY <1>4, <1>1 DEF HandleValidate
  <2>4. sink # "none" /\ AfterDecision(response) = "answered" => response.envelopes = {}
    BY DEF AfterDecision
  <2> HIDE DEF response
  <2>5. /\ q \in Request /\ q.response = response /\ q.stage = AfterDecision(response)
        /\ q.kind = r.kind /\ q.parses = r.parses /\ q.pod = r.pod
        /\ q.name = r.name /\ q.now = r.now
    BY <1>1, <2>1, <2>2 DEF Request
  <2> HIDE DEF q
  <2>6. QED
    BY <1>1, <2>2, <2>3, <2>4, <2>5, HandlerStep DEF response
<1>5. CASE BadRequest(i)
  <2> DEFINE q == [r EXCEPT !.stage = "lost"]
  <2>1. requests' = [requests EXCEPT ![i] = q] /\ UNCHANGED <<webhookMode, sink, stored>>
    BY <1>5, <1>1 DEF BadRequest
  <2>2. /\ q \in Request /\ q.stage = "lost"
        /\ q.kind = r.kind /\ q.parses = r.parses /\ q.pod = r.pod
        /\ q.name = r.name /\ q.now = r.now
    BY <1>1 DEF Request
  <2> HIDE DEF q
  <2>3. QED
    BY <1>1, <2>1, <2>2, HandlerStep
<1>6. CASE Deliver(i)
  <2> DEFINE q == [r EXCEPT !.stage = "answered", !.delivery = "done"]
  <2>1. /\ requests' = [requests EXCEPT ![i] = q] /\ UNCHANGED <<webhookMode, sink>>
        /\ r.stage = "delivering"
    BY <1>6, <1>1 DEF Deliver
  <2>2. PICK envelope \in r.response.envelopes : stored' = Written(envelope)
    BY <1>6 DEF Deliver
  <2>3. /\ q \in Request /\ q.stage = "answered" /\ q.response = r.response
        /\ q.kind = r.kind /\ q.parses = r.parses /\ q.pod = r.pod
        /\ q.name = r.name /\ q.now = r.now
    BY <1>1 DEF Request
  <2>4. r.response = validateRequest(r, i)
    BY <1>2, <2>1 DEF Decided
  <2>5. \A e \in r.response.envelopes : e = envelope
    BY <1>1, <2>4, DecisionShape
  <2>6. envelope \in stored'
    BY <2>2 DEF Written
  <2> HIDE DEF q
  <2>7. QED
    BY <1>1, <2>1, <2>2, <2>3, <2>4, <2>5, <2>6, HandlerStep
<1>7. CASE DeliverFails(i)
  <2> DEFINE q == [r EXCEPT !.stage = "answered", !.delivery = "failed"]
  <2>1. /\ requests' = [requests EXCEPT ![i] = q]
        /\ UNCHANGED <<webhookMode, sink, stored>> /\ r.stage = "delivering"
    BY <1>7, <1>1 DEF DeliverFails
  <2>2. /\ q \in Request /\ q.stage = "answered" /\ q.response = r.response
        /\ q.kind = r.kind /\ q.parses = r.parses /\ q.pod = r.pod
        /\ q.name = r.name /\ q.now = r.now /\ q.delivery = "failed"
    BY <1>1 DEF Request
  <2>3. r.response = validateRequest(r, i)
    BY <1>2, <2>1 DEF Decided
  <2> HIDE DEF q
  <2>4. QED
    BY <1>1, <2>1, <2>2, <2>3, HandlerStep
<1>8. CASE Conclude(i)
  <2> DEFINE stage == IF r.response.allowed THEN "admitted" ELSE "denied"
             q == [r EXCEPT !.waiting = FALSE, !.stage = stage]
  <2>1. /\ requests' = [requests EXCEPT ![i] = q]
        /\ UNCHANGED <<webhookMode, sink, stored>> /\ r.stage = "answered"
    BY <1>8, <1>1 DEF Conclude
  <2>2. /\ q \in Request /\ q.stage = stage /\ q.response = r.response
        /\ q.kind = r.kind /\ q.parses = r.parses /\ q.pod = r.pod
        /\ q.name = r.name /\ q.now = r.now /\ q.delivery = r.delivery
    BY <1>1 DEF Request
  <2>3. r.response = validateRequest(r, i)
    BY <1>2, <2>1 DEF Decided
  <2>4. sink # "none" => Evidenced(i)
    BY <1>3, <2>1 DEF Answered
  <2>5. stage = "admitted" => r.response.allowed
    OBVIOUS
  <2> HIDE DEF q, stage
  <2>6. QED
    BY <1>1, <2>1, <2>2, <2>3, <2>4, <2>5, HandlerStep DEF Evidenced
<1>9. CASE GiveUp(i)
  <2> DEFINE q == [r EXCEPT !.waiting = FALSE]
  <2>1. requests' = [requests EXCEPT ![i] = q] /\ UNCHANGED <<webhookMode, sink, stored>>
    BY <1>9, <1>1 DEF GiveUp
  <2>2. /\ q \in Request /\ q.stage = r.stage /\ q.response = r.response
        /\ q.kind = r.kind /\ q.parses = r.parses /\ q.pod = r.pod
        /\ q.name = r.name /\ q.now = r.now /\ q.delivery = r.delivery
    BY <1>1 DEF Request
  <2> HIDE DEF q
  <2>3. QED
    BY <1>1, <1>2, <1>3, <2>1, <2>2, HandlerStep DEF Decided, Answered, Evidenced
<1> QED
  BY <1>4, <1>5, <1>6, <1>7, <1>8, <1>9

\* Every step of the API server, the webhook and its sink keeps the invariant.
LEMMA StepWebhookInv == WebhookInv /\ [WebhookNext]_webhookVars => WebhookInv'
<1> SUFFICES ASSUME WebhookInv, [WebhookNext]_webhookVars
             PROVE  WebhookInv'
  OBVIOUS
<1>1. ASSUME UNCHANGED <<webhookMode, sink, requests, stored>>
      PROVE  WebhookInv'
  <2>1. WebhookTypeOK' /\ EvidenceInv'
    BY <1>1 DEF WebhookInv, WebhookTypeOK, EvidenceInv, Answered, Evidenced
  <2>2. \A j \in DOMAIN requests :
           validateRequest(requests[j], j)' = validateRequest(requests[j], j)
    BY <1>1, DecisionStays
  <2>3. DecisionInv'
    BY <1>1, <2>2 DEF WebhookInv, DecisionInv, Decided
  <2>4. QED
    BY <2>1, <2>3 DEF WebhookInv
<1>2. ASSUME NEW parses \in BOOLEAN, StartWebhook(parses)
      PROVE  WebhookInv'
  BY <1>1, <1>2 DEF StartWebhook
<1>3. CASE CertificateExpires
  BY <1>1, <1>3 DEF CertificateExpires
<1>0. \A x \in 1 .. 2 : x \in Nat
  OBVIOUS
<1>4. ASSUME NEW pod \in IF requests = <<>> THEN Pods ELSE Rivals, NEW now \in 1 .. 2,
             NEW name \in {"", pod.name}, SendReview("Pod", TRUE, pod, name, now)
      PROVE  WebhookInv'
  <2>1. pod \in Pods
    BY WebhookAssumption
  <2>2. name \in RequestNames
    BY <2>1 DEF RequestNames
  <2>3. now \in Nat
    BY <1>0, Zenon
  <2>4. QED
    BY <1>4, <2>1, <2>2, <2>3, SendReviewInv, Zenon
<1>5. ASSUME NEW pod \in Rivals,
             \/ SendReview("Pod", FALSE, pod, pod.name, 1)
             \/ SendReview("Deployment", TRUE, pod, pod.name, 1)
      PROVE  WebhookInv'
  <2>1. pod \in Pods
    BY WebhookAssumption
  <2>2. pod.name \in RequestNames
    BY <2>1 DEF RequestNames
  <2>3. QED
    BY <1>5, <2>1, <2>2, SendReviewInv
<1>6. ASSUME NEW i \in DOMAIN requests,
             \/ HandleValidate(i) \/ BadRequest(i)
             \/ Deliver(i) \/ DeliverFails(i)
             \/ Conclude(i) \/ GiveUp(i)
      PROVE  WebhookInv'
  BY <1>6, RequestStepInv
<1>7. CASE ShutdownWebhook
  BY <1>1, <1>7 DEF ShutdownWebhook
<1>8. CASE WebhookExits
  BY <1>8, WebhookExitsInv
<1>9. CASE UNCHANGED webhookVars
  BY <1>1, <1>9 DEF webhookVars
<1> QED
  BY <1>2, <1>3, <1>4, <1>5, <1>6, <1>7, <1>8, <1>9 DEF WebhookNext

\* The handlers' invariant holds throughout, for any Pods and any number of
\* concurrent requests.
LEMMA WebhookInvariant == WebhookSpec => []WebhookInv
BY InitWebhookInv, StepWebhookInv, PTL DEF WebhookSpec

\* In enforcing mode no Pod is ever admitted of which a container or an init
\* container would run as root or with a prohibited privilege, whatever the
\* Pods look like.
THEOREM WebhookAdmitsConformant == WebhookSpec => []AdmittedIsConformant
<1>1. WebhookInv => AdmittedIsConformant
  <2> SUFFICES ASSUME WebhookInv, Enforcing, NEW i \in Admitted, requests[i].kind = "Pod",
                      NEW c \in requests[i].pod.containers \cup requests[i].pod.init
               PROVE  RunsRestricted(requests[i].pod, c)
    BY DEF AdmittedIsConformant
  <2>1. i \in DOMAIN requests /\ requests[i].stage = "admitted"
    BY DEF Admitted
  <2>2. requests[i] \in Request
    BY <2>1 DEF WebhookInv, WebhookTypeOK
  <2>3. requests[i].pod \in Pods
    BY <2>2 DEF Request
  <2>4. requests[i].response = validateRequest(requests[i], i) /\ requests[i].response.allowed
    BY <2>1 DEF WebhookInv, DecisionInv, Decided
  <2>5. validateRequest(requests[i], i).allowed
    BY <2>4
  <2>6. /\ ~checkNonRootCompliance(requests[i].pod)
        /\ ~checkCapabilityCompliance(requests[i].pod)
    BY <2>5, AllowedIsCompliant
  <2>7. QED
    BY <2>3, <2>6, CompliantIsRestricted
<1> QED
  BY <1>1, WebhookInvariant, PTL

\* Proof before side effect for any number of handlers: when the API server
\* admits a Pod its envelope has been delivered, or the sink failed, or a
\* handler with the same clock wrote the same file.
THEOREM WebhookDeliversFirst == WebhookSpec => []AdmittedHasEvidence
<1>1. WebhookInv => AdmittedHasEvidence
  BY DEF WebhookInv, EvidenceInv, AdmittedHasEvidence, Admitted, Answered, Evidenced
<1> QED
  BY <1>1, WebhookInvariant, PTL

-----------------------------------------------------------------------------

(***************************************************************************)
(* Air-gap bundles.  The file has the manifest of the bundle, whatever     *)
(* happened to its parts; once it is accepted, it also has the manifest of *)
(* its own parts; the store holds a beginning of the file, at least the    *)
(* first `at' envelopes while an import loads, and those have payloads.    *)
(***************************************************************************)
PackedIds == UNION {{p[i].id : i \in DOMAIN p} : p \in Packages}
PackedArtifacts == UNION {{p[i].artifact : i \in DOMAIN p} : p \in Packages}
PackedURIs == UNION {{p[i].uri : i \in DOMAIN p} : p \in Packages}

PackedEnvelope ==
    [id : PackedIds, artifact : PackedArtifacts, captured : Int,
     uri : PackedURIs \cup {"elsewhere"}]

PackedEvaluation == [id : {"eval"}, state : {"ASSURED", "FAILED"}, validUntil : Int]

\* Receipts whose state became another one on the way.
Restated(rs) == {[r EXCEPT !.state = <<"FAILED">>] : r \in rs}

\* A file of the bundle b as it may arrive.
MayArrive(f, b) ==
    /\ f.manifest = b.manifest
    /\ f.envelopes \in Seq(PackedEnvelope)
    /\ f.evaluations \subseteq PackedEvaluation
    /\ f.receipts \in {b.receipts, Restated(b.receipts)}

ExportedInv ==
    /\ bundle.envelopes \in Seq(PackedEnvelope)
    /\ bundle.evaluations \subseteq PackedEvaluation
    /\ bundle.receipts \subseteq {Receipt}
    /\ bundle.blobs = PackedBlobs(bundle.envelopes)
    /\ bundle.manifest = ComputeManifestDigest(bundle)
    /\ MayArrive(file, bundle)

TargetInv ==
    /\ target = [envelopes |-> target.envelopes, blobs |-> target.blobs]
    /\ phase = "idle" => target.envelopes = {} /\ target.blobs = {}

\* The store holds the first n envelopes of the file; the payload of the last
\* one may be missing.
HoldsFirst(n) ==
    /\ target.envelopes = {file.envelopes[i] : i \in 1 .. n}
    /\ \A i \in 1 .. n - 1 : PayloadFor(file.envelopes[i]) \in target.blobs
    /\ \A d \in target.blobs : \E i \in 1 .. n : d = PayloadFor(file.envelopes[i])

LoadingInv ==
    /\ Accepted => Admissible(file)
    /\ phase \in {"loading", "imported"} =>
         /\ at \in 0 .. Len(file.envelopes)
         /\ phase = "loading" <=> at < Len(file.envelopes)
         /\ \A j \in 1 .. at : PayloadFor(file.envelopes[j]) \in target.blobs
    /\ \E n \in 0 .. Len(file.envelopes) :
         HoldsFirst(n) /\ (phase \in {"loading", "imported"} => at <= n)

BundleInv == ExportedInv /\ TargetInv /\ LoadingInv /\ LoadedWasExported

\* The packages are lists of envelopes of that type.
LEMMA PackagesTyped == \A p \in Packages : p \in Seq(PackedEnvelope)
<1> SUFFICES ASSUME NEW p \in Packages
             PROVE  p \in Seq(PackedEnvelope)
  OBVIOUS
<1> DEFINE S == {p[i] : i \in DOMAIN p}
<1>1. p \in Seq(S)
  BY BundleAssumption
<1>2. \A i \in DOMAIN p : p[i] \in PackedEnvelope
  <2> TAKE i \in DOMAIN p
  <2>1. p[i] \in [id : {p[i].id}, artifact : {p[i].artifact}, captured : Int,
                  uri : {p[i].uri}]
    BY BundleAssumption
  <2>2. p[i].id \in PackedIds /\ p[i].artifact \in PackedArtifacts /\ p[i].uri \in PackedURIs
    BY DEF PackedIds, PackedArtifacts, PackedURIs
  <2>3. QED
    BY <2>1, <2>2 DEF PackedEnvelope
<1> HIDE DEF S
<1> QED
  BY <1>1, <1>2

\* ExportBundle: the manifest is that of the bundle's own parts.
LEMMA ExportShape ==
    ASSUME NEW p, NEW evaluations, NEW rs, NEW b, b = ExportBundle(p, evaluations, rs)
    PROVE  /\ b = [metadata |-> b.metadata, evaluations |-> b.evaluations,
                   receipts |-> b.receipts, envelopes |-> b.envelopes,
                   blobs |-> b.blobs, manifest |-> b.manifest]
           /\ b.evaluations = evaluations /\ b.receipts = rs
           /\ b.envelopes = p
           /\ b.blobs = PackedBlobs(p)
           /\ b.manifest = ComputeManifestDigest(b)
<1> DEFINE b0 == [metadata |-> "bundle", evaluations |-> evaluations,
                  receipts |-> rs, envelopes |-> p,
                  blobs |-> PackedBlobs(p), manifest |-> Empty]
           m == ComputeManifestDigest(b0)
<1>1. b = [b0 EXCEPT !.manifest = m]
  BY DEF ExportBundle
<1> HIDE DEF m
<1>2. b = [metadata |-> "bundle", evaluations |-> evaluations, receipts |-> rs,
           envelopes |-> p, blobs |-> PackedBlobs(p), manifest |-> m]
  BY <1>1
<1>3. /\ b.metadata = "bundle" /\ b.evaluations = evaluations /\ b.receipts = rs
      /\ b.envelopes = p /\ b.blobs = PackedBlobs(p) /\ b.manifest = m
  BY <1>2
<1>4. /\ b0.metadata = "bundle" /\ b0.evaluations = evaluations /\ b0.receipts = rs
      /\ b0.envelopes = p /\ b0.blobs = PackedBlobs(p)
  OBVIOUS
<1> HIDE DEF b0
<1>5. ComputeManifestDigest(b) = ComputeManifestDigest(b0)
  BY <1>3, <1>4 DEF ComputeManifestDigest
<1> QED
  BY <1>2, <1>3, <1>5 DEF m

\* Damage leaves the manifest, and the parts lists and sets of their kind.
LEMMA DamagedShape ==
    ASSUME NEW b, b = [metadata |-> b.metadata, evaluations |-> b.evaluations,
                       receipts |-> b.receipts, envelopes |-> b.envelopes,
                       blobs |-> b.blobs, manifest |-> b.manifest],
           b.envelopes \in Seq(PackedEnvelope), b.evaluations \subseteq PackedEvaluation,
           NEW f \in {b} \cup Damaged(b)
    PROVE  MayArrive(f, b)
<1>1. CASE f = b
  BY <1>1 DEF MayArrive
<1>2. ASSUME NEW x, f = [b EXCEPT !.metadata = x]
      PROVE  MayArrive(f, b)
  BY <1>2 DEF MayArrive
<1>3. ASSUME NEW x \in Seq(PackedEnvelope), f = [b EXCEPT !.envelopes = x]
      PROVE  MayArrive(f, b)
  BY <1>3 DEF MayArrive
<1>4. ASSUME NEW x, f = [b EXCEPT !.blobs = x]
      PROVE  MayArrive(f, b)
  BY <1>4 DEF MayArrive
<1>5. CASE f = [b EXCEPT !.receipts = Restated(b.receipts)]
  BY <1>5 DEF MayArrive
<1>6. ASSUME NEW x, x \subseteq PackedEvaluation, f = [b EXCEPT !.evaluations = x]
      PROVE  MayArrive(f, b)
  BY <1>6 DEF MayArrive
<1>7. CASE b.envelopes # <<>> /\ f = [b EXCEPT !.envelopes = Tail(@)]
  <2>1. Tail(b.envelopes) \in Seq(PackedEnvelope)
    BY <1>7
  <2>2. QED
    BY <1>3, <1>7, <2>1
<1>8. ASSUME NEW i \in DOMAIN b.envelopes,
             \/ f = [b EXCEPT !.envelopes[i].captured = @ + 1]
             \/ f = [b EXCEPT !.envelopes[i].uri = "elsewhere"]
      PROVE  MayArrive(f, b)
  <2> DEFINE e == b.envelopes[i]
             e1 == [e EXCEPT !.captured = @ + 1]
             e2 == [e EXCEPT !.uri = "elsewhere"]
  <2>1. e \in PackedEnvelope
    OBVIOUS
  <2>2. e1 \in PackedEnvelope /\ e2 \in PackedEnvelope
    BY <2>1 DEF PackedEnvelope
  <2>3. /\ [b.envelopes EXCEPT ![i] = e1] \in Seq(PackedEnvelope)
        /\ [b.envelopes EXCEPT ![i] = e2] \in Seq(PackedEnvelope)
    BY <2>2
  <2>4. \/ f = [b EXCEPT !.envelopes = [b.envelopes EXCEPT ![i] = e1]]
        \/ f = [b EXCEPT !.envelopes = [b.envelopes EXCEPT ![i] = e2]]
    BY <1>8
  <2> HIDE DEF e1, e2
  <2>5. QED
    BY <1>3, <2>3, <2>4
<1> DEFINE later == {[v EXCEPT !.validUntil = 2] : v \in b.evaluations}
           worse == {[v EXCEPT !.state = "FAILED"] : v \in b.evaluations}
<1>9. later \subseteq PackedEvaluation /\ worse \subseteq PackedEvaluation
  BY DEF PackedEvaluation
<1>10. \/ f = b
       \/ \E x : f = [b EXCEPT !.metadata = x]
       \/ b.envelopes # <<>> /\ f = [b EXCEPT !.envelopes = Tail(@)]
       \/ \E i \in DOMAIN b.envelopes :
             \/ f = [b EXCEPT !.envelopes[i].captured = @ + 1]
             \/ f = [b EXCEPT !.envelopes[i].uri = "elsewhere"]
       \/ \E x : f = [b EXCEPT !.blobs = x]
       \/ f = [b EXCEPT !.receipts = Restated(b.receipts)]
       \/ f = [b EXCEPT !.evaluations = later]
       \/ f = [b EXCEPT !.evaluations = worse]
  BY DEF Damaged, Restated
<1> HIDE DEF later, worse
<1> QED
  BY <1>1, <1>2, <1>4, <1>5, <1>6, <1>7, <1>8, <1>9, <1>10

\* Equal manifests mean equal metadata, the same digests of evaluations and
\* envelopes, the same roots and signatures, and the same payloads.
LEMMA ManifestCovers ==
    ASSUME NEW a, NEW b, ComputeManifestDigest(a) = ComputeManifestDigest(b)
    PROVE  /\ a.metadata = b.metadata
           /\ \A v \in a.evaluations : \E w \in b.evaluations :
                EvaluationDigest(v) = EvaluationDigest(w)
           /\ \A r \in a.receipts : \E q \in b.receipts :
                r.evidenceRoot = q.evidenceRoot /\ r.signature = q.signature
           /\ \A i \in DOMAIN a.envelopes : \E j \in DOMAIN b.envelopes :
                EnvelopeDigest(a.envelopes[i]) = EnvelopeDigest(b.envelopes[j])
           /\ \A d \in DOMAIN a.blobs : d \in DOMAIN b.blobs /\ a.blobs[d] = b.blobs[d]
<1> DEFINE V(x) == {EvaluationDigest(v) : v \in x.evaluations}
           E(x) == {EnvelopeDigest(x.envelopes[i]) : i \in DOMAIN x.envelopes}
           R(x) == {<<r.evidenceRoot, r.signature>> : r \in x.receipts}
           B(x) == {<<d, x.blobs[d]>> : d \in DOMAIN x.blobs}
<1>1. a.metadata = b.metadata /\ V(a) = V(b) /\ E(a) = E(b) /\ R(a) = R(b) /\ B(a) = B(b)
  <2>1. \A x : /\ ComputeManifestDigest(x).metadata = x.metadata
               /\ ComputeManifestDigest(x).evals = V(x)
               /\ ComputeManifestDigest(x).envs = E(x)
               /\ ComputeManifestDigest(x).receipts = R(x)
               /\ ComputeManifestDigest(x).blobs = B(x)
    BY DEF ComputeManifestDigest
  <2> HIDE DEF V, E, R, B
  <2>2. QED
    BY <2>1
<1>2. \A i \in DOMAIN a.envelopes : \E j \in DOMAIN b.envelopes :
         EnvelopeDigest(a.envelopes[i]) = EnvelopeDigest(b.envelopes[j])
  <2> TAKE i \in DOMAIN a.envelopes
  <2>1. EnvelopeDigest(a.envelopes[i]) \in E(b)
    BY <1>1
  <2>2. QED
    BY <2>1
<1>3. \A d \in DOMAIN a.blobs : d \in DOMAIN b.blobs /\ a.blobs[d] = b.blobs[d]
  <2> TAKE d \in DOMAIN a.blobs
  <2>1. <<d, a.blobs[d]>> \in B(b)
    BY <1>1
  <2>2. PICK c \in DOMAIN b.blobs : <<d, a.blobs[d]>> = <<c, b.blobs[c]>>
    BY <2>1
  <2>3. QED
    BY <2>2
<1>4. \A v \in a.evaluations : \E w \in b.evaluations :
         EvaluationDigest(v) = EvaluationDigest(w)
  <2> TAKE v \in a.evaluations
  <2>1. EvaluationDigest(v) \in V(b)
    BY <1>1
  <2>2. QED
    BY <2>1
<1>5. \A r \in a.receipts : \E q \in b.receipts :
         r.evidenceRoot = q.evidenceRoot /\ r.signature = q.signature
  <2> TAKE r \in a.receipts
  <2>1. <<r.evidenceRoot, r.signature>> \in R(b)
    BY <1>1
  <2>2. PICK q \in b.receipts : <<r.evidenceRoot, r.signature>> = <<q.evidenceRoot, q.signature>>
    BY <2>1
  <2>3. QED
    BY <2>2
<1> QED
  BY <1>1, <1>2, <1>3, <1>4, <1>5

\* An envelope's digest covers everything but the URI, an evaluation's
\* everything but validUntil.
LEMMA DigestsCover ==
    /\ \A e, x \in PackedEnvelope :
         EnvelopeDigest(e) = EnvelopeDigest(x) => e = [x EXCEPT !.uri = e.uri]
    /\ \A v, w \in PackedEvaluation :
         EvaluationDigest(v) = EvaluationDigest(w) => v = [w EXCEPT !.validUntil = v.validUntil]
<1>1. ASSUME NEW e \in PackedEnvelope, NEW x \in PackedEnvelope,
             EnvelopeDigest(e) = EnvelopeDigest(x)
      PROVE  e = [x EXCEPT !.uri = e.uri]
  <2>1. e.id = x.id /\ e.artifact = x.artifact /\ e.captured = x.captured
    <3>1. \A y \in PackedEnvelope :
             /\ EnvelopeDigest(y).id = y.id /\ EnvelopeDigest(y).artifact = y.artifact
             /\ EnvelopeDigest(y).captured = y.captured
      BY DEF PackedEnvelope, EnvelopeDigest
    <3>2. QED
      BY <1>1, <3>1
  <2>2. QED
    BY <2>1 DEF PackedEnvelope
<1>2. ASSUME NEW v \in PackedEvaluation, NEW w \in PackedEvaluation,
             EvaluationDigest(v) = EvaluationDigest(w)
      PROVE  v = [w EXCEPT !.validUntil = v.validUntil]
  <2>1. v.id = w.id /\ v.state = w.state
    <3>1. \A y \in PackedEvaluation :
             EvaluationDigest(y).id = y.id /\ EvaluationDigest(y).state = y.state
      BY DEF PackedEvaluation, EvaluationDigest
    <3>2. QED
      BY <1>2, <3>1
  <2>2. QED
    BY <2>1 DEF PackedEvaluation
<1> QED
  BY <1>1, <1>2

\* A receipt whose state was changed does not verify under any key.
LEMMA RestatedFails ==
    ASSUME NEW key, NEW r \in Restated({Receipt})
    PROVE  VerifyIndependentReceipt(r, key) # "valid"
<1> DEFINE c == [namespace |-> "nist", id |-> "AC-6", version |-> Empty]
           body == [subject |-> "web", control |-> c, state |-> <<"ASSURED">>,
                    epoch |-> "epoch", evidenceRoot |-> "root", evaluator |-> "evaluator",
                    evaluatedAt |-> 1, signature |-> Unsigned]
           signed == Sign(1, CanonicalBytes(body))
<1>1. Receipt = [body EXCEPT !.signature = signed]
  BY DEF Receipt, IssueReceipt
<1>2. CanonicalBytes(body)[3] = <<"ASSURED">>
  BY DEF CanonicalBytes
<1>3. signed.bytes[3] = <<"ASSURED">>
  BY <1>2 DEF Sign
<1> HIDE DEF signed
<1>4. r = [body EXCEPT !.signature = signed, !.state = <<"FAILED">>]
  BY <1>1 DEF Restated
<1>5. r.signature = signed /\ r.state = <<"FAILED">>
  BY <1>4
<1>6. CanonicalBytes(r)[3] = <<"FAILED">>
  BY <1>5 DEF CanonicalBytes
<1>7. Sign(key, CanonicalBytes(r)).bytes[3] = <<"FAILED">>
  BY <1>6 DEF Sign
<1>8. <<"ASSURED">> # <<"FAILED">>
  OBVIOUS
<1>9. r.signature # Sign(key, CanonicalBytes(r))
  BY <1>3, <1>5, <1>7, <1>8
<1> QED
  BY <1>9 DEF VerifyIndependentReceipt

\* An admissible file has the parts that were exported, up to what the
\* manifest leaves out.
LEMMA AdmissibleWasExported ==
    ASSUME ExportedInv, Admissible(file)
    PROVE  /\ \A j \in DOMAIN file.envelopes : \E i \in DOMAIN bundle.envelopes :
                file.envelopes[j] = [bundle.envelopes[i] EXCEPT !.uri = file.envelopes[j].uri]
           /\ \A e : PayloadFor(e) \in Stored \cup {EmptyPayload}
           /\ file.metadata = bundle.metadata
           /\ \A v \in file.evaluations : \E w \in bundle.evaluations :
                v = [w EXCEPT !.validUntil = v.validUntil]
           /\ \A r \in file.receipts : \E q \in bundle.receipts :
                r.evidenceRoot = q.evidenceRoot /\ r.signature = q.signature
           /\ signer # BadKey => file.receipts = bundle.receipts
<1>1. ComputeManifestDigest(file) = ComputeManifestDigest(bundle)
  BY DEF ExportedInv, MayArrive, Admissible
<1>2. \A d \in DOMAIN file.blobs : d \in DOMAIN bundle.blobs /\ file.blobs[d] = bundle.blobs[d]
  BY <1>1, ManifestCovers
<1>3. \A d \in DOMAIN bundle.blobs : bundle.blobs[d] \in Stored
  BY DEF ExportedInv, PackedBlobs
<1>4. \A e : PayloadFor(e) \in Stored \cup {EmptyPayload}
  BY <1>2, <1>3 DEF PayloadFor
<1>5. ASSUME NEW j \in DOMAIN file.envelopes
      PROVE  \E i \in DOMAIN bundle.envelopes :
               file.envelopes[j] = [bundle.envelopes[i] EXCEPT !.uri = file.envelopes[j].uri]
  <2>1. PICK i \in DOMAIN bundle.envelopes :
          EnvelopeDigest(file.envelopes[j]) = EnvelopeDigest(bundle.envelopes[i])
    BY <1>1, ManifestCovers
  <2>2. file.envelopes[j] \in PackedEnvelope /\ bundle.envelopes[i] \in PackedEnvelope
    BY DEF ExportedInv, MayArrive
  <2>3. QED
    BY <2>1, <2>2, DigestsCover
<1>6. ASSUME NEW v \in file.evaluations
      PROVE  \E w \in bundle.evaluations : v = [w EXCEPT !.validUntil = v.validUntil]
  <2>1. PICK w \in bundle.evaluations : EvaluationDigest(v) = EvaluationDigest(w)
    BY <1>1, ManifestCovers
  <2>2. v \in PackedEvaluation /\ w \in PackedEvaluation
    BY DEF ExportedInv, MayArrive
  <2>3. QED
    BY <2>1, <2>2, DigestsCover
<1>7. ASSUME signer # BadKey
      PROVE  file.receipts = bundle.receipts
  <2>1. \A r \in file.receipts : VerifyIndependentReceipt(r, signer) = "valid"
    BY <1>7 DEF Admissible
  <2>2. CASE file.receipts = Restated(bundle.receipts)
    <3>1. \A r \in file.receipts : r \in Restated({Receipt})
      BY <2>2 DEF ExportedInv, Restated
    <3>2. file.receipts = {}
      BY <2>1, <3>1, RestatedFails
    <3>3. bundle.receipts = {}
      BY <2>2, <3>2 DEF Restated
    <3>4. QED
      BY <3>2, <3>3
  <2>3. QED
    BY <2>2 DEF ExportedInv, MayArrive
<1>8. /\ file.metadata = bundle.metadata
      /\ \A r \in file.receipts : \E q \in bundle.receipts :
           r.evidenceRoot = q.evidenceRoot /\ r.signature = q.signature
  BY <1>1, ManifestCovers
<1> QED
  BY <1>4, <1>5, <1>6, <1>7, <1>8

\* Nothing is exported and nothing imported at first.
LEMMA InitBundleInv == BundleInit => BundleInv
<1> SUFFICES ASSUME BundleInit
             PROVE  BundleInv
  OBVIOUS
<1>1. bundle = ExportBundle(<<>>, {}, {}) /\ file = bundle
  BY DEF BundleInit, NoBundle
<1>2. /\ bundle.envelopes = <<>> /\ bundle.blobs = PackedBlobs(<<>>)
      /\ bundle.evaluations = {} /\ bundle.receipts = {}
      /\ bundle.manifest = ComputeManifestDigest(bundle)
  BY <1>1, ExportShape
<1>3. <<>> \in Seq(PackedEnvelope) /\ Len(<<>>) = 0
  OBVIOUS
<1>4. ExportedInv
  BY <1>1, <1>2, <1>3 DEF ExportedInv, MayArrive
<1>5. target = [envelopes |-> {}, blobs |-> {}] /\ phase = "idle"
  BY DEF BundleInit
<1>6. target.envelopes = {} /\ target.blobs = {}
  BY <1>5
<1>7. TargetInv
  BY <1>5, <1>6 DEF TargetInv
<1>8. LoadingInv
  <2>1. HoldsFirst(0)
    BY <1>6 DEF HoldsFirst
  <2>2. 0 \in 0 .. Len(file.envelopes)
    BY <1>1, <1>2, <1>3
  <2>3. QED
    BY <1>5, <2>1, <2>2 DEF LoadingInv, Accepted
<1>9. LoadedWasExported
  BY <1>5, <1>6 DEF LoadedWasExported, Accepted
<1> QED
  BY <1>4, <1>7, <1>8, <1>9 DEF BundleInv

\* The bundle leaves the exporter and the file arrives, intact or damaged.
LEMMA ExportInv ==
    ASSUME BundleInv, NEW p \in Packages, NEW rs \in {{}, {Receipt}}, Export(p, rs)
    PROVE  BundleInv'
<1>1. bundle' = ExportBundle(p, {Evaluation}, rs)
  BY DEF Export
<1>2. /\ bundle' = [metadata |-> bundle'.metadata, evaluations |-> bundle'.evaluations,
                    receipts |-> bundle'.receipts, envelopes |-> bundle'.envelopes,
                    blobs |-> bundle'.blobs, manifest |-> bundle'.manifest]
      /\ bundle'.evaluations = {Evaluation} /\ bundle'.receipts = rs
      /\ bundle'.envelopes = p /\ bundle'.blobs = PackedBlobs(p)
      /\ bundle'.manifest = ComputeManifestDigest(bundle')
  BY <1>1, ExportShape
<1>3. p \in Seq(PackedEnvelope)
  BY PackagesTyped
<1>4. {Evaluation} \subseteq PackedEvaluation
  BY DEF Evaluation, PackedEvaluation
<1>5. file' \in {bundle'} \cup Damaged(bundle')
  BY DEF Export
<1>6. MayArrive(file', bundle')
  BY <1>2, <1>3, <1>4, <1>5, DamagedShape
<1>7. ExportedInv'
  BY <1>2, <1>3, <1>4, <1>6 DEF ExportedInv, MayArrive
<1>8. phase = "idle" /\ phase' = "arrived" /\ target' = target
  BY DEF Export
<1>9. target.envelopes = {} /\ target.blobs = {} /\ TargetInv'
  BY <1>8 DEF BundleInv, TargetInv
<1>10. LoadedWasExported'
  BY <1>8, <1>9 DEF LoadedWasExported, Accepted
<1>11. LoadingInv'
  <2>1. HoldsFirst(0)'
    BY <1>8, <1>9 DEF HoldsFirst
  <2>2. 0 \in 0 .. Len(file'.envelopes)
    BY <1>6 DEF MayArrive
  <2>3. QED
    BY <1>8, <2>1, <2>2 DEF LoadingInv, Accepted
<1> QED
  BY <1>7, <1>9, <1>10, <1>11 DEF BundleInv

\* What the importer's steps leave alone.
LEMMA ExportedStays ==
    ASSUME ExportedInv, UNCHANGED <<bundle, file, signer>>
    PROVE  /\ ExportedInv'
           /\ Admissible(file)' <=> Admissible(file)
           /\ \A e : PayloadFor(e)' = PayloadFor(e)
<1>1. ExportedInv'
  BY DEF ExportedInv, MayArrive, ComputeManifestDigest
<1>2. Admissible(file)' <=> Admissible(file)
  BY DEF Admissible, ComputeManifestDigest
<1>3. \A e : PayloadFor(e)' = PayloadFor(e)
  BY DEF PayloadFor
<1> QED
  BY <1>1, <1>2, <1>3

\* The store stays a beginning of the file when the next envelope is filed,
\* with its payload or without it.
LEMMA NextIsFiled ==
    ASSUME BundleInv, phase = "loading", UNCHANGED <<bundle, file, signer>>,
           target'.envelopes = target.envelopes \cup {file.envelopes[at + 1]},
           target'.blobs \in {target.blobs,
                              target.blobs \cup {PayloadFor(file.envelopes[at + 1])}}
    PROVE  \E n \in 0 .. Len(file.envelopes) : HoldsFirst(n)' /\ at + 1 <= n
<1> DEFINE E == file.envelopes
           P(i) == PayloadFor(E[i])
           k == at + 1
<1>1. /\ at \in 0 .. Len(E) /\ at < Len(E) /\ Len(E) \in Nat
      /\ \A j \in 1 .. at : P(j) \in target.blobs
  BY DEF BundleInv, LoadingInv, ExportedInv, MayArrive
<1>2. PICK n \in 0 .. Len(E) : HoldsFirst(n) /\ at <= n
  BY DEF BundleInv, LoadingInv
<1>3. /\ target.envelopes = {E[i] : i \in 1 .. n}
      /\ \A i \in 1 .. n - 1 : P(i) \in target.blobs
      /\ \A d \in target.blobs : \E i \in 1 .. n : d = P(i)
  BY <1>2 DEF HoldsFirst
<1>0. PICK m \in 0 .. Len(E) : m = IF at = n THEN k ELSE n
  BY <1>1, <1>2
<1>4. m \in 0 .. Len(E) /\ k <= m /\ k \in 1 .. m /\ n <= m
  BY <1>0, <1>1, <1>2
<1>5. target'.envelopes = {E[i] : i \in 1 .. m}
  <2>1. CASE at = n
    <3>1. 1 .. m = (1 .. n) \cup {k}
      BY <1>0, <1>1, <2>1
    <3> HIDE DEF E, k
    <3>2. QED
      BY <1>3, <3>1 DEF E, k
  <2>2. CASE at # n
    <3>1. k \in 1 .. n /\ m = n
      BY <1>0, <1>1, <1>2, <2>2
    <3> HIDE DEF k
    <3>2. E[k] \in target.envelopes
      BY <1>3, <3>1
    <3>3. QED
      BY <1>3, <3>1, <3>2 DEF k
  <2>3. QED
    BY <2>1, <2>2
<1>6. \A i \in 1 .. m - 1 : P(i) \in target'.blobs
  <2> TAKE i \in 1 .. m - 1
  <2>1. i \in 1 .. at \/ i \in 1 .. n - 1
    BY <1>0, <1>1, <1>2
  <2> HIDE DEF P
  <2>2. QED
    BY <1>1, <1>3, <2>1 DEF P
<1>7. \A d \in target'.blobs : \E i \in 1 .. m : d = P(i)
  <2> TAKE d \in target'.blobs
  <2>1. d \in target.blobs \/ d = P(k)
    OBVIOUS
  <2>2. 1 .. n \subseteq 1 .. m
    BY <1>2, <1>4
  <2> HIDE DEF P, k
  <2>3. QED
    BY <1>3, <1>4, <2>1, <2>2
<1>8. \A e : PayloadFor(e)' = PayloadFor(e)
  BY ExportedStays DEF BundleInv
<1>9. \A i : PayloadFor(file.envelopes[i])' = P(i)
  BY DEF PayloadFor
<1> HIDE DEF P
<1>10. HoldsFirst(m)'
  BY <1>5, <1>6, <1>7, <1>9 DEF HoldsFirst
<1> QED
  BY <1>4, <1>10

\* One turn of the loop files an exported envelope and its payload.
LEMMA LoadEnvelopeInv ==
    ASSUME BundleInv, LoadEnvelope
    PROVE  BundleInv'
<1> DEFINE k == at + 1
           e == file.envelopes[k]
           payload == PayloadFor(e)
<1>1. /\ ExportedInv /\ TargetInv /\ LoadedWasExported
      /\ phase = "loading" /\ UNCHANGED <<bundle, file, signer, imports>>
      /\ target' = Put(target, e, payload) /\ at' = k
      /\ phase' = IF k = Len(file.envelopes) THEN "imported" ELSE "loading"
  BY DEF BundleInv, LoadEnvelope
<1>2. /\ Admissible(file) /\ at \in Nat /\ at < Len(file.envelopes)
      /\ Len(file.envelopes) \in Nat /\ DOMAIN file.envelopes = 1 .. Len(file.envelopes)
      /\ \A j \in 1 .. at : PayloadFor(file.envelopes[j]) \in target.blobs
  BY <1>1 DEF BundleInv, LoadingInv, Accepted, ExportedInv, MayArrive
<1>3. k \in DOMAIN file.envelopes /\ k \in Nat
  BY <1>2
<1>4. /\ ExportedInv' /\ Admissible(file)'
      /\ \A j : PayloadFor(file.envelopes[j])' = PayloadFor(file.envelopes[j])
  BY <1>1, <1>2, ExportedStays DEF PayloadFor
<1> HIDE DEF payload
<1>5. /\ target'.envelopes = target.envelopes \cup {e}
      /\ target'.blobs = target.blobs \cup {payload}
      /\ target' = [envelopes |-> target'.envelopes, blobs |-> target'.blobs]
  BY <1>1 DEF Put
<1>6. TargetInv'
  BY <1>1, <1>5 DEF TargetInv
<1>7. \A j \in 1 .. k : PayloadFor(file.envelopes[j]) \in target'.blobs
  <2> TAKE j \in 1 .. k
  <2>1. CASE j = k
    BY <1>5, <2>1 DEF payload
  <2>2. CASE j \in 1 .. at
    BY <1>2, <1>5, <2>2
  <2>3. QED
    BY <1>2, <2>1, <2>2
<1>8. \E n \in 0 .. Len(file.envelopes) : HoldsFirst(n)' /\ k <= n
  BY <1>1, <1>5, NextIsFiled DEF payload
<1>9. LoadingInv'
  <2>1. /\ k \in 0 .. Len(file.envelopes)
        /\ phase' = "loading" <=> k < Len(file.envelopes)
        /\ phase' \in {"loading", "imported"}
    BY <1>1, <1>2
  <2> HIDE DEF k
  <2>2. QED
    BY <1>1, <1>4, <1>7, <1>8, <2>1 DEF LoadingInv
<1>10. LoadedWasExported'
  <2> HIDE DEF k
  <2>1. /\ \E i \in DOMAIN bundle.envelopes : e = [bundle.envelopes[i] EXCEPT !.uri = e.uri]
        /\ payload \in Stored \cup {EmptyPayload}
    BY <1>1, <1>2, <1>3, AdmissibleWasExported DEF payload
  <2>2. Accepted
    BY <1>1 DEF Accepted
  <2> HIDE DEF e
  <2>3. QED
    BY <1>1, <1>5, <2>1, <2>2 DEF LoadedWasExported
<1> QED
  BY <1>4, <1>6, <1>9, <1>10 DEF BundleInv

\* A Put that fails has filed the envelope only, and ends the import.
LEMMA LoadFailsInv ==
    ASSUME BundleInv, LoadFails
    PROVE  BundleInv'
<1> DEFINE k == at + 1
           e == file.envelopes[k]
<1>1. /\ ExportedInv /\ TargetInv /\ LoadedWasExported
      /\ phase = "loading" /\ phase' = "failed" /\ UNCHANGED <<bundle, file, signer>>
      /\ target' = [target EXCEPT !.envelopes = @ \cup {e}]
  BY DEF BundleInv, LoadFails, PutThatFails
<1>2. Admissible(file) /\ k \in DOMAIN file.envelopes
  BY <1>1 DEF BundleInv, LoadingInv, Accepted, ExportedInv, MayArrive
<1>3. /\ target'.envelopes = target.envelopes \cup {e}
      /\ target'.blobs = target.blobs
      /\ target' = [envelopes |-> target'.envelopes, blobs |-> target'.blobs]
  BY <1>1 DEF TargetInv
<1>4. ExportedInv' /\ Admissible(file)'
  BY <1>1, <1>2, ExportedStays
<1>5. TargetInv'
  BY <1>1, <1>3 DEF TargetInv
<1>6. LoadingInv'
  <2>1. \E n \in 0 .. Len(file.envelopes) : HoldsFirst(n)' /\ k <= n
    BY <1>1, <1>3, NextIsFiled
  <2> HIDE DEF k
  <2>2. QED
    BY <1>1, <1>4, <2>1 DEF LoadingInv
<1>7. LoadedWasExported'
  <2> HIDE DEF k
  <2>1. \E i \in DOMAIN bundle.envelopes : e = [bundle.envelopes[i] EXCEPT !.uri = e.uri]
    BY <1>1, <1>2, AdmissibleWasExported
  <2>2. Accepted
    BY <1>1 DEF Accepted
  <2> HIDE DEF e
  <2>3. QED
    BY <1>1, <1>3, <2>1, <2>2 DEF LoadedWasExported
<1> QED
  BY <1>4, <1>5, <1>6, <1>7 DEF BundleInv

\* Exports, tampering, failing writes and imports keep the invariant.
LEMMA StepBundleInv == BundleInv /\ [BundleNext]_bundleVars => BundleInv'
<1> SUFFICES ASSUME BundleInv, [BundleNext]_bundleVars
             PROVE  BundleInv'
  OBVIOUS
<1>1. ASSUME UNCHANGED <<bundle, file, signer, target>>
      PROVE  /\ ExportedInv' /\ (Admissible(file)' <=> Admissible(file))
             /\ \A n : HoldsFirst(n)' <=> HoldsFirst(n)
             /\ \A j : PayloadFor(file.envelopes[j])' = PayloadFor(file.envelopes[j])
  <2>1. /\ ExportedInv' /\ (Admissible(file)' <=> Admissible(file))
        /\ \A j : PayloadFor(file.envelopes[j])' = PayloadFor(file.envelopes[j])
    BY <1>1, ExportedStays DEF BundleInv, PayloadFor
  <2>2. \A n : HoldsFirst(n)' <=> HoldsFirst(n)
    BY <1>1, <2>1 DEF HoldsFirst
  <2>3. QED
    BY <2>1, <2>2
<1>2. ASSUME NEW p \in Packages, NEW rs \in {{}, {Receipt}}, Export(p, rs)
      PROVE  BundleInv'
  BY <1>2, ExportInv
<1>3. ASSUME NEW readable \in BOOLEAN, Refuse(readable)
      PROVE  BundleInv'
  <2>1. UNCHANGED <<bundle, file, signer, target>> /\ phase' = "refused"
    BY <1>3 DEF Refuse
  <2>2. TargetInv' /\ LoadedWasExported'
    BY <2>1 DEF BundleInv, TargetInv, LoadedWasExported, Accepted
  <2>3. LoadingInv'
    BY <1>1, <2>1 DEF BundleInv, LoadingInv, Accepted
  <2>4. QED
    BY <1>1, <2>1, <2>2, <2>3 DEF BundleInv
<1>4. CASE BeginImport
  <2>1. /\ UNCHANGED <<bundle, file, signer, target>> /\ at' = 0
        /\ phase' = IF file.envelopes = <<>> THEN "imported" ELSE "loading"
        /\ Admissible(file)
    BY <1>4 DEF BeginImport
  <2>2. file.envelopes \in Seq(PackedEnvelope)
    BY DEF BundleInv, ExportedInv, MayArrive
  <2>3. /\ 0 \in 0 .. Len(file.envelopes)
        /\ phase' = "loading" <=> 0 < Len(file.envelopes)
    BY <2>1, <2>2
  <2>4. LoadingInv'
    <3>1. PICK n \in 0 .. Len(file.envelopes) : HoldsFirst(n)
      BY DEF BundleInv, LoadingInv
    <3>2. 0 <= n /\ HoldsFirst(n)'
      BY <1>1, <2>1, <3>1
    <3>3. QED
      BY <1>1, <2>1, <2>3, <3>2 DEF LoadingInv
  <2>5. TargetInv'
    BY <2>1 DEF BundleInv, TargetInv
  <2>6. LoadedWasExported'
    <3>1. ExportedInv
      BY DEF BundleInv
    <3>2. /\ file.metadata = bundle.metadata
          /\ \A v \in file.evaluations : \E w \in bundle.evaluations :
               v = [w EXCEPT !.validUntil = v.validUntil]
          /\ \A r \in file.receipts : \E q \in bundle.receipts :
               r.evidenceRoot = q.evidenceRoot /\ r.signature = q.signature
          /\ signer # BadKey => file.receipts = bundle.receipts
      BY <2>1, <3>1, AdmissibleWasExported
    <3>3. QED
      BY <2>1, <3>2 DEF BundleInv, LoadedWasExported
  <2>7. QED
    BY <1>1, <2>1, <2>4, <2>5, <2>6 DEF BundleInv
<1>5. CASE LoadEnvelope
  BY <1>5, LoadEnvelopeInv
<1>6. CASE LoadFails
  BY <1>6, LoadFailsInv
<1>7. CASE UNCHANGED bundleVars
  <2>1. UNCHANGED <<bundle, file, signer, target>> /\ UNCHANGED <<phase, at>>
    BY <1>7 DEF bundleVars
  <2>2. TargetInv' /\ LoadedWasExported'
    BY <2>1 DEF BundleInv, TargetInv, LoadedWasExported, Accepted
  <2>3. LoadingInv'
    BY <1>1, <2>1 DEF BundleInv, LoadingInv, Accepted
  <2>4. QED
    BY <1>1, <2>1, <2>2, <2>3 DEF BundleInv
<1> QED
  BY <1>2, <1>3, <1>4, <1>5, <1>6, <1>7 DEF BundleNext

\* The importer's invariant holds throughout, for any packages, any damage
\* and any number of imports.
LEMMA BundleInvariant == BundleSpec => []BundleInv
BY InitBundleInv, StepBundleInv, PTL DEF BundleSpec

\* What imports leave in the store, however many failed half way, is a
\* beginning of the file in which only the last envelope may lack its payload.
THEOREM BundleLeavesPrefix == BundleSpec => []PartialIsPrefix
<1>1. BundleInv => PartialIsPrefix
  <2> SUFFICES ASSUME BundleInv
               PROVE  PartialIsPrefix
    OBVIOUS
  <2>1. PICK n \in 0 .. Len(file.envelopes) : HoldsFirst(n)
    BY DEF BundleInv, LoadingInv
  <2>2. /\ target.envelopes = {file.envelopes[i] : i \in 1 .. n}
        /\ {PayloadFor(file.envelopes[i]) : i \in 1 .. n - 1} \subseteq target.blobs
        /\ target.blobs \subseteq {PayloadFor(file.envelopes[i]) : i \in 1 .. n}
    BY <2>1 DEF HoldsFirst
  <2>3. QED
    BY <2>2 DEF PartialIsPrefix
<1> QED
  BY <1>1, BundleInvariant, PTL

\* What ImportBundle accepts was exported, up to the artifact URIs, the
\* validUntil of evaluations and, where no signer verifies them, the receipts'
\* contents behind their roots and signatures.
THEOREM BundleLoadsExported == BundleSpec => []LoadedWasExported
<1>1. BundleInv => LoadedWasExported
  BY DEF BundleInv
<1> QED
  BY <1>1, BundleInvariant, PTL

\* An import that reports success has filed every exported envelope and every
\* payload that could be read at export, also after imports that failed.
THEOREM BundleImportsAll == BundleSpec => []ImportIsComplete
<1>1. BundleInv => ImportIsComplete
  <2> SUFFICES ASSUME BundleInv, phase = "imported", NEW i \in DOMAIN bundle.envelopes,
                      NEW e, e = bundle.envelopes[i]
               PROVE  /\ \E x \in target.envelopes : EnvelopeDigest(x) = EnvelopeDigest(e)
                      /\ e.artifact \in Stored => e.artifact \in target.blobs
    BY DEF ImportIsComplete
  <2>1. /\ ExportedInv /\ Admissible(file)
        /\ Len(file.envelopes) \in Nat /\ DOMAIN file.envelopes = 1 .. Len(file.envelopes)
        /\ at = Len(file.envelopes)
        /\ \A j \in 1 .. at : PayloadFor(file.envelopes[j]) \in target.blobs
    BY DEF BundleInv, LoadingInv, Accepted, ExportedInv, MayArrive
  <2>2. ComputeManifestDigest(bundle) = ComputeManifestDigest(file)
    BY <2>1 DEF ExportedInv, MayArrive, Admissible
  <2>3. PICK j \in DOMAIN file.envelopes :
          EnvelopeDigest(e) = EnvelopeDigest(file.envelopes[j])
    BY <2>2, ManifestCovers
  <2>4. PICK n \in 0 .. Len(file.envelopes) : HoldsFirst(n) /\ at <= n
    BY DEF BundleInv, LoadingInv
  <2> DEFINE x == file.envelopes[j]
  <2>5. x \in target.envelopes /\ PayloadFor(x) \in target.blobs
    <3>1. j \in 1 .. n /\ j \in 1 .. at
      BY <2>1, <2>4
    <3>2. QED
      BY <2>1, <2>4, <3>1 DEF HoldsFirst
  <2>6. x \in PackedEnvelope /\ e \in PackedEnvelope
    BY <2>1 DEF ExportedInv, MayArrive
  <2> HIDE DEF x
  <2>7. x.artifact = e.artifact
    <3>1. \A y \in PackedEnvelope : EnvelopeDigest(y).artifact = y.artifact
      BY DEF PackedEnvelope, EnvelopeDigest
    <3>2. QED
      BY <2>3, <2>6, <3>1 DEF x
  <2>8. ASSUME e.artifact \in Stored
        PROVE  e.artifact \in target.blobs
    <3>1. e.artifact \in DOMAIN bundle.blobs /\ bundle.blobs[e.artifact] = e.artifact
      BY <2>1, <2>8 DEF ExportedInv, PackedBlobs
    <3>2. \A d \in DOMAIN bundle.blobs : d \in DOMAIN file.blobs /\ bundle.blobs[d] = file.blobs[d]
      BY <2>2, ManifestCovers
    <3>3. PayloadFor(x) = e.artifact
      BY <2>7, <3>1, <3>2 DEF PayloadFor
    <3>4. QED
      BY <2>5, <3>3
  <2>9. QED
    BY <2>3, <2>5, <2>8 DEF x
<1> QED
  BY <1>1, BundleInvariant, PTL

-----------------------------------------------------------------------------

(***************************************************************************)
(* Receipts between processes.  What was issued carries a signature of its *)
(* own bytes; every key in use was generated; a call that was made to an   *)
(* earlier life of the server carries an earlier key; and an answer says   *)
(* what verification says of the call's receipt.                           *)
(***************************************************************************)
IsReceipt(r) ==
    r = [subject |-> r.subject,
         control |-> [namespace |-> r.control.namespace, id |-> r.control.id,
                      version |-> r.control.version],
         state |-> r.state, epoch |-> r.epoch, evidenceRoot |-> r.evidenceRoot,
         evaluator |-> r.evaluator, evaluatedAt |-> r.evaluatedAt,
         signature |-> r.signature]

IsIssued(r) ==
    /\ IsReceipt(r)
    /\ \E n \in 1 .. 6 : r.state = AssuranceState(n)
    /\ r.signature = Sign(r.signature.key, CanonicalBytes(r))
    /\ r.signature.key \in Nat \ {BadKey}

IssuedInv == \A r \in issued : IsIssued(r)

KeysInv ==
    /\ nextKey \in Nat
    /\ managerKey \in 1 .. nextKey - 1
    /\ serverKey \in 1 .. nextKey - 1

\* A list and the shape of a call.
IsList(s) == Len(s) \in Nat /\ s = [i \in 1 .. Len(s) |-> s[i]]

IsCall(c) ==
    c = [kind |-> c.kind, receipts |-> c.receipts, requested |-> c.requested,
         answer |-> c.answer, key |-> c.key, client |-> c.client]

\* The receipt of a call, if it has one, and what was and was not said of it,
\* when the server has the key server and holds the digests held.
CallOK(c, presented, next, server, held) ==
    /\ IsCall(c)
    /\ c.receipts \subseteq presented
    /\ c.receipts # {} => c.kind = "receipt"
    /\ \A r, s \in c.receipts : r = s
    /\ c.key \in 1 .. next - 1
    /\ c.requested => c.answer = <<>> /\ c.key = server
    /\ \A r \in c.receipts :
         /\ c.answer \in {<<>>, <<"verified">>, <<"refused">>}
         /\ c.answer = <<"refused">>
              => VerifyIndependentReceipt(ServerReceipt(r), c.key) # "valid"
         /\ c.answer = <<"verified">> /\ c.key = server
              => ReceiptDigest(ServerReceipt(r)) \in held
         /\ c.client = <<"verified">> => c.answer = <<"verified">>

CallsInv ==
    /\ IsList(calls)
    /\ \A i \in DOMAIN calls :
         CallOK(calls[i], Presented, nextKey, serverKey, DOMAIN serverReceipts)

ExchangeInv == IssuedInv /\ KeysInv /\ CallsInv /\ AcceptedWasIssued

\* Only the number of a named state gives that state, in the server's cast and
\* in the SDK's mapping.
LEMMA StateNumbers ==
    ASSUME NEW n \in 1 .. 6
    PROVE  /\ mapProtoState(n) = AssuranceState(n)
           /\ \A m \in Nat : AssuranceState(m) = AssuranceState(n) => m = n
           /\ \A m \in Nat : mapProtoState(m) = AssuranceState(n) => m = n
<1>1. DOMAIN StateName = 1 .. 6
  BY DEF StateName
<1>2. \A k \in 1 .. 6 : AssuranceState(k) = <<StateName[k]>>
  BY <1>1 DEF AssuranceState
<1>3. \A j, k \in 1 .. 6 : StateName[j] = StateName[k] => j = k
  BY DEF StateName
<1>4. \A k \in 1 .. 6 : StateName[k] # "UNSPECIFIED"
  BY DEF StateName
<1>0. /\ \A a, b : <<a>> = <<b>> => a = b
      /\ \A a, b, c : <<a>> # <<b, c>>
  OBVIOUS
<1>5. \A m \in Nat : AssuranceState(m) = AssuranceState(n) => m = n
  <2> TAKE m \in Nat
  <2> HAVE AssuranceState(m) = AssuranceState(n)
  <2>1. CASE m = 0
    <3>1. AssuranceState(m) = <<"UNSPECIFIED">>
      BY <2>1 DEF AssuranceState
    <3>2. QED
      BY <1>0, <1>2, <1>4, <3>1, Zenon
  <2>2. CASE m \in 1 .. 6
    BY <1>2, <1>3, <2>2
  <2>3. CASE m > 6
    <3>1. AssuranceState(m) = <<"AssuranceState", m>>
      BY <1>1, <2>3 DEF AssuranceState
    <3>2. QED
      BY <1>0, <1>2, <3>1, Zenon
  <2>4. QED
    BY <2>1, <2>2, <2>3
<1>6. mapProtoState(n) = AssuranceState(n)
  BY <1>1 DEF mapProtoState
<1>7. \A m \in Nat : mapProtoState(m) = AssuranceState(n) => m = n
  <2> TAKE m \in Nat
  <2> HAVE mapProtoState(m) = AssuranceState(n)
  <2>1. CASE m \in 1 .. 6
    BY <1>1, <1>5, <2>1 DEF mapProtoState
  <2>2. CASE m \notin 1 .. 6
    <3>1. mapProtoState(m) = AssuranceState(0)
      BY <1>1, <2>2 DEF mapProtoState
    <3>2. 0 = n
      BY <1>5, <3>1
    <3>3. QED
      BY <3>2
  <2>3. QED
    BY <2>1, <2>2
<1> QED
  BY <1>5, <1>6, <1>7

\* A receipt on the wire is the receipt with the number of its state.
LEMMA OnWireShape ==
    ASSUME IssuedInv, NEW r \in issued
    PROVE  \E n \in 1 .. 6 :
             /\ r.state = AssuranceState(n)
             /\ OnWire(r) = [r EXCEPT !.state = n]
             /\ IsReceipt(OnWire(r))
             /\ OnWire(r).state = n
             /\ OnWire(r).control = r.control
             /\ OnWire(r).signature = r.signature
<1>1. PICK n \in 1 .. 6 : r.state = AssuranceState(n)
  BY DEF IssuedInv, IsIssued
<1>2. IsReceipt(r)
  BY DEF IssuedInv, IsIssued
<1> DEFINE w == WireState(r.state)
<1>3. n \in WireStates
  BY DEF WireStates
<1>4. w \in WireStates /\ AssuranceState(w) = r.state
  BY <1>1, <1>3 DEF WireState
<1>5. w \in Nat
  BY <1>4 DEF WireStates
<1>6. w = n
  <2> HIDE DEF w
  <2>1. QED
    BY <1>1, <1>4, <1>5, StateNumbers
<1>7. OnWire(r) = [r EXCEPT !.state = w]
  BY DEF OnWire
<1> HIDE DEF w
<1>8. OnWire(r) = [subject |-> r.subject,
                   control |-> r.control,
                   state |-> n, epoch |-> r.epoch, evidenceRoot |-> r.evidenceRoot,
                   evaluator |-> r.evaluator, evaluatedAt |-> r.evaluatedAt,
                   signature |-> r.signature]
  BY <1>2, <1>6, <1>7 DEF IsReceipt
<1>9. r.control = [namespace |-> r.control.namespace, id |-> r.control.id,
                   version |-> r.control.version]
  BY <1>2 DEF IsReceipt
<1>10. IsReceipt(OnWire(r))
  BY <1>8, <1>9 DEF IsReceipt
<1> QED
  BY <1>1, <1>6, <1>7, <1>8, <1>10

\* What is presented is a receipt with some state number, and its signature is
\* one that was issued or does not decode.
LEMMA PresentedShape ==
    ASSUME IssuedInv, NEW p \in Presented
    PROVE  /\ IsReceipt(p)
           /\ p.state \in Nat
           /\ p.signature = NotHex \/ \E i \in issued : p.signature = i.signature
<1>1. PICK i \in issued :
        LET r == OnWire(i) IN
        \/ p = r \/ p = [r EXCEPT !.signature = NotHex]
        \/ \E n \in Altered : p = [r EXCEPT !.state = n]
        \/ \E c \in Controls : p = [r EXCEPT !.control = c]
        \/ p = [r EXCEPT !.evidenceRoot = NoRoot(Evidence)]
  BY DEF Presented
<1>2. PICK n \in 1 .. 6 : /\ IsReceipt(OnWire(i)) /\ OnWire(i).state = n
                          /\ OnWire(i).signature = i.signature
  BY OnWireShape
<1> DEFINE r == OnWire(i)
<1>3. r = [subject |-> r.subject, control |-> r.control, state |-> r.state,
           epoch |-> r.epoch, evidenceRoot |-> r.evidenceRoot,
           evaluator |-> r.evaluator, evaluatedAt |-> r.evaluatedAt,
           signature |-> r.signature]
  BY <1>2 DEF IsReceipt
<1>4. r.control = [namespace |-> r.control.namespace, id |-> r.control.id,
                   version |-> r.control.version]
  BY <1>2 DEF IsReceipt
<1>5. r.state \in Nat /\ r.signature = i.signature
  BY <1>2
<1>6. \/ p = r \/ p = [r EXCEPT !.signature = NotHex]
      \/ \E m \in Altered : p = [r EXCEPT !.state = m]
      \/ \E c \in Controls : p = [r EXCEPT !.control = c]
      \/ p = [r EXCEPT !.evidenceRoot = NoRoot(Evidence)]
  BY <1>1
<1> HIDE DEF r
<1>7. CASE p = r
  BY <1>2, <1>5, <1>7 DEF r
<1>8. CASE p = [r EXCEPT !.signature = NotHex]
  BY <1>3, <1>4, <1>5, <1>8 DEF IsReceipt
<1>9. ASSUME NEW m \in Altered, p = [r EXCEPT !.state = m]
      PROVE  /\ IsReceipt(p) /\ p.state \in Nat
             /\ p.signature = i.signature
  <2>1. m \in Nat
    BY ExchangeAssumption
  <2>2. QED
    BY <1>3, <1>4, <1>5, <1>9, <2>1 DEF IsReceipt
<1>10. ASSUME NEW c \in Controls, p = [r EXCEPT !.control = c]
       PROVE  /\ IsReceipt(p) /\ p.state \in Nat
              /\ p.signature = i.signature
  <2>1. c = [namespace |-> c.namespace, id |-> c.id, version |-> c.version]
    BY ExchangeAssumption
  <2>2. QED
    BY <1>3, <1>5, <1>10, <2>1 DEF IsReceipt
<1>11. CASE p = [r EXCEPT !.evidenceRoot = NoRoot(Evidence)]
  BY <1>3, <1>4, <1>5, <1>11 DEF IsReceipt
<1> QED
  BY <1>6, <1>7, <1>8, <1>9, <1>10, <1>11

\* The receipt that the receiver verifies: p without the version of the
\* control, and with the state that it makes of the number.
Received(p, state) ==
    [subject |-> p.subject,
     control |-> [namespace |-> p.control.namespace, id |-> p.control.id,
                  version |-> Empty],
     state |-> state, epoch |-> p.epoch, evidenceRoot |-> p.evidenceRoot,
     evaluator |-> p.evaluator, evaluatedAt |-> p.evaluatedAt,
     signature |-> p.signature]

\* What the two conversions from the wire make of a receipt.
LEMMA ReceivedShape ==
    ASSUME NEW p, IsReceipt(p)
    PROVE  /\ ServerReceipt(p) = Received(p, AssuranceState(p.state))
           /\ ClientReceipt(p) = Received(p, mapProtoState(p.state))
           /\ [p EXCEPT !.control.version = Empty] = Received(p, p.state)
<1>1. p = [subject |-> p.subject, control |-> p.control, state |-> p.state,
           epoch |-> p.epoch, evidenceRoot |-> p.evidenceRoot,
           evaluator |-> p.evaluator, evaluatedAt |-> p.evaluatedAt,
           signature |-> p.signature]
  BY DEF IsReceipt
<1>2. p.control = [namespace |-> p.control.namespace, id |-> p.control.id,
                   version |-> p.control.version]
  BY DEF IsReceipt
<1>3. [p.control EXCEPT !.version = Empty]
        = [namespace |-> p.control.namespace, id |-> p.control.id, version |-> Empty]
  BY <1>2
<1> DEFINE c == [p.control EXCEPT !.version = Empty]
<1>4. \A x : [subject |-> p.subject, control |-> c, state |-> x, epoch |-> p.epoch,
              evidenceRoot |-> p.evidenceRoot, evaluator |-> p.evaluator,
              evaluatedAt |-> p.evaluatedAt, signature |-> p.signature]
             = Received(p, x)
  BY <1>3 DEF Received
<1>5. /\ ServerReceipt(p) = [[p EXCEPT !.control = c] EXCEPT !.state = AssuranceState(p.state)]
      /\ ClientReceipt(p) = [[p EXCEPT !.control = c] EXCEPT !.state = mapProtoState(p.state)]
      /\ [p EXCEPT !.control.version = Empty] = [p EXCEPT !.control = c]
  BY <1>1 DEF ServerReceipt, ClientReceipt
<1> HIDE DEF c
<1>6. [p EXCEPT !.control = c]
          = [subject |-> p.subject, control |-> c, state |-> p.state, epoch |-> p.epoch,
             evidenceRoot |-> p.evidenceRoot, evaluator |-> p.evaluator,
             evaluatedAt |-> p.evaluatedAt, signature |-> p.signature]
  BY <1>1
<1>7. ASSUME NEW x, NEW q, q = [p EXCEPT !.control = c]
      PROVE  [q EXCEPT !.state = x]
          = [subject |-> p.subject, control |-> c, state |-> x, epoch |-> p.epoch,
             evidenceRoot |-> p.evidenceRoot, evaluator |-> p.evaluator,
             evaluatedAt |-> p.evaluatedAt, signature |-> p.signature]
  <2>1. q = [subject |-> p.subject, control |-> c, state |-> p.state, epoch |-> p.epoch,
             evidenceRoot |-> p.evidenceRoot, evaluator |-> p.evaluator,
             evaluatedAt |-> p.evaluatedAt, signature |-> p.signature]
    BY <1>6, <1>7, Zenon
  <2>2. QED
    BY <2>1
<1>8. \A x : [[p EXCEPT !.control = c] EXCEPT !.state = x] = Received(p, x)
  BY <1>4, <1>7, Zenon
<1>9. [p EXCEPT !.control = c] = Received(p, p.state)
  BY <1>4, <1>6, Zenon
<1> QED
  BY <1>5, <1>8, <1>9, Zenon

\* The signed bytes give back every field, the control up to its version.
LEMMA BytesAreFields ==
    ASSUME NEW p, NEW x, NEW r, CanonicalBytes(Received(p, x)) = CanonicalBytes(r)
    PROVE  /\ r.control.version = Empty
           /\ p.control.namespace = r.control.namespace /\ p.control.id = r.control.id
           /\ p.subject = r.subject /\ x = r.state /\ p.epoch = r.epoch
           /\ p.evidenceRoot = r.evidenceRoot /\ p.evaluator = r.evaluator
           /\ p.evaluatedAt = r.evaluatedAt
<1> DEFINE q == Received(p, x)
<1>1. /\ q.subject = p.subject /\ q.state = x /\ q.epoch = p.epoch
      /\ q.evidenceRoot = p.evidenceRoot /\ q.evaluator = p.evaluator
      /\ q.evaluatedAt = p.evaluatedAt
      /\ q.control = [namespace |-> p.control.namespace, id |-> p.control.id,
                      version |-> Empty]
  BY DEF Received
<1>2. q.control.version = Empty
  BY <1>1
<1>3. Canonical(q.control) = <<p.control.namespace, p.control.id>>
  BY <1>1 DEF Canonical
<1> HIDE DEF q
<1>4. CanonicalBytes(q) = CanonicalBytes(r)
  BY DEF q
<1>5. /\ q.subject = r.subject /\ Canonical(q.control) = Canonical(r.control)
      /\ q.state = r.state /\ q.epoch = r.epoch /\ q.evidenceRoot = r.evidenceRoot
      /\ q.evaluator = r.evaluator /\ q.evaluatedAt = r.evaluatedAt
  BY <1>4 DEF CanonicalBytes
<1>6. /\ \A a, b, c, d, e : <<a, b>> # <<c, d, e>>
      /\ \A a, b, c, d : <<a, b>> = <<c, d>> => a = c /\ b = d
  OBVIOUS
<1>7. /\ r.control.version = Empty
      /\ p.control.namespace = r.control.namespace /\ p.control.id = r.control.id
  <2>1. CASE r.control.version = Empty
    <3>1. <<p.control.namespace, p.control.id>> = <<r.control.namespace, r.control.id>>
      BY <1>3, <1>5, <2>1 DEF Canonical
    <3>2. QED
      BY <1>6, <2>1, <3>1, Zenon
  <2>2. CASE r.control.version # Empty
    <3>1. <<p.control.namespace, p.control.id>>
            = <<r.control.namespace, r.control.id, r.control.version>>
      BY <1>3, <1>5, <2>2 DEF Canonical
    <3>2. QED
      BY <1>6, <3>1, Zenon
  <2>3. QED
    BY <2>1, <2>2
<1> QED
  BY <1>1, <1>5, <1>7

\* A signature tells its key and the bytes it covers.
LEMMA SignInjective ==
    ASSUME NEW k, NEW l, NEW a, NEW b, Sign(k, a) = Sign(l, b)
    PROVE  k = l /\ a = b
BY DEF Sign

\* The issued receipt r is what lets p be held under d by a process with key.
Vouches(r, p, key, d) ==
    /\ r.signature.key = key
    /\ ReceiptDigest(r) = d
    /\ [OnWire(r) EXCEPT !.control.version = Empty]
         = [p EXCEPT !.control.version = Empty]

\* The reading x of the state of p is a named state only if p has its number.
ReadsState(p, x) == \A n \in 1 .. 6 : x = AssuranceState(n) => p.state = n

\* A presented receipt that verifies was issued with that key and reads as it
\* was issued: no field can change under the signature.
LEMMA VerifiedWasIssued ==
    ASSUME IssuedInv, NEW p \in Presented, NEW x, NEW key, ReadsState(p, x),
           VerifyIndependentReceipt(Received(p, x), key) = "valid"
    PROVE  \E r \in issued : Vouches(r, p, key, ReceiptDigest(Received(p, x)))
<1> DEFINE q == Received(p, x)
<1>1. q.signature = p.signature
  BY DEF Received
<1>2. p.signature # NotHex /\ p.signature = Sign(key, CanonicalBytes(q))
  BY <1>1 DEF VerifyIndependentReceipt
<1>3. PICK r \in issued : p.signature = r.signature
  BY <1>2, PresentedShape
<1>4. IsReceipt(r) /\ r.signature = Sign(r.signature.key, CanonicalBytes(r))
  BY DEF IssuedInv, IsIssued
<1> HIDE DEF q
<1>0. Sign(r.signature.key, CanonicalBytes(r)) = Sign(key, CanonicalBytes(q))
  BY <1>2, <1>3, <1>4, Zenon
<1>6. r.signature.key = key /\ CanonicalBytes(q) = CanonicalBytes(r)
  BY <1>0, SignInjective
<1>7. /\ r.control.version = Empty
      /\ p.control.namespace = r.control.namespace /\ p.control.id = r.control.id
      /\ p.subject = r.subject /\ x = r.state /\ p.epoch = r.epoch
      /\ p.evidenceRoot = r.evidenceRoot /\ p.evaluator = r.evaluator
      /\ p.evaluatedAt = r.evaluatedAt
  BY <1>6, BytesAreFields DEF q
<1>8. PICK n \in 1 .. 6 : r.state = AssuranceState(n) /\ OnWire(r) = [r EXCEPT !.state = n]
                          /\ IsReceipt(OnWire(r)) /\ OnWire(r).state = n
  BY OnWireShape
<1>9. p.state = n
  BY <1>7, <1>8 DEF ReadsState
<1>10. OnWire(r) = [subject |-> r.subject, control |-> r.control, state |-> n,
                    epoch |-> r.epoch, evidenceRoot |-> r.evidenceRoot,
                    evaluator |-> r.evaluator, evaluatedAt |-> r.evaluatedAt,
                    signature |-> r.signature]
  BY <1>4, <1>8 DEF IsReceipt
<1>11. Received(OnWire(r), OnWire(r).state) = Received(p, p.state)
  BY <1>3, <1>7, <1>9, <1>10 DEF Received
<1>12. [OnWire(r) EXCEPT !.control.version = Empty]
         = [p EXCEPT !.control.version = Empty]
  <2>1. IsReceipt(p)
    BY PresentedShape
  <2>2. /\ [p EXCEPT !.control.version = Empty] = Received(p, p.state)
        /\ [OnWire(r) EXCEPT !.control.version = Empty]
             = Received(OnWire(r), OnWire(r).state)
    BY <1>8, <2>1, ReceivedShape, Zenon
  <2>3. QED
    BY <1>11, <2>2, Zenon
<1>13. ReceiptDigest(r) = ReceiptDigest(q)
  BY <1>6 DEF ReceiptDigest
<1>14. Vouches(r, p, key, ReceiptDigest(q))
  BY <1>6, <1>12, <1>13, Zenon DEF Vouches
<1> QED
  BY <1>14 DEF q

\* A receipt whose control has no version and that is presented as issued
\* verifies with the key that signed it, at the server and in the SDK.
LEMMA IssuedVerifies ==
    ASSUME IssuedInv, NEW i \in issued, i.control.version = Empty
    PROVE  LET r == OnWire(i) IN
           /\ VerifyIndependentReceipt(ServerReceipt(r), i.signature.key) = "valid"
           /\ VerifyIndependentReceipt(ClientReceipt(r), i.signature.key) = "valid"
<1> DEFINE r == OnWire(i)
<1>1. PICK n \in 1 .. 6 : /\ i.state = AssuranceState(n) /\ r = [i EXCEPT !.state = n]
                          /\ IsReceipt(r) /\ r.state = n
  BY OnWireShape
<1>2. /\ IsReceipt(i) /\ i.signature = Sign(i.signature.key, CanonicalBytes(i))
      /\ i.signature.key \in Nat \ {BadKey}
  BY DEF IssuedInv, IsIssued
<1>3. mapProtoState(n) = AssuranceState(n)
  BY StateNumbers
<1>4. r = [subject |-> i.subject, control |-> i.control, state |-> n, epoch |-> i.epoch,
           evidenceRoot |-> i.evidenceRoot, evaluator |-> i.evaluator,
           evaluatedAt |-> i.evaluatedAt, signature |-> i.signature]
  BY <1>1, <1>2 DEF IsReceipt
<1> HIDE DEF r
<1>5. Received(r, i.state) = i
  <2>1. /\ r.subject = i.subject /\ r.control = i.control /\ r.epoch = i.epoch
        /\ r.evidenceRoot = i.evidenceRoot /\ r.evaluator = i.evaluator
        /\ r.evaluatedAt = i.evaluatedAt /\ r.signature = i.signature
    BY <1>4
  <2>2. Received(r, i.state) =
          [subject |-> i.subject,
           control |-> [namespace |-> i.control.namespace, id |-> i.control.id,
                        version |-> i.control.version],
           state |-> i.state, epoch |-> i.epoch, evidenceRoot |-> i.evidenceRoot,
           evaluator |-> i.evaluator, evaluatedAt |-> i.evaluatedAt,
           signature |-> i.signature]
    BY <2>1 DEF Received
  <2>3. QED
    BY <1>2, <2>2, Zenon DEF IsReceipt
<1>6. ServerReceipt(r) = i /\ ClientReceipt(r) = i
  <2>1. /\ ServerReceipt(r) = Received(r, AssuranceState(r.state))
        /\ ClientReceipt(r) = Received(r, mapProtoState(r.state))
    BY <1>1, ReceivedShape
  <2>2. AssuranceState(r.state) = i.state /\ mapProtoState(r.state) = i.state
    BY <1>1, <1>3
  <2>3. QED
    BY <1>5, <2>1, <2>2, Zenon
<1>7. i.signature # NotHex
  <2>1. i.signature.key = Sign(i.signature.key, CanonicalBytes(i)).key
    BY <1>2
  <2>2. NotHex.key = -1
    BY DEF NotHex, BadKey
  <2>3. i.signature.key # -1
    BY <1>2
  <2>4. QED
    BY <2>2, <2>3
<1>8. VerifyIndependentReceipt(i, i.signature.key) = "valid"
  BY <1>2, <1>7 DEF VerifyIndependentReceipt
<1> QED
  BY <1>6, <1>8 DEF r

\* Lists: what is one, and what Append and EXCEPT make of one.
LEMMA ListOf ==
    ASSUME NEW t, NEW n \in Nat, t = [i \in 1 .. n |-> t[i]]
    PROVE  IsList(t) /\ Len(t) = n /\ DOMAIN t = 1 .. n
<1> DEFINE S == {t[i] : i \in 1 .. n}
<1>1. t \in [1 .. n -> S]
  OBVIOUS
<1> HIDE DEF S
<1>2. t \in Seq(S) /\ Len(t) = n
  BY <1>1
<1> QED
  BY <1>2 DEF IsList

\* A list with one more at the end: what is where.
LEMMA ListAppend ==
    ASSUME NEW s, IsList(s), NEW x
    PROVE  /\ IsList(Append(s, x))
           /\ DOMAIN s = 1 .. Len(s)
           /\ DOMAIN Append(s, x) = 1 .. (Len(s) + 1)
           /\ \A j \in 1 .. Len(s) : Append(s, x)[j] = s[j]
           /\ Append(s, x)[Len(s) + 1] = x
<1> DEFINE n == Len(s)
           S == {s[i] : i \in 1 .. n} \cup {x}
<1>1. n \in Nat /\ s = [i \in 1 .. n |-> s[i]]
  BY DEF IsList
<1>2. s \in [1 .. n -> S] /\ x \in S
  BY <1>1
<1> HIDE DEF S, n
<1>3. s \in Seq(S)
  BY <1>1, <1>2
<1>4. /\ Append(s, x) \in Seq(S)
      /\ DOMAIN s = 1 .. Len(s)
      /\ DOMAIN Append(s, x) = 1 .. (Len(s) + 1)
      /\ \A j \in 1 .. Len(s) : Append(s, x)[j] = s[j]
      /\ Append(s, x)[Len(s) + 1] = x
  BY <1>2, <1>3, AppendFacts
<1>5. ASSUME NEW t \in Seq(S)
      PROVE  IsList(t)
  BY DEF IsList
<1>6. IsList(Append(s, x))
  BY <1>4, <1>5
<1> QED
  BY <1>4, <1>6

\* A list with one entry replaced: what is where.
LEMMA ListExcept ==
    ASSUME NEW s, IsList(s), NEW i \in DOMAIN s, NEW x, NEW t, t = [s EXCEPT ![i] = x]
    PROVE  /\ IsList(t) /\ DOMAIN t = DOMAIN s
           /\ t[i] = x /\ \A j \in DOMAIN s \ {i} : t[j] = s[j]
<1>1. Len(s) \in Nat /\ s = [j \in 1 .. Len(s) |-> s[j]]
  BY DEF IsList
<1>2. t = [j \in 1 .. Len(s) |-> t[j]]
  BY <1>1
<1>3. IsList(t)
  BY <1>1, <1>2, ListOf
<1> QED
  BY <1>1, <1>3

\* What can be presented grows with what was issued.
LEMMA PresentedGrows ==
    ASSUME issued \subseteq issued'
    PROVE  Presented \subseteq Presented'
BY DEF Presented

\* A call stays well when more is presented, generated and held.
LEMMA CallGrows ==
    ASSUME NEW c, NEW P, NEW Q, NEW n \in Nat, NEW m \in Nat, NEW k, NEW D, NEW E,
           CallOK(c, P, n, k, D), P \subseteq Q, n <= m, D \subseteq E
    PROVE  CallOK(c, Q, m, k, E)
<1>1. c.key \in 1 .. m - 1
  BY DEF CallOK
<1> QED
  BY <1>1 DEF CallOK

\* A call to a server that stopped stays well, for any key generated later.
LEMMA CallBroken ==
    ASSUME NEW c, NEW P, NEW n \in Nat, NEW k, NEW D, NEW E, CallOK(c, P, n, k, D)
    PROVE  CallOK(BrokenCall(c), P, n + 1, n, E)
<1>1. IsCall(c)
  BY DEF CallOK
<1> DEFINE no == FALSE
           client == IF c.client = Waiting THEN Error ELSE c.client
           b == BrokenCall(c)
<1>2. client = <<"verified">> => c.client = <<"verified">>
  <2>1. Error # <<"verified">>
    BY DEF Error
  <2>2. QED
    BY <2>1
<1>3. b = [[c EXCEPT !.requested = no] EXCEPT !.client = client]
  BY <1>1 DEF IsCall, BrokenCall
<1> HIDE DEF client, no, b
<1>4. b = [kind |-> c.kind, receipts |-> c.receipts, requested |-> no,
           answer |-> c.answer, key |-> c.key, client |-> client]
  <2> DEFINE q == [c EXCEPT !.requested = no]
  <2>1. q = [kind |-> c.kind, receipts |-> c.receipts, requested |-> no,
             answer |-> c.answer, key |-> c.key, client |-> c.client]
    BY <1>1 DEF IsCall
  <2>2. b = [q EXCEPT !.client = client]
    BY <1>3
  <2> HIDE DEF q
  <2>3. QED
    BY <2>1, <2>2
<1>5. /\ b.kind = c.kind /\ b.receipts = c.receipts /\ b.requested = no
      /\ b.answer = c.answer /\ b.key = c.key /\ b.client = client
  BY <1>4
<1>8. IsCall(b)
  BY <1>4, <1>5, Zenon DEF IsCall
<1>6. c.key \in 1 .. n - 1
  BY DEF CallOK
<1>7. b.key \in 1 .. (n + 1) - 1 /\ b.key # n
  BY <1>5, <1>6
<1>9. CallOK(b, P, n + 1, n, E)
  BY <1>2, <1>5, <1>7, <1>8 DEF CallOK, no
<1> QED
  BY <1>9 DEF b

\* An answered call, and one whose caller has got something.
AnsweredCall(c, x) == [c EXCEPT !.requested = FALSE, !.answer = x]
ToldCall(c, x) == [c EXCEPT !.client = x]

\* An answer, and what the client makes of it, change one thing of a call.
LEMMA CallFields ==
    ASSUME NEW c, IsCall(c), NEW x
    PROVE  /\ IsCall(AnsweredCall(c, x)) /\ AnsweredCall(c, x).kind = c.kind
           /\ AnsweredCall(c, x).receipts = c.receipts /\ ~AnsweredCall(c, x).requested
           /\ AnsweredCall(c, x).answer = x /\ AnsweredCall(c, x).key = c.key
           /\ AnsweredCall(c, x).client = c.client
           /\ IsCall(ToldCall(c, x)) /\ ToldCall(c, x).kind = c.kind
           /\ ToldCall(c, x).receipts = c.receipts /\ ToldCall(c, x).requested = c.requested
           /\ ToldCall(c, x).answer = c.answer /\ ToldCall(c, x).key = c.key
           /\ ToldCall(c, x).client = x
<1> DEFINE no == FALSE
           o == [c EXCEPT !.requested = no]
           q == [o EXCEPT !.answer = x]
           w == [c EXCEPT !.client = x]
<1>1. q = AnsweredCall(c, x) /\ w = ToldCall(c, x)
  BY DEF IsCall, AnsweredCall, ToldCall
<1> HIDE DEF no
<1>2. o = [kind |-> c.kind, receipts |-> c.receipts, requested |-> no,
           answer |-> c.answer, key |-> c.key, client |-> c.client]
  BY DEF IsCall
<1>3. w = [kind |-> c.kind, receipts |-> c.receipts, requested |-> c.requested,
           answer |-> c.answer, key |-> c.key, client |-> x]
  BY DEF IsCall
<1> HIDE DEF o
<1>4. q = [kind |-> c.kind, receipts |-> c.receipts, requested |-> no,
           answer |-> x, key |-> c.key, client |-> c.client]
  BY <1>2
<1> HIDE DEF q, w
<1>5. /\ q.kind = c.kind /\ q.receipts = c.receipts /\ q.requested = no
      /\ q.answer = x /\ q.key = c.key /\ q.client = c.client
  BY <1>4
<1>6. /\ w.kind = c.kind /\ w.receipts = c.receipts /\ w.requested = c.requested
      /\ w.answer = c.answer /\ w.key = c.key /\ w.client = x
  BY <1>3
<1>7. IsCall(q)
  BY <1>4, <1>5, Zenon DEF IsCall
<1>8. IsCall(w)
  BY <1>3, <1>6, Zenon DEF IsCall
<1>9. ~q.requested
  BY <1>5 DEF no
<1> QED
  BY <1>1, <1>5, <1>6, <1>7, <1>8, <1>9, Zenon

\* One call changes, and the server holds no less than before.
LEMMA CallStep ==
    ASSUME KeysInv, CallsInv, NEW i \in DOMAIN calls, NEW q,
           calls' = [calls EXCEPT ![i] = q],
           CallOK(q, Presented, nextKey, serverKey, DOMAIN serverReceipts'),
           Presented' = Presented, UNCHANGED <<nextKey, serverKey>>,
           DOMAIN serverReceipts \subseteq DOMAIN serverReceipts'
    PROVE  CallsInv'
<1>1. IsList(calls) /\ nextKey \in Nat
  BY DEF CallsInv, KeysInv
<1>2. /\ IsList(calls') /\ DOMAIN calls' = DOMAIN calls
      /\ calls'[i] = q /\ \A j \in DOMAIN calls \ {i} : calls'[j] = calls[j]
  BY <1>1, ListExcept
<1>3. \A j \in DOMAIN calls :
         CallOK(calls[j], Presented, nextKey, serverKey, DOMAIN serverReceipts')
  <2> TAKE j \in DOMAIN calls
  <2>1. CallOK(calls[j], Presented, nextKey, serverKey, DOMAIN serverReceipts)
    BY DEF CallsInv
  <2>2. nextKey <= nextKey /\ Presented \subseteq Presented
    BY <1>1
  <2>3. QED
    BY <1>1, <2>1, <2>2, CallGrows
<1> QED
  BY <1>2, <1>3 DEF CallsInv

\* No call changes; more was issued or generated.
LEMMA CallsStay ==
    ASSUME KeysInv, CallsInv, UNCHANGED <<calls, serverKey>>,
           DOMAIN serverReceipts' = DOMAIN serverReceipts,
           issued \subseteq issued', nextKey' \in Nat, nextKey <= nextKey'
    PROVE  CallsInv'
<1>1. Presented \subseteq Presented' /\ nextKey \in Nat
  BY PresentedGrows DEF KeysInv
<1>2. \A j \in DOMAIN calls :
         CallOK(calls[j], Presented', nextKey', serverKey, DOMAIN serverReceipts)
  BY <1>1, CallGrows DEF CallsInv
<1> QED
  BY <1>2 DEF CallsInv

\* Every call broke, and the server's next life has a new key.
LEMMA CallsBreak ==
    ASSUME KeysInv, CallsInv, calls' = Broken, UNCHANGED issued,
           serverKey' = nextKey, nextKey' = nextKey + 1
    PROVE  CallsInv'
<1>1. IsList(calls) /\ nextKey \in Nat
  BY DEF CallsInv, KeysInv
<1>2. Presented' = Presented
  BY DEF Presented
<1>3. /\ DOMAIN calls' = DOMAIN calls
      /\ calls' = [j \in 1 .. Len(calls) |-> calls'[j]] /\ Len(calls) \in Nat
  BY <1>1 DEF Broken, IsList
<1>4. IsList(calls')
  BY <1>3, ListOf
<1>5. \A j \in DOMAIN calls :
        CallOK(calls'[j], Presented, nextKey + 1, nextKey, DOMAIN serverReceipts')
  <2> TAKE j \in DOMAIN calls
  <2>1. calls'[j] = BrokenCall(calls[j])
    BY DEF Broken
  <2>2. CallOK(calls[j], Presented, nextKey, serverKey, DOMAIN serverReceipts)
    BY DEF CallsInv
  <2>3. QED
    BY <1>1, <2>1, <2>2, CallBroken
<1> QED
  BY <1>2, <1>3, <1>4, <1>5 DEF CallsInv

\* IssueReceipt signs the bytes of the receipt it returns, for any manager
\* whose key decodes.
LEMMA IssueSigns ==
    ASSUME NEW m, m.key \in Nat \ {BadKey}, NEW s, NEW c \in Controls, NEW n \in 1 .. 6,
           NEW epoch, NEW root, NEW t
    PROVE  IsIssued(IssueReceipt(m, s, c, AssuranceState(n), epoch, root, t))
<1> DEFINE r == IssueReceipt(m, s, c, AssuranceState(n), epoch, root, t)
           o == [subject |-> s, control |-> c, state |-> AssuranceState(n),
                 epoch |-> epoch, evidenceRoot |-> root, evaluator |-> m.evaluator,
                 evaluatedAt |-> t, signature |-> Unsigned]
           g == Sign(m.key, CanonicalBytes(o))
<1>1. c = [namespace |-> c.namespace, id |-> c.id, version |-> c.version]
  BY ExchangeAssumption
<1>2. r = [o EXCEPT !.signature = g]
  BY DEF IssueReceipt
<1> HIDE DEF g
<1>3. r = [subject |-> s, control |-> c, state |-> AssuranceState(n), epoch |-> epoch,
           evidenceRoot |-> root, evaluator |-> m.evaluator, evaluatedAt |-> t,
           signature |-> g]
  BY <1>2
<1>4. /\ o.subject = s /\ o.control = c /\ o.state = AssuranceState(n) /\ o.epoch = epoch
      /\ o.evidenceRoot = root /\ o.evaluator = m.evaluator /\ o.evaluatedAt = t
  OBVIOUS
<1> HIDE DEF o, r
<1>5. /\ r.subject = s /\ r.control = c /\ r.state = AssuranceState(n) /\ r.epoch = epoch
      /\ r.evidenceRoot = root /\ r.evaluator = m.evaluator /\ r.evaluatedAt = t
      /\ r.signature = g
  BY <1>3
<1>6. CanonicalBytes(r) = CanonicalBytes(o)
  BY <1>4, <1>5 DEF CanonicalBytes
<1>7. g.key = m.key
  BY DEF g, Sign
<1>8. IsReceipt(r)
  BY <1>1, <1>3, <1>5, Zenon DEF IsReceipt
<1>9. r.signature = Sign(r.signature.key, CanonicalBytes(r))
  BY <1>5, <1>6, <1>7 DEF g
<1>10. r.signature.key \in Nat \ {BadKey}
  BY <1>5, <1>7
<1>11. IsIssued(r)
  BY <1>5, <1>8, <1>9, <1>10 DEF IsIssued
<1> QED
  BY <1>11 DEF r

\* So does SignReceipt, which fills in the evaluator and the time first.
LEMMA SignSigns ==
    ASSUME NEW m, m.key \in Nat \ {BadKey}, NEW s, NEW c \in Controls, NEW n \in 1 .. 6,
           NEW epoch, NEW root
    PROVE  IsIssued(SignReceipt(m,
             [subject |-> s, control |-> c, state |-> AssuranceState(n), epoch |-> epoch,
              evidenceRoot |-> root, evaluator |-> Empty, evaluatedAt |-> 0,
              signature |-> Unsigned], 1))
<1> DEFINE blank == [subject |-> s, control |-> c, state |-> AssuranceState(n),
                     epoch |-> epoch, evidenceRoot |-> root, evaluator |-> Empty,
                     evaluatedAt |-> 0, signature |-> Unsigned]
           o == [blank EXCEPT
                   !.evaluator = IF blank.evaluator = Empty THEN m.evaluator ELSE @,
                   !.evaluatedAt = IF blank.evaluatedAt = 0 THEN 1 ELSE @]
           full == [subject |-> s, control |-> c, state |-> AssuranceState(n),
                    epoch |-> epoch, evidenceRoot |-> root, evaluator |-> m.evaluator,
                    evaluatedAt |-> 1, signature |-> Unsigned]
<1>1. SignReceipt(m, blank, 1)
        = [o EXCEPT !.signature = Sign(m.key, CanonicalBytes(o))]
  BY DEF SignReceipt
<1>2. o = full
  <2>1. /\ blank.evaluator = Empty /\ blank.evaluatedAt = 0
        /\ DOMAIN blank = DOMAIN full
    OBVIOUS
  <2>2. /\ (IF blank.evaluator = Empty THEN m.evaluator ELSE blank.evaluator) = m.evaluator
        /\ (IF blank.evaluatedAt = 0 THEN 1 ELSE blank.evaluatedAt) = 1
    BY <2>1
  <2> DEFINE v == [blank EXCEPT !.evaluator = m.evaluator]
  <2>3. v = [subject |-> s, control |-> c, state |-> AssuranceState(n), epoch |-> epoch,
             evidenceRoot |-> root, evaluator |-> m.evaluator, evaluatedAt |-> 0,
             signature |-> Unsigned]
    OBVIOUS
  <2>4. o = [v EXCEPT !.evaluatedAt = 1]
    BY <2>1, <2>2
  <2> HIDE DEF v, o
  <2>5. QED
    BY <2>3, <2>4
<1>3. IssueReceipt(m, s, c, AssuranceState(n), epoch, root, 1)
        = [full EXCEPT !.signature = Sign(m.key, CanonicalBytes(full))]
  <2>1. CanonicalBytes(full) = CanonicalBytes(
          [subject |-> s, control |-> c, state |-> AssuranceState(n), epoch |-> epoch,
           evidenceRoot |-> root, evaluator |-> m.evaluator, evaluatedAt |-> 1,
           signature |-> Unsigned])
    OBVIOUS
  <2>2. QED
    BY Zenon DEF IssueReceipt
<1> HIDE DEF blank, o, full
<1>4. SignReceipt(m, blank, 1) = IssueReceipt(m, s, c, AssuranceState(n), epoch, root, 1)
  BY <1>1, <1>2, <1>3, Zenon
<1>5. IsIssued(SignReceipt(m, blank, 1))
  BY <1>4, IssueSigns, Zenon
<1> USE DEF blank
<1> QED
  BY <1>5

\* HoldsIssued with the issued receipts as a parameter.
Holds(I, m, key) == \A d \in DOMAIN m : \E r \in I : Vouches(r, m[d], key, d)

\* Client and server each hold receipts that were issued under their key.
LEMMA HoldsParts ==
    AcceptedWasIssued <=> /\ Holds(issued, clientReceipts, managerKey)
                          /\ Holds(issued, serverReceipts, serverKey)
BY DEF AcceptedWasIssued, HoldsIssued, Holds, Vouches

\* Receipts that are issued later take nothing away.
LEMMA HoldsGrows ==
    ASSUME NEW I, NEW J, NEW m, NEW key, Holds(I, m, key), I \subseteq J
    PROVE  Holds(J, m, key)
BY DEF Holds

\* An empty store holds nothing that was not issued.
LEMMA HoldsNothing == ASSUME NEW I, NEW key PROVE Holds(I, <<>>, key)
<1>1. DOMAIN <<>> = {}
  OBVIOUS
<1> QED
  BY <1>1, Zenon DEF Holds

\* A verified receipt is added under its digest, and only a verified one.
LEMMA HoldsStore ==
    ASSUME IssuedInv, NEW m, NEW key, Holds(issued, m, key), NEW p \in Presented, NEW x,
           ReadsState(p, x), VerifyIndependentReceipt(Received(p, x), key) = "valid"
    PROVE  Holds(issued, Store(m, ReceiptDigest(Received(p, x)), p), key)
<1> DEFINE d == ReceiptDigest(Received(p, x))
           s == Store(m, d, p)
<1>1. \E r \in issued : Vouches(r, p, key, d)
  BY VerifiedWasIssued
<1> HIDE DEF d
<1>2. /\ DOMAIN s = DOMAIN m \cup {d} /\ s[d] = p
      /\ \A e \in DOMAIN m : e # d => s[e] = m[e]
  BY DEF Store
<1> HIDE DEF s
<1>3. Holds(issued, s, key)
  BY <1>1, <1>2 DEF Holds
<1> QED
  BY <1>3 DEF s, d

\* The number of a presented receipt's state is the one that was signed, in
\* the server's and in the SDK's reading of it.
LEMMA PresentedState ==
    ASSUME IssuedInv, NEW p \in Presented
    PROVE  /\ ReadsState(p, AssuranceState(p.state))
           /\ ReadsState(p, mapProtoState(p.state))
<1>1. p.state \in Nat
  BY PresentedShape
<1> QED
  BY <1>1, StateNumbers DEF ReadsState

\* The maps are well when each holds what was issued with its process's key.
LEMMA HoldsNext ==
    ASSUME Holds(issued', clientReceipts', managerKey'),
           Holds(issued', serverReceipts', serverKey')
    PROVE  AcceptedWasIssued'
BY DEF AcceptedWasIssued, HoldsIssued, Holds, Vouches

\* Nothing was issued, called or accepted at the start.
LEMMA InitExchangeInv == ExchangeInit => ExchangeInv
<1> SUFFICES ASSUME ExchangeInit
             PROVE  ExchangeInv
  OBVIOUS
<1>1. IssuedInv
  BY DEF ExchangeInit, IssuedInv
<1>2. KeysInv
  BY DEF ExchangeInit, KeysInv
<1>3. CallsInv
  <2>1. Len(<<>>) = 0 /\ DOMAIN <<>> = {} /\ <<>> = [i \in 1 .. 0 |-> <<>>[i]]
    OBVIOUS
  <2>2. IsList(calls)
    BY <2>1 DEF ExchangeInit, IsList
  <2>3. DOMAIN calls = {}
    BY <2>1 DEF ExchangeInit
  <2>4. QED
    BY <2>2, <2>3 DEF CallsInv
<1>4. AcceptedWasIssued
  <2>1. clientReceipts = <<>> /\ serverReceipts = <<>>
    BY DEF ExchangeInit
  <2>2. QED
    BY <2>1, HoldsNothing, HoldsParts
<1> QED
  BY <1>1, <1>2, <1>3, <1>4 DEF ExchangeInv

\* A well-signed receipt joins the issued ones; nothing else changes.
LEMMA IssuedGrows ==
    ASSUME ExchangeInv, NEW r, IsIssued(r), issued' = issued \cup {r},
           UNCHANGED <<keys, receipts, observations, calls>>
    PROVE  ExchangeInv'
<1>1. UNCHANGED <<managerKey, serverKey, nextKey, clientReceipts, serverReceipts, calls>>
  BY DEF keys, receipts
<1>2. IssuedInv'
  BY DEF ExchangeInv, IssuedInv
<1>3. KeysInv'
  BY <1>1 DEF ExchangeInv, KeysInv
<1>4. issued \subseteq issued'
  OBVIOUS
<1>5. CallsInv'
  <2>1. nextKey' \in Nat /\ nextKey <= nextKey'
    BY <1>1 DEF ExchangeInv, KeysInv
  <2>2. QED
    BY <1>1, <1>4, <2>1, CallsStay DEF ExchangeInv
<1>6. AcceptedWasIssued'
  <2>1. /\ Holds(issued', clientReceipts, managerKey)
        /\ Holds(issued', serverReceipts, serverKey)
    BY <1>4, HoldsParts, HoldsGrows DEF ExchangeInv
  <2>2. QED
    BY <1>1, <2>1, HoldsNext
<1> QED
  BY <1>2, <1>3, <1>5, <1>6 DEF ExchangeInv

\* What was issued and the keys stay, so do the lemmas about them.
LEMMA ExchangeStays ==
    ASSUME ExchangeInv, UNCHANGED <<keys, issued>>
    PROVE  IssuedInv' /\ KeysInv' /\ Presented' = Presented
BY DEF ExchangeInv, IssuedInv, KeysInv, Presented, keys

\* Both ways to have a receipt signed.
LEMMA SigningInv ==
    ASSUME ExchangeInv, NEW s \in Subjects, NEW c \in Controls, NEW n \in Outcomes,
           (\E d \in Evidence : Issue(s, c, n, <<d>>)) \/ HaveSigned(s, c, n)
    PROVE  ExchangeInv'
<1>1. Manager.key \in Nat \ {BadKey}
  BY DEF ExchangeInv, KeysInv, Manager, BadKey
<1>2. n \in 1 .. 6
  BY ExchangeAssumption
<1>3. ASSUME NEW d \in Evidence, Issue(s, c, n, <<d>>)
      PROVE  ExchangeInv'
  <2> DEFINE r == IssueReceipt(Manager, s, c, AssuranceState(n), "epoch",
                               ComputeEvidenceRoot(<<d>>, Evidence), 1)
  <2>1. issued' = issued \cup {r} /\ UNCHANGED <<keys, receipts, observations, calls>>
    BY <1>3 DEF Issue
  <2>2. IsIssued(r)
    BY <1>1, <1>2, IssueSigns
  <2> HIDE DEF r
  <2>3. QED
    BY <2>1, <2>2, IssuedGrows
<1>4. ASSUME HaveSigned(s, c, n)
      PROVE  ExchangeInv'
  <2> DEFINE r == SignReceipt(Manager,
        [subject |-> s, control |-> c, state |-> AssuranceState(n),
         epoch |-> "epoch", evidenceRoot |-> ComputeEvidenceRoot(<<>>, Evidence),
         evaluator |-> Empty, evaluatedAt |-> 0, signature |-> Unsigned], 1)
  <2>1. issued' = issued \cup {r} /\ UNCHANGED <<keys, receipts, observations, calls>>
    BY <1>4 DEF HaveSigned
  <2>2. IsIssued(r)
    BY <1>1, <1>2, SignSigns
  <2> HIDE DEF r
  <2>3. QED
    BY <2>1, <2>2, IssuedGrows
<1> QED
  BY <1>3, <1>4

\* The in-process client keeps what it verified with the program's key.
LEMMA SubmitLocallyInv ==
    ASSUME ExchangeInv, NEW p \in Presented, SubmitLocally(p)
    PROVE  ExchangeInv'
<1> DEFINE core == ClientReceipt(p)
           x == mapProtoState(p.state)
<1>1. /\ clientReceipts' = IF VerifyIndependentReceipt(core, managerKey) = "valid"
                           THEN Store(clientReceipts, ReceiptDigest(core), p)
                           ELSE clientReceipts
      /\ UNCHANGED <<keys, issued, serverReceipts, observations, calls>>
  BY DEF SubmitLocally
<1>2. UNCHANGED <<managerKey, serverKey, nextKey>>
  BY <1>1 DEF keys
<1>3. IssuedInv /\ KeysInv /\ CallsInv
  BY DEF ExchangeInv
<1>4. core = Received(p, x) /\ ReadsState(p, x)
  BY <1>3, PresentedShape, ReceivedShape, PresentedState
<1>5. /\ Holds(issued, clientReceipts, managerKey)
      /\ Holds(issued, serverReceipts, serverKey)
  BY HoldsParts DEF ExchangeInv
<1> HIDE DEF core, x
<1>6. Holds(issued, clientReceipts', managerKey)
  <2>1. CASE VerifyIndependentReceipt(core, managerKey) = "valid"
    <3>1. Holds(issued, Store(clientReceipts, ReceiptDigest(Received(p, x)), p), managerKey)
      BY <1>3, <1>4, <1>5, <2>1, HoldsStore
    <3>2. QED
      BY <1>1, <1>4, <2>1, <3>1, Zenon
  <2>2. CASE VerifyIndependentReceipt(core, managerKey) # "valid"
    BY <1>1, <1>5, <2>2, Zenon
  <2>3. QED
    BY <2>1, <2>2
<1>7. AcceptedWasIssued'
  BY <1>1, <1>2, <1>5, <1>6, HoldsNext
<1>8. CallsInv'
  <2>1. nextKey' \in Nat /\ nextKey <= nextKey'
    BY <1>2, <1>3 DEF KeysInv
  <2>2. QED
    BY <1>1, <1>2, <1>3, <2>1, CallsStay
<1> QED
  BY <1>1, <1>7, <1>8, ExchangeStays DEF ExchangeInv

\* The maps of receipts stay, so they are well.
LEMMA AcceptedStays ==
    ASSUME ExchangeInv, UNCHANGED <<keys, issued, receipts>>
    PROVE  AcceptedWasIssued'
<1>1. UNCHANGED <<managerKey, serverKey, clientReceipts, serverReceipts>>
  BY DEF keys, receipts
<1> QED
  BY <1>1, HoldsParts, HoldsNext DEF ExchangeInv

\* A call is made, with at most one receipt.
LEMMA CallMade ==
    ASSUME ExchangeInv, NEW kind, NEW R, R \subseteq Presented, R # {} => kind = "receipt",
           \A r, s \in R : r = s, Call(kind, R)
    PROVE  ExchangeInv'
<1> DEFINE yes == TRUE
           q == [kind |-> kind, receipts |-> R, requested |-> yes, answer |-> <<>>,
                 key |-> serverKey, client |-> Waiting]
<1>1. calls' = Append(calls, q) /\ UNCHANGED <<keys, issued, receipts, observations>>
  BY DEF Call
<1>2. UNCHANGED <<managerKey, serverKey, nextKey, serverReceipts>>
  BY <1>1 DEF keys, receipts
<1> HIDE DEF yes
<1>3. /\ q.kind = kind /\ q.receipts = R /\ q.requested = yes /\ q.answer = <<>>
      /\ q.key = serverKey /\ q.client = Waiting
  OBVIOUS
<1>4. IsCall(q)
  BY <1>3, Zenon DEF IsCall
<1> HIDE DEF q
<1>5. Waiting # <<"verified">> /\ <<>> # <<"verified">> /\ <<>> # <<"refused">>
  BY DEF Waiting
<1>6. serverKey \in 1 .. nextKey - 1
  BY DEF ExchangeInv, KeysInv
<1>7. CallOK(q, Presented, nextKey, serverKey, DOMAIN serverReceipts)
  BY <1>3, <1>4, <1>5, <1>6, Zenon DEF CallOK
<1>8. CallsInv'
  <2>1. IsList(calls)
    BY DEF ExchangeInv, CallsInv
  <2> DEFINE n == Len(calls)
  <2>2. /\ IsList(calls') /\ DOMAIN calls = 1 .. n /\ DOMAIN calls' = 1 .. (n + 1)
        /\ \A j \in 1 .. n : calls'[j] = calls[j]
        /\ calls'[n + 1] = q
    BY <1>1, <2>1, ListAppend
  <2>3. n \in Nat
    BY <2>1 DEF IsList
  <2> HIDE DEF n
  <2>4. 1 .. (n + 1) = (1 .. n) \cup {n + 1}
    BY <2>3
  <2>5. \A j \in DOMAIN calls' :
          CallOK(calls'[j], Presented, nextKey, serverKey, DOMAIN serverReceipts)
    BY <1>7, <2>2, <2>4 DEF ExchangeInv, CallsInv
  <2>6. QED
    BY <1>1, <1>2, <2>2, <2>5, ExchangeStays DEF CallsInv
<1> QED
  BY <1>1, <1>8, ExchangeStays, AcceptedStays DEF ExchangeInv

\* The server keeps a receipt exactly when it says that it verified it.
LEMMA HandleReceiptInv ==
    ASSUME ExchangeInv, NEW i \in DOMAIN calls, HandleSubmitReceipt(i)
    PROVE  ExchangeInv'
<1> DEFINE c == calls[i]
<1>1. PICK p \in c.receipts :
        LET core == ServerReceipt(p)
            verified == VerifyIndependentReceipt(core, serverKey) = "valid"
        IN /\ calls' = [calls EXCEPT
                ![i].requested = FALSE,
                ![i].answer = IF verified THEN <<"verified">> ELSE <<"refused">>]
           /\ serverReceipts' = Kept(verified, core, p)
  BY DEF HandleSubmitReceipt
<1>2. c.requested /\ UNCHANGED <<keys, issued, clientReceipts, observations>>
  BY DEF HandleSubmitReceipt
<1>3. UNCHANGED <<managerKey, serverKey, nextKey>>
  BY <1>2 DEF keys
<1>4. /\ IssuedInv /\ KeysInv /\ CallsInv
      /\ CallOK(c, Presented, nextKey, serverKey, DOMAIN serverReceipts)
  BY DEF ExchangeInv, CallsInv
<1> DEFINE core == ServerReceipt(p)
           x == AssuranceState(p.state)
           verified == VerifyIndependentReceipt(core, serverKey) = "valid"
           answer == IF verified THEN <<"verified">> ELSE <<"refused">>
           q == AnsweredCall(c, answer)
<1>5. IsCall(c) /\ p \in Presented /\ c.key = serverKey
  BY <1>2, <1>4 DEF CallOK
<1>6. calls' = [calls EXCEPT ![i] = q]
  <2> HIDE DEF answer
  <2>1. calls' = [calls EXCEPT ![i].requested = FALSE, ![i].answer = answer]
    BY <1>1 DEF answer
  <2>2. IsList(calls)
    BY <1>4 DEF CallsInv
  <2>3. QED
    BY <1>5, <2>1, <2>2 DEF IsCall, IsList, AnsweredCall
<1>7. serverReceipts' = IF verified THEN Store(serverReceipts, ReceiptDigest(core), p)
                        ELSE serverReceipts
  BY <1>1 DEF Kept
<1> HIDE DEF answer
<1>8. /\ IsCall(q) /\ q.kind = c.kind /\ q.receipts = c.receipts /\ ~q.requested
      /\ q.answer = answer /\ q.key = c.key /\ q.client = c.client
  BY <1>5, CallFields
<1>9. core = Received(p, x) /\ ReadsState(p, x)
  BY <1>4, <1>5, PresentedShape, ReceivedShape, PresentedState
<1> HIDE DEF q, core, x
<1>10. /\ DOMAIN serverReceipts \subseteq DOMAIN serverReceipts'
       /\ verified => ReceiptDigest(core) \in DOMAIN serverReceipts'
  BY <1>7 DEF Store
<1>11. /\ answer \in {<<"verified">>, <<"refused">>}
       /\ answer = <<"refused">> => ~verified
       /\ answer = <<"verified">> => verified
       /\ answer # <<>>
  BY DEF answer
<1>12. c.client # <<"verified">>
  <2>1. c.answer = <<>>
    BY <1>2, <1>4 DEF CallOK
  <2>2. c.client = <<"verified">> => c.answer = <<"verified">>
    BY <1>4 DEF CallOK
  <2>3. <<>> # <<"verified">>
    OBVIOUS
  <2>4. QED
    BY <2>1, <2>2, <2>3
<1>13. CallOK(q, Presented, nextKey, serverKey, DOMAIN serverReceipts')
  <2>1. \A r \in c.receipts : r = p
    BY <1>4 DEF CallOK
  <2>2. \A r \in q.receipts :
          /\ q.answer \in {<<>>, <<"verified">>, <<"refused">>}
          /\ q.answer = <<"refused">>
               => VerifyIndependentReceipt(ServerReceipt(r), q.key) # "valid"
          /\ q.answer = <<"verified">> /\ q.key = serverKey
               => ReceiptDigest(ServerReceipt(r)) \in DOMAIN serverReceipts'
          /\ q.client = <<"verified">> => q.answer = <<"verified">>
    <3> TAKE r \in q.receipts
    <3>1. ServerReceipt(r) = core
      BY <1>8, <2>1 DEF core
    <3>2. QED
      BY <1>5, <1>8, <1>10, <1>11, <1>12, <3>1, Zenon
  <2>3. QED
    BY <1>4, <1>8, <2>2, Zenon DEF CallOK
<1>14. CallsInv'
  <2>1. Presented' = Presented
    BY <1>2, ExchangeStays
  <2>2. QED
    BY <1>3, <1>4, <1>6, <1>10, <1>13, <2>1, CallStep
<1>15. /\ Holds(issued, clientReceipts, managerKey)
       /\ Holds(issued, serverReceipts, serverKey)
  BY HoldsParts DEF ExchangeInv
<1>16. Holds(issued, serverReceipts', serverKey)
  <2>1. CASE verified
    <3>1. Holds(issued, Store(serverReceipts, ReceiptDigest(Received(p, x)), p), serverKey)
      BY <1>4, <1>5, <1>9, <1>15, <2>1, HoldsStore
    <3>2. QED
      BY <1>7, <1>9, <2>1, <3>1, Zenon
  <2>2. CASE ~verified
    BY <1>7, <1>15, <2>2, Zenon
  <2>3. QED
    BY <2>1, <2>2
<1>17. AcceptedWasIssued'
  BY <1>2, <1>3, <1>15, <1>16, HoldsNext
<1> QED
  BY <1>2, <1>14, <1>17, ExchangeStays DEF ExchangeInv

\* A call changes into a call that is well, and the maps stay.
LEMMA CallChanges ==
    ASSUME ExchangeInv, NEW i \in DOMAIN calls, NEW q, calls' = [calls EXCEPT ![i] = q],
           CallOK(q, Presented, nextKey, serverKey, DOMAIN serverReceipts),
           UNCHANGED <<keys, issued, receipts>>
    PROVE  ExchangeInv'
<1>1. UNCHANGED <<serverKey, nextKey, serverReceipts>>
  BY DEF keys, receipts
<1>2. IssuedInv' /\ KeysInv' /\ AcceptedWasIssued' /\ Presented' = Presented
  BY ExchangeStays, AcceptedStays
<1>3. CallsInv'
  BY <1>1, <1>2, CallStep DEF ExchangeInv
<1> QED
  BY <1>2, <1>3 DEF ExchangeInv

\* A query carries no receipt, so its answer says nothing about one.
LEMMA HandleQueryInv ==
    ASSUME ExchangeInv, NEW i \in DOMAIN calls, NEW n, HandleQuery(i, n)
    PROVE  ExchangeInv'
<1> DEFINE c == calls[i]
           answer == <<n>>
           q == AnsweredCall(c, answer)
<1>1. CallOK(c, Presented, nextKey, serverKey, DOMAIN serverReceipts) /\ IsList(calls)
  BY DEF ExchangeInv, CallsInv
<1>2. IsCall(c) /\ c.receipts = {}
  BY <1>1 DEF CallOK, HandleQuery
<1>3. calls' = [calls EXCEPT ![i] = q]
  <2> HIDE DEF answer
  <2>1. calls' = [calls EXCEPT ![i].requested = FALSE, ![i].answer = answer]
    BY DEF HandleQuery, answer
  <2>2. QED
    BY <1>1, <1>2, <2>1 DEF IsCall, IsList, AnsweredCall
<1> HIDE DEF answer
<1>4. /\ IsCall(q) /\ q.kind = c.kind /\ q.receipts = c.receipts /\ ~q.requested
      /\ q.answer = answer /\ q.key = c.key /\ q.client = c.client
  BY <1>2, CallFields
<1> HIDE DEF q
<1>5. CallOK(q, Presented, nextKey, serverKey, DOMAIN serverReceipts)
  BY <1>1, <1>2, <1>4 DEF CallOK
<1>6. UNCHANGED <<keys, issued, receipts>>
  BY DEF HandleQuery
<1> QED
  BY <1>3, <1>5, <1>6, CallChanges

\* A caller gets the server's answer, or an error.
LEMMA CallEndsInv ==
    ASSUME ExchangeInv, NEW i \in DOMAIN calls, Receive(i) \/ Expire(i)
    PROVE  ExchangeInv'
<1> DEFINE c == calls[i]
           got == IF c.kind = "receipt" THEN c.answer ELSE View(c.kind, c.answer[1])
<1>1. CallOK(c, Presented, nextKey, serverKey, DOMAIN serverReceipts) /\ IsList(calls)
  BY DEF ExchangeInv, CallsInv
<1>2. IsCall(c)
  BY <1>1 DEF CallOK
<1>3. PICK y : calls' = [calls EXCEPT ![i].client = y] /\ (y = got \/ y = Error)
  BY DEF Receive, Expire
<1> DEFINE q == ToldCall(c, y)
<1>4. calls' = [calls EXCEPT ![i] = q]
  BY <1>3 DEF ToldCall
<1>5. /\ IsCall(q) /\ q.kind = c.kind /\ q.receipts = c.receipts
      /\ q.requested = c.requested /\ q.answer = c.answer /\ q.key = c.key
      /\ q.client = y
  BY <1>2, CallFields
<1>6. c.receipts # {} => (y = <<"verified">> => c.answer = <<"verified">>)
  <2>1. Error # <<"verified">>
    BY DEF Error
  <2>2. c.receipts # {} => got = c.answer
    BY <1>1 DEF CallOK
  <2> HIDE DEF got
  <2>3. QED
    BY <1>3, <2>1, <2>2
<1> HIDE DEF q
<1>7. CallOK(q, Presented, nextKey, serverKey, DOMAIN serverReceipts)
  BY <1>1, <1>5, <1>6 DEF CallOK
<1>8. UNCHANGED <<keys, issued, receipts>>
  BY DEF Receive, Expire
<1> QED
  BY <1>4, <1>7, <1>8, CallChanges

\* A process that starts anew has a key nobody used, and holds nothing.
LEMMA RestartInv ==
    ASSUME ExchangeInv, RestartProgram \/ RestartServer
    PROVE  ExchangeInv'
<1>1. IssuedInv /\ KeysInv /\ CallsInv /\ nextKey \in Nat
  BY DEF ExchangeInv, KeysInv
<1>2. /\ Holds(issued, clientReceipts, managerKey)
      /\ Holds(issued, serverReceipts, serverKey)
      /\ \A key : Holds(issued, <<>>, key)
  BY HoldsParts, HoldsNothing DEF ExchangeInv
<1>3. UNCHANGED issued /\ nextKey' = nextKey + 1
  BY DEF RestartProgram, RestartServer
<1>4. IssuedInv'
  BY <1>1, <1>3 DEF IssuedInv
<1>5. CASE RestartProgram
  <2>0. managerKey' = nextKey /\ clientReceipts' = <<>>
    BY <1>5 DEF RestartProgram
  <2>1. CASE embedded
    <3>1. serverKey' = nextKey /\ serverReceipts' = <<>> /\ calls' = Broken
      BY <1>5, <2>1 DEF RestartProgram
    <3>2. KeysInv'
      BY <1>1, <1>3, <2>0, <3>1 DEF KeysInv
    <3>3. CallsInv'
      BY <1>1, <1>3, <3>1, CallsBreak
    <3>4. AcceptedWasIssued'
      BY <1>2, <1>3, <2>0, <3>1, HoldsNext, Zenon
    <3>5. QED
      BY <1>4, <3>2, <3>3, <3>4 DEF ExchangeInv
  <2>2. CASE ~embedded
    <3>1. UNCHANGED <<serverKey, serverReceipts, calls>>
      BY <1>5, <2>2 DEF RestartProgram
    <3>2. KeysInv'
      BY <1>1, <1>3, <2>0, <3>1 DEF KeysInv
    <3>3. CallsInv'
      BY <1>1, <1>3, <3>1, CallsStay
    <3>4. AcceptedWasIssued'
      BY <1>2, <1>3, <2>0, <3>1, HoldsNext
    <3>5. QED
      BY <1>4, <3>2, <3>3, <3>4 DEF ExchangeInv
  <2>3. QED
    BY <2>1, <2>2
<1>6. CASE RestartServer
  <2>1. /\ serverKey' = nextKey /\ serverReceipts' = <<>> /\ calls' = Broken
        /\ UNCHANGED <<managerKey, clientReceipts>>
    BY <1>6 DEF RestartServer
  <2>2. KeysInv'
    BY <1>1, <1>3, <2>1 DEF KeysInv
  <2>3. CallsInv'
    BY <1>1, <1>3, <2>1, CallsBreak
  <2>4. AcceptedWasIssued'
    BY <1>2, <1>3, <2>1, HoldsNext
  <2>5. QED
    BY <1>4, <2>2, <2>3, <2>4 DEF ExchangeInv
<1> QED
  BY <1>5, <1>6

\* Every step of the program, the server and the network keeps the invariant.
LEMMA StepExchangeInv == ExchangeInv /\ [ExchangeNext]_exchangeVars => ExchangeInv'
<1> SUFFICES ASSUME ExchangeInv, [ExchangeNext]_exchangeVars
             PROVE  ExchangeInv'
  OBVIOUS
<1>1. ASSUME NEW s \in Subjects, NEW c \in Controls, NEW n \in Outcomes,
             (\E d \in Evidence : Issue(s, c, n, <<d>>)) \/ HaveSigned(s, c, n)
      PROVE  ExchangeInv'
  BY <1>1, SigningInv
<1>2. ASSUME NEW r \in Presented, SubmitLocally(r)
      PROVE  ExchangeInv'
  BY <1>2, SubmitLocallyInv
<1>3. ASSUME NEW r \in Presented, CallSubmitReceipt(r)
      PROVE  ExchangeInv'
  <2>1. Call("receipt", {r}) /\ {r} \subseteq Presented /\ \A a, b \in {r} : a = b
    BY <1>3 DEF CallSubmitReceipt
  <2>2. QED
    BY <2>1, CallMade
<1>4. ASSUME NEW kind \in Queries, CallQuery(kind)
      PROVE  ExchangeInv'
  <2>1. Call(kind, {}) /\ {} \subseteq Presented /\ \A a, b \in {} : a = b
    BY <1>4 DEF CallQuery
  <2>2. QED
    BY <2>1, CallMade
<1>5. ASSUME NEW i \in DOMAIN calls,
             \/ HandleSubmitReceipt(i)
             \/ \E n \in DOMAIN StateName : HandleQuery(i, n)
             \/ Receive(i) \/ Expire(i)
      PROVE  ExchangeInv'
  BY <1>5, HandleReceiptInv, HandleQueryInv, CallEndsInv
<1>6. CASE RestartProgram \/ RestartServer
  BY <1>6, RestartInv
<1>7. ASSUME UNCHANGED <<keys, issued, receipts, calls>>
      PROVE  ExchangeInv'
  <2>1. UNCHANGED <<nextKey, serverKey, calls, serverReceipts>>
    BY <1>7 DEF keys, receipts
  <2>2. CallsInv'
    BY <1>7, <2>1, ExchangeStays DEF ExchangeInv, CallsInv
  <2>3. QED
    BY <1>7, <2>2, ExchangeStays, AcceptedStays DEF ExchangeInv
<1>8. CASE ObserveNext
  <2>1. UNCHANGED <<keys, issued, receipts, calls>>
    BY <1>8 DEF ObserveNext, SubmitObservation
  <2>2. QED
    BY <1>7, <2>1
<1>9. CASE UNCHANGED exchangeVars
  <2>1. UNCHANGED <<keys, issued, receipts, calls>>
    BY <1>9 DEF exchangeVars
  <2>2. QED
    BY <1>7, <2>1
<1>10. CASE ReceiptsNext
  BY <1>1, <1>2, <1>3, <1>4, <1>5, <1>6, <1>10, Zenon DEF ReceiptsNext
<1> QED
  BY <1>8, <1>9, <1>10 DEF ExchangeNext

\* The invariant holds in every state of the exchange.
LEMMA ExchangeInvariant == ExchangeSpec => []ExchangeInv
BY InitExchangeInv, StepExchangeInv, PTL DEF ExchangeSpec

\* Neither the server nor the in-process client keeps a receipt that changed
\* on the way or that another key signed (Server.SubmitReceipt and
\* InProcessClient.SubmitReceipt), for any receipts, calls and restarts.
THEOREM ExchangeKeepsIssued == ExchangeSpec => []AcceptedWasIssued
<1>1. ExchangeInv => AcceptedWasIssued
  BY DEF ExchangeInv
<1> QED
  BY <1>1, ExchangeInvariant, PTL

\* A receipt for a control without a version that is submitted as issued to a
\* process that holds the key is never refused.
THEOREM ExchangeAcceptsIssued == ExchangeSpec => []IssuedIsAccepted
<1>1. ExchangeInv => IssuedIsAccepted
  <2> SUFFICES ASSUME ExchangeInv
               PROVE  IssuedIsAccepted
    OBVIOUS
  <2>1. IssuedInv /\ CallsInv
    BY DEF ExchangeInv
  <2>2. ASSUME NEW j \in issued, OnWire(j).control.version = Empty
        PROVE  /\ OnWire(j).signature = j.signature
               /\ VerifyIndependentReceipt(ServerReceipt(OnWire(j)), j.signature.key) = "valid"
               /\ VerifyIndependentReceipt(ClientReceipt(OnWire(j)), j.signature.key) = "valid"
    <3>1. OnWire(j).signature = j.signature /\ OnWire(j).control = j.control
      BY <2>1, OnWireShape
    <3>2. j.control.version = Empty
      BY <2>2, <3>1
    <3>3. QED
      BY <2>1, <3>1, <3>2, IssuedVerifies
  <2>3. ASSUME NEW j \in issued, OnWire(j).control.version = Empty,
               NEW i \in DOMAIN calls, OnWire(j) \in calls[i].receipts,
               OnWire(j).signature.key = calls[i].key
        PROVE  calls[i].answer \in {<<>>, <<"verified">>}
    <3>1. VerifyIndependentReceipt(ServerReceipt(OnWire(j)), calls[i].key) = "valid"
      BY <2>2, <2>3
    <3>2. /\ calls[i].answer \in {<<>>, <<"verified">>, <<"refused">>}
          /\ calls[i].answer = <<"refused">>
               => VerifyIndependentReceipt(ServerReceipt(OnWire(j)), calls[i].key) # "valid"
      BY <2>1, <2>3 DEF CallsInv, CallOK
    <3>3. QED
      BY <3>1, <3>2
  <2>4. QED
    BY <2>2, <2>3 DEF IssuedIsAccepted
<1> QED
  BY <1>1, ExchangeInvariant, PTL

\* What a caller was told is verified stays in the server's map for as long as
\* the server lives, also when other calls time out or are repeated.
THEOREM ExchangeHoldsVerified == ExchangeSpec => []VerifiedIsHeld
<1>1. ExchangeInv => VerifiedIsHeld
  BY DEF ExchangeInv, CallsInv, CallOK, VerifiedIsHeld
<1> QED
  BY <1>1, ExchangeInvariant, PTL

\* GetState, Evaluate and Explain of the in-process client tell the same story
\* about every subject, for any observations.
THEOREM ExchangeReadsAgree == ExchangeSpec => []ReadsAgree
<1>1. ReadsAgree
  <2> SUFFICES ASSUME NEW s \in Subjects, NEW c \in Controls
               PROVE  LET st == LocalState(s)
                          ev == LocalEvaluation(s, {c})
                          ex == LocalExplanation(s, c)
                      IN /\ st.state = ev.summary /\ st.state = ex.state
                         /\ st.root = ev.evaluations[c].root /\ st.root = ex.root
                         /\ st.freshness = ex.freshness
                         /\ ev.missing = 0 <=> ex.missing = 0
    BY DEF ReadsAgree
  <2> DEFINE root == ComputeEvidenceRoot(EvidenceRefs(s), Evidence)
             none == NoRoot(Evidence)
             has == observations[s] # <<>>
  <2>1. Cardinality({c}) = 1
    BY FS_Singleton
  <2> HIDE DEF root, none
  <2>2. CASE has
    <3>1. LocalState(s) = [state |-> "ASSURED", root |-> root, freshness |-> "current"]
      BY <2>2 DEF LocalState, root
    <3>2. /\ LocalEvaluation(s, {c}).summary = "ASSURED"
          /\ LocalEvaluation(s, {c}).evaluations[c].root = root
          /\ LocalEvaluation(s, {c}).missing = 0
      BY <2>2 DEF LocalEvaluation, root
    <3>3. LocalExplanation(s, c) = BuildExplainGraph(c, "ASSURED", root)
      BY <2>2 DEF LocalExplanation, root
    <3>4. /\ BuildExplainGraph(c, "ASSURED", root).state = "ASSURED"
          /\ BuildExplainGraph(c, "ASSURED", root).root = root
          /\ BuildExplainGraph(c, "ASSURED", root).freshness = "current"
          /\ BuildExplainGraph(c, "ASSURED", root).missing = 0
      BY DEF BuildExplainGraph
    <3>5. QED
      BY <3>1, <3>2, <3>3, <3>4
  <2>3. CASE ~has
    <3>1. LocalState(s) = [state |-> "UNKNOWN", root |-> none, freshness |-> "unknown"]
      BY <2>3 DEF LocalState, none
    <3>2. /\ LocalEvaluation(s, {c}).summary = "UNKNOWN"
          /\ LocalEvaluation(s, {c}).evaluations[c].root = none
          /\ LocalEvaluation(s, {c}).missing = 1
      BY <2>1, <2>3 DEF LocalEvaluation, none
    <3>3. LocalExplanation(s, c) = BuildExplainGraph(c, "UNKNOWN", none)
      BY <2>3 DEF LocalExplanation, none
    <3>4. /\ BuildExplainGraph(c, "UNKNOWN", none).state = "UNKNOWN"
          /\ BuildExplainGraph(c, "UNKNOWN", none).root = none
          /\ BuildExplainGraph(c, "UNKNOWN", none).freshness = "unknown"
          /\ BuildExplainGraph(c, "UNKNOWN", none).missing = 6
      BY DEF BuildExplainGraph
    <3>5. QED
      BY <3>1, <3>2, <3>3, <3>4
  <2>4. QED
    BY <2>2, <2>3
<1> QED
  BY <1>1, PTL

-----------------------------------------------------------------------------

(***************************************************************************)
(* The command line.  Where record admission writes depends on what exists *)
(* at that moment and where the others look on what exists later; once     *)
(* something was recorded the two agree, because the directory of the      *)
(* record exists from then on and nothing but an edit of the settings can  *)
(* move the one that is looked at, unless the settings erase it.           *)
(***************************************************************************)
IsFolder(f) == f = [exists |-> f.exists, usable |-> f.usable, files |-> f.files]

IsShelf(s) ==
    /\ s = [d \in Directories |-> s[d]]
    /\ \A d \in Directories : IsFolder(s[d])

OnFile(n, shelf) ==
    /\ n.dir \in Directories
    /\ shelf[n.dir].exists /\ shelf[n.dir].usable
    /\ \E e \in shelf[n.dir].files : e.id = n.id /\ e.workload = n.workload

\* Commands that are called as record was look where it wrote, when LoadConfig
\* gives configured and the settings have written.
LooksAt(n, configured, written) ==
    \/ n.own = "other" /\ n.dir = "other"
    \/ n.own = NoDir /\ n.dir = configured
    \/ n.own = NoDir /\ n.dir = "evidence" /\ written = NoDir /\ configured = NoDir

NotedInv == \A n \in noted : OnFile(n, folders) /\ LooksAt(n, LoadConfig.dir, settings.dir)

\* What s says of the workload of n, if it speaks of its directory.
Local == {"state", "explain", "drift", "inspect"}
Hears(n, s) ==
    s.command \in Local /\ s.workload = n.workload /\ s.dir = n.dir
    => /\ s.state \notin {"UNKNOWN", "error"}
       /\ \E e \in s.rests : e.id = n.id /\ e.workload = n.workload

SaidInv == \A n \in noted : Hears(n, said)

CommandInv ==
    /\ IsShelf(folders)
    /\ environment.dir \in Directories \cup {NoDir}
    /\ settings.dir \in Directories \cup {NoDir, Absent}
    /\ NotedInv
    /\ SaidInv

\* A directory that is made where it was not keeps what every other holds.
LEMMA OpenedFolders ==
    ASSUME IsShelf(folders), NEW dir \in Directories \cup {NoDir}
    PROVE  /\ IsShelf(Opened(dir))
           /\ \A d \in Directories : /\ Opened(dir)[d].usable = folders[d].usable
                                     /\ Opened(dir)[d].files = folders[d].files
                                     /\ folders[d].exists => Opened(dir)[d].exists
<1>1. CASE Opened(dir) = folders
  BY <1>1
<1>2. CASE Opened(dir) # folders
  <2> DEFINE yes == TRUE
             o == [folders[dir] EXCEPT !.exists = yes]
  <2>1. dir \in Directories
    BY <1>2 DEF Opened
  <2>2. Opened(dir) = [folders EXCEPT ![dir] = o]
    BY <1>2 DEF Opened
  <2>3. IsFolder(folders[dir])
    BY <2>1 DEF IsShelf
  <2> HIDE DEF yes
  <2>4. o = [exists |-> yes, usable |-> folders[dir].usable, files |-> folders[dir].files]
    BY <2>3 DEF IsFolder
  <2> HIDE DEF o
  <2>5. /\ o.exists = yes /\ o.usable = folders[dir].usable /\ o.files = folders[dir].files
    BY <2>4
  <2>6. IsFolder(o)
    BY <2>4, <2>5, Zenon DEF IsFolder
  <2>7. /\ Opened(dir) = [d \in Directories |-> Opened(dir)[d]]
        /\ Opened(dir)[dir] = o
        /\ \A d \in Directories : d # dir => Opened(dir)[d] = folders[d]
    BY <2>1, <2>2 DEF IsShelf
  <2>8. o.exists
    BY <2>5 DEF yes
  <2>9. QED
    BY <2>5, <2>6, <2>7, <2>8, Zenon DEF IsShelf
<1> QED
  BY <1>1, <1>2

\* What record admission does to its directory.
Overwritten(files, e) == {o \in files : o.id # e.id} \cup {e}

\* Filing an envelope changes the one directory it is filed in.
LEMMA FiledFolders ==
    ASSUME IsShelf(folders), NEW dir \in Directories, NEW e
    PROVE  /\ IsShelf(FiledIn(dir, e))
           /\ FiledIn(dir, e)[dir].exists
           /\ FiledIn(dir, e)[dir].usable = folders[dir].usable
           /\ FiledIn(dir, e)[dir].files = Overwritten(folders[dir].files, e)
           /\ \A d \in Directories \ {dir} : FiledIn(dir, e)[d] = folders[d]
<1> DEFINE yes == TRUE
           files == Overwritten(folders[dir].files, e)
           p == [folders[dir] EXCEPT !.exists = yes]
           q == [p EXCEPT !.files = files]
<1>1. IsFolder(folders[dir])
  BY DEF IsShelf
<1>2. FiledIn(dir, e) = [folders EXCEPT ![dir] = q]
  <2> HIDE DEF files
  <2>1. FiledIn(dir, e) = [folders EXCEPT ![dir].exists = TRUE, ![dir].files = files]
    <3>1. folders[dir].files = [folders EXCEPT ![dir].exists = TRUE][dir].files
      BY <1>1 DEF IsShelf, IsFolder
    <3>2. QED
      BY <3>1 DEF FiledIn, files, Overwritten
  <2>2. QED
    BY <1>1, <2>1 DEF IsShelf, IsFolder
<1> HIDE DEF yes, files
<1>3. p = [exists |-> yes, usable |-> folders[dir].usable, files |-> folders[dir].files]
  BY <1>1 DEF IsFolder
<1> HIDE DEF p
<1>4. q = [exists |-> yes, usable |-> folders[dir].usable, files |-> files]
  BY <1>3
<1> HIDE DEF q
<1>5. q.exists = yes /\ q.usable = folders[dir].usable /\ q.files = files
  BY <1>4
<1>6. IsFolder(q)
  BY <1>4, <1>5, Zenon DEF IsFolder
<1>7. /\ FiledIn(dir, e) = [d \in Directories |-> FiledIn(dir, e)[d]]
      /\ FiledIn(dir, e)[dir] = q
      /\ \A d \in Directories \ {dir} : FiledIn(dir, e)[d] = folders[d]
  BY <1>2 DEF IsShelf
<1>8. IsShelf(FiledIn(dir, e))
  BY <1>6, <1>7 DEF IsShelf
<1>9. q.exists
  BY <1>5 DEF yes
<1> QED
  BY <1>5, <1>7, <1>8, <1>9, Zenon DEF files

\* The directory that the settings give, once there is one or it is erased,
\* stays while the settings do and ./evidence is not removed.
LEMMA DirStays ==
    ASSUME UNCHANGED <<settings, environment>>,
           folders["evidence"].exists => folders'["evidence"].exists,
           LoadConfig.dir # NoDir \/ settings.dir = NoDir
    PROVE  LoadConfig.dir' = LoadConfig.dir
BY DEF LoadConfig, DefaultConfig, NoDir, Absent

\* It is one of the directories, or none.
LEMMA DirRange ==
    ASSUME CommandInv
    PROVE  /\ LoadConfig.dir \in Directories \cup {NoDir}
           /\ \A flag \in {NotGiven, NoDir} \cup Directories :
                EvidenceDir(flag) \in Directories \cup {NoDir}
<1>1. LoadConfig.dir \in Directories \cup {NoDir}
  BY DEF CommandInv, LoadConfig, DefaultConfig, Directories, Absent
<1> QED
  BY <1>1 DEF EvidenceDir, NotGiven, NoDir, Directories

\* Where to look stays where it was, for what is on file.
LEMMA LooksThere ==
    ASSUME CommandInv, UNCHANGED <<settings, environment>>,
           folders["evidence"].exists => folders'["evidence"].exists,
           NEW n \in noted
    PROVE  LooksAt(n, LoadConfig.dir', settings'.dir)
<1>1. LooksAt(n, LoadConfig.dir, settings.dir) /\ n.dir # NoDir
  BY DEF CommandInv, NotedInv, OnFile, Directories, NoDir
<1>2. CASE n.own = "other" /\ n.dir = "other"
  BY <1>2 DEF LooksAt
<1>3. CASE LoadConfig.dir # NoDir \/ settings.dir = NoDir
  <2>1. LoadConfig.dir' = LoadConfig.dir
    BY <1>3, DirStays
  <2>2. QED
    BY <1>1, <2>1 DEF LooksAt
<1> QED
  BY <1>1, <1>2, <1>3 DEF LooksAt

\* Nothing was recorded at the start.
LEMMA InitCommandInv == CommandInit => CommandInv
<1> SUFFICES ASSUME CommandInit
             PROVE  CommandInv
  OBVIOUS
<1>1. PICK blocked \in SUBSET {"other"} :
        folders = [d \in Directories |-> [exists |-> d \in blocked,
                                          usable |-> d \notin blocked, files |-> {}]]
  BY DEF CommandInit
<1>2. IsShelf(folders)
  <2>1. ASSUME NEW d \in Directories
        PROVE  IsFolder(folders[d])
    <3> DEFINE a == d \in blocked
               b == d \notin blocked
    <3>1. folders[d] = [exists |-> a, usable |-> b, files |-> {}]
      BY <1>1
    <3> HIDE DEF a, b
    <3>2. QED
      BY <3>1 DEF IsFolder
  <2>2. folders = [d \in Directories |-> folders[d]]
    BY <1>1
  <2>3. QED
    BY <2>1, <2>2 DEF IsShelf
<1>3. environment.dir \in Directories \cup {NoDir}
  BY CommandAssumption DEF CommandInit
<1>4. settings.dir \in Directories \cup {NoDir, Absent}
  <2>1. NoSettings.dir = Absent
    BY DEF NoSettings
  <2>2. QED
    BY <2>1, CommandAssumption DEF CommandInit
<1>5. NotedInv /\ SaidInv
  BY DEF CommandInit, NotedInv, SaidInv
<1> QED
  BY <1>2, <1>3, <1>4, <1>5 DEF CommandInv

\* A command that at most makes a directory leaves what was recorded in sight.
LEMMA OpenedInv ==
    ASSUME CommandInv, NEW dir \in Directories \cup {NoDir},
           folders' = Opened(dir) \/ UNCHANGED folders,
           UNCHANGED <<environment, settings, noted>>,
           SaidInv'
    PROVE  CommandInv'
<1>1. IsShelf(folders)
  BY DEF CommandInv
<1>2. /\ IsShelf(folders')
      /\ \A d \in Directories : /\ folders'[d].usable = folders[d].usable
                                /\ folders'[d].files = folders[d].files
                                /\ folders[d].exists => folders'[d].exists
  BY <1>1, OpenedFolders
<1>3. folders["evidence"].exists => folders'["evidence"].exists
  BY <1>2 DEF Directories
<1>4. NotedInv'
  <2> SUFFICES ASSUME NEW n \in noted
               PROVE  OnFile(n, folders') /\ LooksAt(n, LoadConfig.dir', settings'.dir)
    BY DEF NotedInv
  <2>1. OnFile(n, folders)
    BY DEF CommandInv, NotedInv
  <2>2. OnFile(n, folders')
    BY <1>2, <2>1 DEF OnFile
  <2>3. LooksAt(n, LoadConfig.dir', settings'.dir)
    BY <1>3, LooksThere
  <2>4. QED
    BY <2>2, <2>3
<1> QED
  BY <1>2, <1>4 DEF CommandInv

\* A command that does not speak of local evidence.
LEMMA QuietInv ==
    ASSUME NEW s, s.command \notin Local
    PROVE  \A n : Hears(n, s)
BY DEF Hears

\* record admission files the envelope where the other commands look, and
\* what it overwrites is not counted as recorded any more.
LEMMA RecordInv ==
    ASSUME CommandInv, NEW w, NEW own \in {NoDir, "other"}, RecordAdmission(w, own)
    PROVE  CommandInv'
<1> DEFINE dir == TargetDir(own)
           envelope == [id |-> <<w.name, ticks>>, workload |-> w, at |-> ticks]
           note == [id |-> envelope.id, workload |-> w, own |-> own, dir |-> dir]
<1>0. UNCHANGED <<environment, settings>>
  BY DEF RecordAdmission
<1>1. SaidInv'
  <2>1. \/ said' = Complaint("record", w, dir)
        \/ said' = Says("record", w, "VERIFIED", {envelope}, dir)
    BY DEF RecordAdmission
  <2> HIDE DEF dir, envelope
  <2>2. said'.command = "record"
    BY <2>1 DEF Complaint, Says
  <2>3. "record" \notin Local
    BY DEF Local
  <2>4. QED
    BY <2>2, <2>3, QuietInv DEF SaidInv
<1>2. CASE CannotOpen(dir)
  <2>1. UNCHANGED <<folders, noted>>
    BY <1>2 DEF RecordAdmission
  <2>2. NoDir \in Directories \cup {NoDir}
    OBVIOUS
  <2>3. QED
    BY <1>0, <1>1, <2>1, <2>2, OpenedInv
<1>3. CASE ~CannotOpen(dir)
  <2>1. /\ folders' = FiledIn(dir, envelope)
        /\ noted' = {n \in noted : n.id # envelope.id \/ n.dir # dir} \cup {note}
    BY <1>3 DEF RecordAdmission
  <2>2. /\ envelope.workload = w /\ note.id = envelope.id /\ note.workload = w
        /\ note.own = own /\ note.dir = dir
    OBVIOUS
  <2> HIDE DEF envelope, note
  <2>3. EvidenceDir(NotGiven) = LoadConfig.dir
    BY DEF EvidenceDir
  <2>4. dir \in Directories /\ folders[dir].usable
    <3>1. dir \in Directories
      BY <2>3, DirRange DEF TargetDir, Directories, NoDir
    <3> HIDE DEF dir
    <3>2. QED
      BY <1>3, <3>1 DEF CannotOpen, Directories, NoDir
  <2>5. IsShelf(folders)
    BY DEF CommandInv
  <2> HIDE DEF dir
  <2>6. /\ IsShelf(folders')
        /\ folders'[dir].exists
        /\ folders'[dir].usable = folders[dir].usable
        /\ folders'[dir].files = Overwritten(folders[dir].files, envelope)
        /\ \A d \in Directories \ {dir} : folders'[d] = folders[d]
    BY <2>1, <2>4, <2>5, FiledFolders
  <2>7. folders["evidence"].exists => folders'["evidence"].exists
    BY <2>6 DEF Directories
  <2>8. LooksAt(note, LoadConfig.dir', settings'.dir)
    <3>1. CASE own = "other"
      <4>1. dir = "other"
        BY <3>1 DEF dir, TargetDir, NoDir
      <4>2. QED
        BY <2>2, <3>1, <4>1 DEF LooksAt
    <3>2. CASE own = NoDir /\ LoadConfig.dir # NoDir
      <4>1. dir = LoadConfig.dir
        BY <2>3, <3>2 DEF dir, TargetDir
      <4>2. LoadConfig.dir' = LoadConfig.dir
        BY <1>0, <2>7, <3>2, DirStays
      <4>3. QED
        BY <2>2, <3>2, <4>1, <4>2 DEF LooksAt
    <3>3. CASE own = NoDir /\ LoadConfig.dir = NoDir
      <4>1. dir = "evidence"
        BY <2>3, <3>3 DEF dir, TargetDir
      <4>2. CASE settings.dir = NoDir
        <5>1. LoadConfig.dir' = NoDir
          BY <1>0, <2>7, <3>3, <4>2, DirStays
        <5>2. QED
          BY <1>0, <2>2, <3>3, <4>1, <4>2, <5>1 DEF LooksAt
      <4>3. CASE settings.dir # NoDir
        <5>1. folders'["evidence"].exists
          BY <2>6, <4>1
        <5>2. LoadConfig.dir' = "evidence"
          BY <1>0, <3>3, <4>3, <5>1 DEF LoadConfig, DefaultConfig, NoDir
        <5>3. QED
          BY <2>2, <3>3, <4>1, <5>2 DEF LooksAt
      <4>4. QED
        BY <4>2, <4>3
    <3>4. QED
      BY <3>1, <3>2, <3>3
  <2>9. OnFile(note, folders')
    BY <2>2, <2>4, <2>6 DEF OnFile, Overwritten
  <2>10. ASSUME NEW n \in noted, n.id # envelope.id \/ n.dir # dir
         PROVE  OnFile(n, folders') /\ LooksAt(n, LoadConfig.dir', settings'.dir)
    <3>1. OnFile(n, folders)
      BY DEF CommandInv, NotedInv
    <3>2. OnFile(n, folders')
      BY <2>4, <2>6, <2>10, <3>1 DEF OnFile, Overwritten
    <3>3. LooksAt(n, LoadConfig.dir', settings'.dir)
      BY <1>0, <2>7, LooksThere
    <3>4. QED
      BY <3>2, <3>3
  <2>11. NotedInv'
    <3> SUFFICES ASSUME NEW n \in noted'
                 PROVE  OnFile(n, folders') /\ LooksAt(n, LoadConfig.dir', settings'.dir)
      BY DEF NotedInv
    <3>1. CASE n = note
      <4>1. OnFile(n, folders')
        BY <2>9, <3>1
      <4>2. LooksAt(n, LoadConfig.dir', settings'.dir)
        BY <2>2, <2>8, <3>1 DEF LooksAt
      <4>3. QED
        BY <4>1, <4>2
    <3>2. CASE n # note
      BY <2>1, <2>10, <3>2
    <3>3. QED
      BY <3>1, <3>2
  <2>12. QED
    BY <1>0, <1>1, <2>6, <2>11 DEF CommandInv
<1> QED
  BY <1>2, <1>3

\* config init writes down what was in force, or nothing counts any more.
LEMMA ConfigInitInv ==
    ASSUME CommandInv, ConfigInit
    PROVE  CommandInv'
<1>1. /\ UNCHANGED <<folders, environment>> /\ said' = Silence
      /\ settings' = [kind |-> "valid", server |-> NoServer,
                      dir |-> IF DefaultConfig = NoDir THEN Absent ELSE DefaultConfig]
      /\ noted' = IF settings.kind = "broken" \/ settings.dir \in Directories
                  THEN {} ELSE noted
  BY DEF ConfigInit
<1>2. /\ settings'.dir = IF DefaultConfig = NoDir THEN Absent ELSE DefaultConfig
      /\ settings'.kind = "valid"
  BY <1>1
<1>3. settings'.dir \in Directories \cup {NoDir, Absent}
  BY <1>2 DEF DefaultConfig, Directories
<1>4. SaidInv'
  <2>1. said'.command = "none" /\ "none" \notin Local
    BY <1>1 DEF Silence, Says, Local
  <2>2. QED
    BY <2>1, QuietInv DEF SaidInv
<1>5. NotedInv'
  <2>1. CASE noted' = {}
    BY <2>1 DEF NotedInv
  <2>2. CASE noted' # {}
    <3>1. noted' = noted /\ settings.kind # "broken" /\ settings.dir \in {NoDir, Absent}
      BY <1>1, <2>2 DEF CommandInv
    <3> SUFFICES ASSUME NEW n \in noted
                 PROVE  OnFile(n, folders) /\ LooksAt(n, LoadConfig.dir', settings'.dir)
      BY <1>1, <3>1 DEF NotedInv
    <3>2. OnFile(n, folders) /\ LooksAt(n, LoadConfig.dir, settings.dir)
      BY DEF CommandInv, NotedInv
    <3>3. CASE n.own = "other" /\ n.dir = "other"
      BY <3>2, <3>3 DEF LooksAt
    <3>4. CASE n.own = NoDir /\ environment.dir # NoDir
      <4>1. LoadConfig.dir = environment.dir /\ LoadConfig.dir' = environment.dir
        BY <1>1, <1>2, <3>1, <3>4 DEF LoadConfig
      <4>2. n.dir = environment.dir
        BY <3>2, <3>4, <4>1 DEF LooksAt, NoDir
      <4>3. QED
        BY <3>2, <3>4, <4>1, <4>2 DEF LooksAt
    <3>5. CASE n.own = NoDir /\ environment.dir = NoDir
      <4>1. n.dir = "evidence"
        BY <3>1, <3>2, <3>5 DEF LooksAt, LoadConfig, DefaultConfig, OnFile, Directories,
           NoDir, Absent
      <4>2. DefaultConfig = "evidence"
        BY <3>2, <4>1 DEF OnFile, DefaultConfig
      <4>3. LoadConfig.dir' = "evidence"
        BY <1>1, <1>2, <3>5, <4>2 DEF LoadConfig, NoDir, Absent
      <4>4. QED
        BY <3>2, <3>5, <4>1, <4>3 DEF LooksAt
    <3>6. QED
      BY <3>2, <3>3, <3>4, <3>5 DEF LooksAt
  <2>3. QED
    BY <2>1, <2>2
<1> QED
  BY <1>1, <1>3, <1>4, <1>5 DEF CommandInv

\* A command that reads evidence rests on what is on file where it looks, and
\* state, explain, drift and inspect say so.
LEMMA ReadsHears ==
    ASSUME CommandInv, NEW command, NEW w, NEW flag, NEW state, NEW loud,
           Reads(command, w, flag, state, loud),
           command \in Local /\ Seen(flag, w) # {} => state \notin {"UNKNOWN", "error"}
    PROVE  SaidInv'
<1> SUFFICES ASSUME NEW n \in noted
             PROVE  Hears(n, said')
  BY DEF SaidInv, Reads
<1> DEFINE dir == EvidenceDir(flag)
<1>1. said' = IF loud /\ CannotOpen(dir) THEN Complaint(command, w, dir)
              ELSE Says(command, w, state, Seen(flag, w), dir)
  BY DEF Reads
<1>2. said'.command = command /\ said'.workload = w /\ said'.dir = dir
  BY <1>1 DEF Complaint, Says
<1> SUFFICES ASSUME command \in Local, w = n.workload, dir = n.dir
             PROVE  /\ said'.state \notin {"UNKNOWN", "error"}
                    /\ \E e \in said'.rests : e.id = n.id /\ e.workload = n.workload
  BY <1>2 DEF Hears
<1>3. OnFile(n, folders)
  BY DEF CommandInv, NotedInv
<1>4. dir # NoDir /\ ~CannotOpen(dir)
  BY <1>3 DEF OnFile, CannotOpen, Directories, NoDir
<1>5. Seen(flag, w) = Found(n.dir, w)
  BY <1>4 DEF Seen
<1>6. \E e \in Seen(flag, w) : e.id = n.id /\ e.workload = n.workload
  BY <1>3, <1>4, <1>5 DEF OnFile, Found, MatchesWorkload
<1>7. said'.state = state /\ said'.rests = Seen(flag, w)
  BY <1>1, <1>4 DEF Says
<1> QED
  BY <1>6, <1>7

\* Every command keeps the invariant.
LEMMA StepCommandInv == CommandInv /\ [CommandNext]_commandVars => CommandInv'
<1> SUFFICES ASSUME CommandInv, [CommandNext]_commandVars
             PROVE  CommandInv'
  OBVIOUS
<1>0. NoDir \in Directories \cup {NoDir}
  OBVIOUS
<1>1. ASSUME NEW w, NEW own \in {NoDir, "other"}, RecordAdmission(w, own)
      PROVE  CommandInv'
  BY <1>1, RecordInv
<1>2. ASSUME NEW command, NEW w, NEW flag \in {NotGiven, NoDir, "other"}, NEW state, NEW loud,
             Reads(command, w, flag, state, loud),
             command \in Local /\ Seen(flag, w) # {} => state \notin {"UNKNOWN", "error"}
      PROVE  CommandInv'
  <2>1. EvidenceDir(flag) \in Directories \cup {NoDir}
    BY DirRange DEF Directories
  <2>2. folders' = Opened(EvidenceDir(flag)) /\ UNCHANGED <<environment, settings, noted>>
    BY <1>2 DEF Reads
  <2>3. SaidInv'
    BY <1>2, ReadsHears
  <2>4. QED
    BY <2>1, <2>2, <2>3, OpenedInv
<1>3. ASSUME UNCHANGED <<folders, environment, settings, noted>>, said'.command \notin Local
      PROVE  CommandInv'
  <2>1. SaidInv'
    BY <1>3, QuietInv DEF SaidInv
  <2>2. QED
    BY <1>0, <1>3, <2>1, OpenedInv
<1>4. ASSUME NEW command, command \notin Local, NEW w, NEW state, Asserts(command, w, state)
      PROVE  CommandInv'
  <2>1. said'.command = command /\ UNCHANGED <<folders, environment, settings, noted>>
    BY <1>4 DEF Asserts, Says
  <2>2. QED
    BY <1>3, <1>4, <2>1
<1>5. ASSUME NEW flag \in {NotGiven} \cup Directories,
             PruneCommand(flag) \/ \E platform \in BOOLEAN : Doctor(flag, platform)
      PROVE  CommandInv'
  <2>1. EvidenceDir(flag) \in Directories \cup {NoDir}
    BY DirRange
  <2>2. PICK dir \in Directories \cup {NoDir} :
          folders' = Opened(dir) /\ UNCHANGED <<environment, settings, noted>>
    BY <1>5, <2>1 DEF PruneCommand, Doctor, Directories
  <2>3. said'.command \in {"prune", "doctor"}
    BY <1>5 DEF PruneCommand, Doctor, Complaint, Says
  <2>4. SaidInv'
    BY <2>3, QuietInv DEF SaidInv, Local
  <2>5. QED
    BY <2>2, <2>4, OpenedInv
<1>6. \A e : e # {} => /\ StateFrom(e) \notin {"UNKNOWN", "error"}
                       /\ DriftFrom(e) \notin {"UNKNOWN", "error"}
                       /\ InspectSubject(e).state \notin {"UNKNOWN", "error"}
  BY DEF StateFrom, DriftFrom, InspectSubject
<1>7. ASSUME NEW w \in Workloads, NEW server
      PROVE  AskServer(w, server) => CommandInv'
  <2>1. "remote" \notin Local
    BY DEF Local
  <2>2. QED
    BY <1>4, <2>1 DEF AskServer
<1>8. ASSUME NEW w \in Workloads, NEW flag \in {NotGiven, NoDir, "other"},
             \/ \E server \in {NotGiven, NoServer} :
                  AssuranceStateCommand(w, flag, server) \/ ExplainCommand(w, flag, server)
             \/ EvidenceCommand(w, flag) \/ DriftCommand(w, flag)
             \/ ExportAssessmentResults(w, flag) \/ ExportComponentDefinition(w, flag)
             \/ InspectCommand(w, flag)
      PROVE  CommandInv'
  <2>1. "evidence" \notin Local /\ "export-ar" \notin Local /\ "export-cd" \notin Local
    BY DEF Local
  <2>2. CASE \E server \in {NotGiven, NoServer} :
               AssuranceStateCommand(w, flag, server) \/ ExplainCommand(w, flag, server)
    BY <1>2, <1>6, <1>7, <2>2 DEF AssuranceStateCommand, ExplainCommand
  <2>3. CASE EvidenceCommand(w, flag)
    BY <1>2, <2>1, <2>3 DEF EvidenceCommand
  <2>4. CASE DriftCommand(w, flag)
    BY <1>2, <1>6, <2>4 DEF DriftCommand
  <2>5. CASE ExportAssessmentResults(w, flag)
    BY <1>2, <2>1, <2>5 DEF ExportAssessmentResults
  <2>6. CASE ExportComponentDefinition(w, flag)
    BY <1>2, <2>1, <2>6 DEF ExportComponentDefinition
  <2>7. CASE InspectCommand(w, flag)
    BY <1>2, <1>6, <2>7 DEF InspectCommand
  <2>8. QED
    BY <1>8, <2>2, <2>3, <2>4, <2>5, <2>6, <2>7
<1>9. ASSUME \/ \E w \in Workloads : ExportSSP(w) \/ ExportPOAM(w)
             \/ Cockpit
             \/ \E parses \in BOOLEAN : ReceiptVerify(parses)
      PROVE  CommandInv'
  <2>1. /\ "export-ssp" \notin Local /\ "export-poam" \notin Local
        /\ "cockpit" \notin Local /\ "receipt" \notin Local
    BY DEF Local
  <2>2. QED
    BY <1>4, <1>9, <2>1, Zenon DEF ExportSSP, ExportPOAM, Cockpit, ReceiptVerify
<1>10. CASE ConfigInit
  BY <1>10, ConfigInitInv
<1>11. CASE BreakSettings
  <2>1. /\ settings' = BrokenSettings /\ noted' = {}
        /\ UNCHANGED <<folders, environment>>
    BY <1>11 DEF BreakSettings
  <2>2. settings'.dir = Absent /\ NotedInv' /\ SaidInv'
    BY <2>1 DEF NotedInv, SaidInv, BrokenSettings, NoSettings
  <2>3. QED
    BY <2>1, <2>2 DEF CommandInv
<1>12. CASE RefusedCommand \/ Tick
  <2>1. /\ UNCHANGED <<folders, environment, settings, noted>>
        /\ said' = Complaint("any", Anything, NoDir) \/ said' = Silence
    BY <1>12 DEF RefusedCommand, Tick
  <2>2. said'.command \notin Local
    BY <2>1 DEF Complaint, Silence, Says, Local
  <2>3. QED
    BY <1>3, <2>1, <2>2
<1>13. CASE UNCHANGED commandVars
  <2>1. UNCHANGED <<folders, environment, settings, noted, said>>
    BY <1>13 DEF commandVars
  <2>2. SaidInv'
    BY <2>1 DEF CommandInv, SaidInv
  <2>3. QED
    BY <1>0, <2>1, <2>2, OpenedInv
<1>14. CASE CommandNext
  BY <1>1, <1>5, <1>8, <1>9, <1>10, <1>11, <1>12, <1>14, Zenon DEF CommandNext
<1> QED
  BY <1>13, <1>14

\* What record admission recorded stays on file; the commands that are called
\* as it was look there, unless the settings erase the directory; and what
\* state, explain, drift and inspect say from there rests on the record.
THEOREM CommandsReportRecorded == CommandSpec => []RecordedIsReported
<1>1. CommandInv => RecordedIsReported
  <2> SUFFICES ASSUME CommandInv, NEW n \in noted
               PROVE  /\ \E e \in folders[n.dir].files : e.id = n.id /\ e.workload = n.workload
                      /\ n.own # NoDir \/ ~Erased =>
                           EvidenceDir(IF n.own = NoDir THEN NotGiven ELSE n.own) = n.dir
                      /\ Hears(n, said)
    BY DEF RecordedIsReported, Hears, Local
  <2>1. OnFile(n, folders) /\ LooksAt(n, LoadConfig.dir, settings.dir) /\ Hears(n, said)
    BY DEF CommandInv, NotedInv, SaidInv
  <2>2. n.own # NoDir \/ ~Erased =>
          EvidenceDir(IF n.own = NoDir THEN NotGiven ELSE n.own) = n.dir
    BY <2>1 DEF LooksAt, Erased, EvidenceDir, NotGiven, NoDir
  <2>3. QED
    BY <2>1, <2>2 DEF OnFile
<1> QED
  BY <1>1, InitCommandInv, StepCommandInv, PTL DEF CommandSpec

-----------------------------------------------------------------------------

(***************************************************************************)
(* The MCP server.  What waits and what was asked are lines, and the       *)
(* answers correspond to what was asked one by one, each as the list of    *)
(* tools promises.                                                         *)
(***************************************************************************)
IsLine(l) ==
    /\ l = [form |-> l.form, id |-> l.id, method |-> l.method,
            paramsParse |-> l.paramsParse, tool |-> l.tool, arguments |-> l.arguments]
    /\ l.form \in {"blank", "broken", "huge", "message"}

Suits(answer, l) ==
    /\ answer.id = IF l.form = "broken" THEN 0 ELSE l.id
    /\ (l.form = "message" /\ l.method = "tools/call") =>
         /\ answer.ok => Complete(l)
         /\ (Advertised(l) /\ l.tool # "validate_oscal") => answer.ok

McpInv ==
    /\ IsList(inbox) /\ IsList(answers) /\ IsList(asked)
    /\ \A i \in DOMAIN inbox : IsLine(inbox[i])
    /\ DOMAIN answers = DOMAIN asked
    /\ \A i \in DOMAIN asked : Suits(answers[i], asked[i])

\* What Tail and \o make of a list.
LEMMA ListTail ==
    ASSUME NEW s, IsList(s), s # <<>>
    PROVE  /\ 1 \in DOMAIN s /\ Head(s) = s[1]
           /\ IsList(Tail(s))
           /\ \A j \in DOMAIN Tail(s) : j + 1 \in DOMAIN s /\ Tail(s)[j] = s[j + 1]
<1> DEFINE n == Len(s)
           S == {s[i] : i \in 1 .. n}
<1>1. n \in Nat /\ s = [i \in 1 .. n |-> s[i]]
  BY DEF IsList
<1>2. s \in [1 .. n -> S]
  BY <1>1
<1> HIDE DEF S, n
<1>3. s \in Seq(S)
  BY <1>1, <1>2
<1>4. Tail(s) \in Seq(S) /\ Head(s) = s[1] /\ Len(s) \in Nat /\ Len(s) # 0
  BY <1>3
<1>5. Len(Tail(s)) = Len(s) - 1 /\ \A j \in 1 .. Len(s) - 1 : Tail(s)[j] = s[j + 1]
  BY <1>3, <1>4
<1>6. ASSUME NEW t \in Seq(S)
      PROVE  IsList(t) /\ DOMAIN t = 1 .. Len(t)
  BY DEF IsList
<1>7. IsList(Tail(s)) /\ DOMAIN Tail(s) = 1 .. Len(s) - 1 /\ DOMAIN s = 1 .. Len(s)
  BY <1>3, <1>4, <1>5, <1>6
<1> QED
  BY <1>4, <1>5, <1>7

\* Lists of one domain are of one length.
LEMMA SameLength ==
    ASSUME NEW m \in Nat, NEW n \in Nat, 1 .. m = 1 .. n
    PROVE  m = n
<1>1. ASSUME NEW j \in Nat, NEW k \in Nat, 1 .. j \subseteq 1 .. k
      PROVE  j <= k
  <2>1. CASE j = 0
    BY <2>1
  <2>2. CASE j # 0
    <3>1. j \in 1 .. j
      BY <2>2
    <3>2. j \in 1 .. k
      BY <1>1, <3>1
    <3>3. QED
      BY <3>2
  <2>3. QED
    BY <2>1, <2>2
<1>2. m <= n /\ n <= m
  BY <1>1
<1> QED
  BY <1>2

\* Joining with nothing, and with a list of one.
LEMMA ListConcat ==
    ASSUME NEW s, IsList(s), NEW x
    PROVE  s \o <<>> = s /\ s \o <<x>> = Append(s, x)
<1> DEFINE n == Len(s)
           S == {s[i] : i \in 1 .. n} \cup {x}
<1>1. n \in Nat /\ s = [i \in 1 .. n |-> s[i]]
  BY DEF IsList
<1>2. s \in [1 .. n -> S] /\ x \in S
  BY <1>1
<1> HIDE DEF S, n
<1>3. s \in Seq(S)
  BY <1>1, <1>2
<1> QED
  BY <1>2, <1>3

\* A tool gives a result only for the arguments its schema requires, and for
\* the values that the schema names, documents apart.
LEMMA ToolsAsListed ==
    ASSUME NEW name, NEW a
    PROVE  /\ callTool(name, a).ok
                => name \in DOMAIN listTools /\ \A x \in listTools[name] : a[x] # ""
           /\ (/\ name \in DOMAIN listTools
               /\ \A x \in listTools[name] : a[x] # ""
               /\ \A x \in listTools[name] \cap DOMAIN NamedValues : a[x] \in NamedValues[x]
               /\ name # "validate_oscal")
              => callTool(name, a).ok
<1>1. /\ DOMAIN listTools = {"get_assurance_state", "explain_claim", "validate_oscal",
                             "detect_drift", "scaffold_compliance", "project_oscal",
                             "run_doctor"}
      /\ listTools["get_assurance_state"] = {"subject"}
      /\ listTools["explain_claim"] = {"subject"}
      /\ listTools["validate_oscal"] = {"content"}
      /\ listTools["detect_drift"] = {"subject"}
      /\ listTools["scaffold_compliance"] = {"profile"}
      /\ listTools["project_oscal"] = {"subject", "document_type"}
      /\ listTools["run_doctor"] = {}
  BY DEF listTools
<1>2. /\ DOMAIN NamedValues = {"profile", "document_type"}
      /\ NamedValues["profile"] = {"nist-sp-800-53", "pci-dss", "soc-2", "iso-27001"}
      /\ NamedValues["document_type"] = {"assessment-results", "component-definition",
                                         "ssp", "assessment-plan", "poam"}
  BY DEF NamedValues
<1>3. /\ ~Failure.ok
      /\ \A body : Text(body).ok
  BY DEF Failure, Text
<1>4. \A x, r : /\ Requiring(x, r).ok => x # "" /\ r.ok
                /\ x # "" => Requiring(x, r) = r
  BY <1>3 DEF Requiring
<1>5. \A p \in NamedValues["profile"] : GenerateScaffold(p) # {}
  <2>1. \A p \in NamedValues["profile"] : NormalizeProfile(p) = p
    BY <1>2 DEF NormalizeProfile
  <2>2. QED
    BY <1>2, <2>1 DEF GenerateScaffold
<1>6. \A d \in NamedValues["document_type"] : ProjectOscal(d).ok
  <2>1. /\ DocumentTypes[1] = "assessment-results" /\ 1 \in DOMAIN DocumentTypes
        /\ DocumentTypes[2] = "component-definition" /\ 2 \in DOMAIN DocumentTypes
        /\ DocumentTypes[4] = "assessment-plan" /\ 4 \in DOMAIN DocumentTypes
    BY DEF DocumentTypes
  <2>2. {"assessment-results", "component-definition", "assessment-plan"}
          \subseteq Range(DocumentTypes)
    BY <2>1 DEF Range
  <2>3. \A d \in NamedValues["document_type"] : NormalizeDocumentType(d) # ""
    BY <1>2, <2>2 DEF NormalizeDocumentType
  <2>4. QED
    BY <1>3, <2>3 DEF ProjectOscal
<1> DEFINE given == name \in DOMAIN listTools /\ \A x \in listTools[name] : a[x] # ""
           named == \A x \in listTools[name] \cap DOMAIN NamedValues : a[x] \in NamedValues[x]
           got == callTool(name, a)
<1>7. ASSUME name \in {"get_assurance_state", "explain_claim", "detect_drift"}
      PROVE  got.ok <=> given
  <2>1. PICK body : got = Requiring(a["subject"], Text(body))
    BY <1>7 DEF callTool
  <2>2. given <=> a["subject"] # ""
    BY <1>1, <1>7
  <2> HIDE DEF given, got
  <2>3. QED
    BY <1>3, <1>4, <2>1, <2>2, Zenon
<1>8. ASSUME name = "validate_oscal"
      PROVE  got.ok => given
  <2>1. PICK r : got = Requiring(a["content"], r)
    BY <1>8 DEF callTool
  <2>2. given <=> a["content"] # ""
    BY <1>1, <1>8
  <2> HIDE DEF given, got
  <2>3. QED
    BY <1>4, <2>1, <2>2, Zenon
<1>9. ASSUME name = "scaffold_compliance"
      PROVE  (got.ok => given) /\ (given /\ named => got.ok)
  <2>1. got = Requiring(a["profile"],
          IF GenerateScaffold(a["profile"]) = {} THEN Failure ELSE Text("manifests"))
    BY <1>9 DEF callTool
  <2>2. given <=> a["profile"] # ""
    BY <1>1, <1>9
  <2>3. named => a["profile"] \in NamedValues["profile"]
    BY <1>1, <1>2, <1>9
  <2> HIDE DEF given, named, got
  <2>4. QED
    BY <1>3, <1>4, <1>5, <2>1, <2>2, <2>3, Zenon
<1>10. ASSUME name = "project_oscal"
       PROVE  (got.ok => given) /\ (given /\ named => got.ok)
  <2>1. got = Requiring(a["subject"],
          Requiring(a["document_type"], ProjectOscal(a["document_type"])))
    BY <1>10 DEF callTool
  <2>2. given <=> a["subject"] # "" /\ a["document_type"] # ""
    BY <1>1, <1>10
  <2>3. named => a["document_type"] \in NamedValues["document_type"]
    BY <1>1, <1>2, <1>10
  <2> DEFINE inner == Requiring(a["document_type"], ProjectOscal(a["document_type"]))
  <2>4. /\ inner.ok => a["document_type"] # ""
        /\ a["document_type"] # "" => inner = ProjectOscal(a["document_type"])
    BY <1>4, Zenon
  <2>5. got = Requiring(a["subject"], inner)
    BY <2>1
  <2> HIDE DEF given, named, got, inner
  <2>6. /\ got.ok => a["subject"] # "" /\ inner.ok
        /\ a["subject"] # "" => got = inner
    BY <1>4, <2>5, Zenon
  <2>7. QED
    BY <1>6, <2>2, <2>3, <2>4, <2>6, Zenon
<1>11. ASSUME name = "run_doctor"
       PROVE  got.ok /\ given
  <2>1. got = Text("checks")
    BY <1>11 DEF callTool
  <2>2. given
    BY <1>1, <1>11
  <2> HIDE DEF given, got
  <2>3. QED
    BY <1>3, <2>1, <2>2, Zenon
<1>12. ASSUME name \notin DOMAIN listTools
       PROVE  ~got.ok /\ ~given
  <2>1. got = Failure
    BY <1>1, <1>12 DEF callTool
  <2>2. ~given
    BY <1>12
  <2> HIDE DEF given, got
  <2>3. QED
    BY <1>3, <2>1, <2>2, Zenon
<1>13. name \in DOMAIN listTools
         => \/ name \in {"get_assurance_state", "explain_claim", "detect_drift"}
            \/ name \in {"validate_oscal"} \/ name = "scaffold_compliance"
            \/ name = "project_oscal" \/ name = "run_doctor"
  BY <1>1
<1>14. name \in {"validate_oscal"} <=> name = "validate_oscal"
  OBVIOUS
<1>15. (got.ok => given) /\ (given /\ named /\ name # "validate_oscal" => got.ok)
  <2> HIDE DEF got, given, named
  <2>1. QED
    BY <1>7, <1>8, <1>9, <1>10, <1>11, <1>12, <1>13, <1>14, Zenon
<1> QED
  BY <1>15, Zenon

\* A line that is owed an answer gets one that suits it, and no other gets any.
LEMMA RepliesSuit ==
    ASSUME NEW l, l.form \in {"blank", "broken", "message"}
    PROVE  /\ Owed(l) => \E answer : Replies(l) = <<answer>> /\ Suits(answer, l)
           /\ ~Owed(l) => Replies(l) = <<>>
<1>1. CASE l.form = "blank"
  BY <1>1 DEF Owed, Replies
<1>2. CASE l.form = "broken"
  <2>1. Replies(l) = <<Answer(0, Failure)>>
    BY <1>2 DEF Replies
  <2>2. Suits(Answer(0, Failure), l)
    BY <1>2 DEF Suits, Answer
  <2>3. QED
    BY <1>2, <2>1, <2>2 DEF Owed
<1>3. CASE l.form = "message"
  <2>1. Replies(l) = handleRequest(l)
    BY <1>3 DEF Replies
  <2>2. CASE l.id = 0
    BY <1>3, <2>1, <2>2 DEF Owed, handleRequest
  <2>3. CASE l.id # 0
    <3> DEFINE result ==
          CASE l.method \in {"initialize", "ping", "tools/list"} -> Text(l.method)
            [] l.method = "tools/call" /\ l.paramsParse -> callTool(l.tool, l.arguments)
            [] OTHER -> Failure
    <3>1. Replies(l) = <<Answer(l.id, result)>>
      BY <2>1, <2>3 DEF handleRequest
    <3>2. ASSUME l.method = "tools/call"
          PROVE  /\ result.ok => Complete(l)
                 /\ (Advertised(l) /\ l.tool # "validate_oscal") => result.ok
      <4>1. CASE l.paramsParse
        <5>1. result = callTool(l.tool, l.arguments)
          BY <3>2, <4>1
        <5> HIDE DEF result
        <5>2. QED
          BY <4>1, <5>1, ToolsAsListed DEF Complete, Advertised
      <4>2. CASE ~l.paramsParse
        <5>1. result = Failure
          BY <3>2, <4>2
        <5> HIDE DEF result
        <5>2. QED
          BY <4>2, <5>1 DEF Failure, Complete, Advertised
      <4>3. QED
        BY <4>1, <4>2
    <3> HIDE DEF result
    <3>3. Answer(l.id, result).id = l.id /\ Answer(l.id, result).ok = result.ok
      BY DEF Answer
    <3>4. Suits(Answer(l.id, result), l)
      BY <1>3, <3>2, <3>3 DEF Suits
    <3>5. QED
      BY <1>3, <2>3, <3>1, <3>4 DEF Owed
  <2>4. QED
    BY <2>2, <2>3
<1> QED
  BY <1>1, <1>2, <1>3

\* Nothing is asked and nothing answered at first.
LEMMA InitMcpInv == McpInit => McpInv
<1>1. IsList(<<>>) /\ DOMAIN <<>> = {}
  <2>1. Len(<<>>) = 0 /\ DOMAIN <<>> = {} /\ <<>> = [i \in 1 .. 0 |-> <<>>[i]]
    OBVIOUS
  <2>2. QED
    BY <2>1 DEF IsList
<1> QED
  BY <1>1 DEF McpInit, McpInv

\* The client writes lines.
LEMMA SendInv ==
    ASSUME McpInv, NEW m \in Messages, Send(m)
    PROVE  McpInv'
<1> DEFINE number == IF m.id = 0 THEN 0 ELSE sent + 1
           l == [m EXCEPT !.id = number]
<1>1. inbox' = Append(inbox, l) /\ UNCHANGED <<answers, asked>>
  BY DEF Send
<1>2. /\ m = [form |-> m.form, id |-> m.id, method |-> m.method,
              paramsParse |-> m.paramsParse, tool |-> m.tool, arguments |-> m.arguments]
      /\ m.form \in {"blank", "broken", "huge", "message"}
  BY McpAssumption
<1> HIDE DEF number
<1>3. l = [form |-> m.form, id |-> number, method |-> m.method,
           paramsParse |-> m.paramsParse, tool |-> m.tool, arguments |-> m.arguments]
  BY <1>2
<1> HIDE DEF l
<1>4. /\ l.form = m.form /\ l.id = number /\ l.method = m.method
      /\ l.paramsParse = m.paramsParse /\ l.tool = m.tool /\ l.arguments = m.arguments
  BY <1>3
<1>5. IsLine(l)
  BY <1>2, <1>3, <1>4, Zenon DEF IsLine
<1>6. IsList(inbox)
  BY DEF McpInv
<1>7. /\ IsList(inbox') /\ DOMAIN inbox = 1 .. Len(inbox)
      /\ DOMAIN inbox' = 1 .. (Len(inbox) + 1)
      /\ \A j \in 1 .. Len(inbox) : inbox'[j] = inbox[j]
      /\ inbox'[Len(inbox) + 1] = l
  BY <1>1, <1>6, ListAppend
<1>8. \A j \in DOMAIN inbox' : j \in 1 .. Len(inbox) \/ j = Len(inbox) + 1
  BY <1>6, <1>7 DEF IsList
<1>9. \A j \in DOMAIN inbox' : IsLine(inbox'[j])
  BY <1>5, <1>7, <1>8 DEF McpInv
<1> QED
  BY <1>1, <1>7, <1>9 DEF McpInv

\* The server reads a line, and answers it if it owes one.
LEMMA ReadLineInv ==
    ASSUME McpInv, ReadLine
    PROVE  McpInv'
<1> DEFINE l == Head(inbox)
<1>1. inbox # <<>> /\ inbox' = Tail(inbox)
  BY DEF ReadLine
<1>2. IsList(inbox) /\ IsList(answers) /\ IsList(asked)
  BY DEF McpInv
<1>3. /\ 1 \in DOMAIN inbox /\ l = inbox[1]
      /\ IsList(inbox')
      /\ \A j \in DOMAIN inbox' : j + 1 \in DOMAIN inbox /\ inbox'[j] = inbox[j + 1]
  BY <1>1, <1>2, ListTail
<1>4. IsLine(l) /\ \A j \in DOMAIN inbox' : IsLine(inbox'[j])
  BY <1>3 DEF McpInv
<1>5. CASE UNCHANGED <<answers, asked>>
  BY <1>3, <1>4, <1>5 DEF McpInv
<1>6. CASE ~UNCHANGED <<answers, asked>>
  <2>1. /\ l.form # "huge"
        /\ answers' = answers \o Replies(l)
        /\ asked' = IF Owed(l) THEN Append(asked, l) ELSE asked
    BY <1>6 DEF ReadLine
  <2>2. l.form \in {"blank", "broken", "message"}
    BY <1>4, <2>1 DEF IsLine
  <2> HIDE DEF l
  <2>3. CASE ~Owed(l)
    <3>1. Replies(l) = <<>>
      BY <2>2, <2>3, RepliesSuit
    <3>2. UNCHANGED <<answers, asked>>
      BY <1>2, <2>1, <2>3, <3>1, ListConcat
    <3>3. QED
      BY <1>6, <3>2
  <2>4. CASE Owed(l)
    <3>1. PICK x : Replies(l) = <<x>> /\ Suits(x, l)
      BY <2>2, <2>4, RepliesSuit
    <3>2. answers' = Append(answers, x) /\ asked' = Append(asked, l)
      BY <1>2, <2>1, <2>4, <3>1, ListConcat
    <3>3. /\ IsList(answers') /\ DOMAIN answers = 1 .. Len(answers)
          /\ DOMAIN answers' = 1 .. (Len(answers) + 1)
          /\ \A j \in 1 .. Len(answers) : answers'[j] = answers[j]
          /\ answers'[Len(answers) + 1] = x
      BY <1>2, <3>2, ListAppend
    <3>4. /\ IsList(asked') /\ DOMAIN asked = 1 .. Len(asked)
          /\ DOMAIN asked' = 1 .. (Len(asked) + 1)
          /\ \A j \in 1 .. Len(asked) : asked'[j] = asked[j]
          /\ asked'[Len(asked) + 1] = l
      BY <1>2, <3>2, ListAppend
    <3>5. Len(answers) = Len(asked) /\ Len(asked) \in Nat
      <4>1. Len(answers) \in Nat /\ Len(asked) \in Nat /\ 1 .. Len(answers) = 1 .. Len(asked)
        BY <1>2, <3>3, <3>4 DEF McpInv, IsList
      <4>2. QED
        BY <4>1, SameLength
    <3>6. ASSUME NEW j \in DOMAIN asked'
          PROVE  Suits(answers'[j], asked'[j])
      <4>1. CASE j \in 1 .. Len(asked)
        BY <3>3, <3>4, <3>5, <4>1 DEF McpInv
      <4>2. CASE j = Len(asked) + 1
        BY <3>1, <3>3, <3>4, <3>5, <4>2
      <4>3. QED
        BY <3>4, <3>5, <4>1, <4>2
    <3>7. DOMAIN answers' = DOMAIN asked'
      BY <3>3, <3>4, <3>5
    <3>8. QED
      BY <1>3, <1>4, <3>3, <3>4, <3>6, <3>7 DEF McpInv
  <2>5. QED
    BY <2>3, <2>4
<1> QED
  BY <1>5, <1>6

\* The server answers what it is asked, in that order, once each and as its
\* list of tools says, whatever clients send, cancel and close.
THEOREM McpAnswersAsAdvertised == McpSpec => []AnsweredAsAdvertised
<1>1. McpInv => AnsweredAsAdvertised
  <2> SUFFICES ASSUME McpInv
               PROVE  AnsweredAsAdvertised
    OBVIOUS
  <2>1. Len(answers) = Len(asked)
    <3>1. /\ Len(answers) \in Nat /\ Len(asked) \in Nat
          /\ DOMAIN answers = 1 .. Len(answers) /\ DOMAIN asked = 1 .. Len(asked)
      BY DEF McpInv, IsList
    <3>2. 1 .. Len(answers) = 1 .. Len(asked)
      BY <3>1 DEF McpInv
    <3>3. QED
      BY <3>1, <3>2, SameLength
  <2>2. QED
    BY <2>1 DEF McpInv, Suits, AnsweredAsAdvertised
<1>2. McpInv /\ [McpNext]_mcpVars => McpInv'
  <2> SUFFICES ASSUME McpInv, [McpNext]_mcpVars
               PROVE  McpInv'
    OBVIOUS
  <2>1. CASE CloseInput \/ CancelContext \/ EndOfInput \/ UNCHANGED mcpVars
    <3>1. UNCHANGED <<inbox, answers, asked>>
      BY <2>1 DEF CloseInput, CancelContext, EndOfInput, mcpVars
    <3>2. QED
      BY <3>1 DEF McpInv
  <2>2. QED
    BY <2>1, SendInv, ReadLineInv DEF McpNext
<1> QED
  BY <1>1, <1>2, InitMcpInv, PTL DEF McpSpec

-----------------------------------------------------------------------------

(***************************************************************************)
(* OSCAL documents.  The document at hand is blank, another tool's or a    *)
(* projection; the report is about it; and a manifest holds what came of   *)
(* the last document with its title.                                       *)
(***************************************************************************)
AllAssessments == Assessments \cup {<<ToolEvaluation>>}
AllReported == Reported \cup {<<>>}

Exported(s, f, d) ==
    \/ d = ProjectAssessmentResults(s, f)
    \/ d = ProjectComponentDefinition(<<"a">>, s)
    \/ d = ProjectSSP(<<"A", ".">>, s)
    \/ d = ProjectAssessmentPlan(s)
    \/ d = ProjectPOAM(f)

DocumentInv ==
    \/ document = Blank
    \/ document \in Foreign
    \/ \E s \in AllAssessments, f \in AllReported : Exported(s, f, document)

ReportedInv ==
    \/ report = NoReport
    \/ \E o \in {"auto", "ar", "cd", "ssp", "ap", "poam", "other"} :
         report = Validate(document, o)

\* The props that a document has are lists.
Listed(d) ==
    \A i \in DOMAIN AskedBy(d) : \A k \in DOMAIN AskedBy(d)[i].requirements :
      IsList(AskedBy(d)[i].requirements[k].props)

ImportsInv ==
    /\ IsList(ingested)
    /\ \A n \in DOMAIN ingested :
         /\ IngestOSCAL(ingested[n]).type # "" /\ Listed(ingested[n])
         /\ NotOverwritten(n) =>
              /\ ManifestFile(ingested[n]) \in DOMAIN manifests
              /\ manifests[ManifestFile(ingested[n])] = IngestOSCAL(ingested[n]).bound

OscalInv == DocumentInv /\ ReportedInv /\ ImportsInv

\* The fields of documents that the properties look at.
Projected(s, f, d) ==
    /\ d.roots = {"assessment-results"} /\ d.identified /\ d.title = <<"r">>
    /\ d.observations = [i \in DOMAIN s |-> Observation(s[i], i)]
    /\ d.resources = BackMatter(s)
    /\ d.findings = [i \in DOMAIN f |->
         [title |-> f[i].title, target |-> f[i].control.id,
          related |-> RelatedObservations(f[i], [j \in DOMAIN s |-> Observation(s[j], j)])]]
    /\ d.dates = ResultDates(s) /\ (s # <<>> => ~ d.hollow)
    /\ d.origin = Origin(s, f)

\* A fresh document.
Fresh(root, title, identified, hollow) ==
    [roots |-> {root}, identified |-> identified, title |-> title, system |-> <<>>,
     components |-> <<>>, requirements |-> <<>>, observations |-> <<>>, resources |-> {},
     findings |-> <<>>, tasks |-> <<>>, items |-> <<>>, dates |-> {},
     hollow |-> hollow, origin |-> NoOrigin]

PlainDocument(roots, title, none, nil, identified, hollow, origin) ==
    [roots |-> roots, identified |-> identified, title |-> title, system |-> nil,
     components |-> nil, requirements |-> nil, observations |-> nil, resources |-> none,
     findings |-> nil, tasks |-> nil, items |-> nil, dates |-> none,
     hollow |-> hollow, origin |-> origin]

Titled(d, u, t) == [d EXCEPT !.roots = u, !.title = t]

\* A blank document that is given its root and its title, field by field.
LEMMA PlainFields ==
    ASSUME NEW u, NEW t, NEW none, NEW nil, NEW yes, NEW no, NEW org
    PROVE  Titled(PlainDocument(none, nil, none, nil, yes, no, org), u, t)
             = PlainDocument(u, t, none, nil, yes, no, org)
<1> DEFINE a == PlainDocument(none, nil, none, nil, yes, no, org)
           b == [a EXCEPT !.roots = u]
<1>1. b = PlainDocument(u, nil, none, nil, yes, no, org)
  BY DEF PlainDocument
<1>2. Titled(a, u, t) = [b EXCEPT !.title = t]
  BY DEF PlainDocument, Titled
<1> HIDE DEF b
<1>3. [b EXCEPT !.title = t] = PlainDocument(u, t, none, nil, yes, no, org)
  BY <1>1 DEF PlainDocument
<1> QED
  BY <1>2, <1>3, Zenon

\* What Document makes, field by field.
LEMMA DocumentFields ==
    ASSUME NEW root, NEW title
    PROVE  Document(root, title) = Fresh(root, title, TRUE, FALSE)
<1> DEFINE yes == TRUE
           no == FALSE
           none == {}
           nil == <<>>
           org == NoOrigin
<1>1. Blank = PlainDocument(none, nil, none, nil, yes, no, org)
  BY Zenon DEF Blank, PlainDocument
<1>2. Document(root, title)
        = Titled(PlainDocument(none, nil, none, nil, yes, no, org), {root}, title)
  BY <1>1, Zenon DEF Document, Titled
<1>3. Fresh(root, title, yes, no) = PlainDocument({root}, title, none, nil, yes, no, org)
  BY Zenon DEF Fresh, PlainDocument
<1> HIDE DEF yes, no, none, nil, org
<1>4. Document(root, title) = Fresh(root, title, yes, no)
  <2>1. Titled(PlainDocument(none, nil, none, nil, yes, no, org), {root}, title)
          = PlainDocument({root}, title, none, nil, yes, no, org)
    BY PlainFields
  <2>2. QED
    BY <1>2, <1>3, <2>1, Zenon
<1> QED
  BY <1>4, Zenon DEF yes, no

\* The fields of projected assessment results.
LEMMA ProjectedResults ==
    ASSUME NEW s, NEW f
    PROVE  Projected(s, f, ProjectAssessmentResults(s, f))
<1> DEFINE o == [i \in DOMAIN s |-> Observation(s[i], i)]
           r == BackMatter(s)
           g == [i \in DOMAIN f |-> [title |-> f[i].title, target |-> f[i].control.id,
                                     related |-> RelatedObservations(f[i], o)]]
           w == ResultDates(s)
           h == s = <<>>
           from == Origin(s, f)
           yes == TRUE
           no == FALSE
           b == Fresh("assessment-results", <<"r">>, yes, no)
           d == [b EXCEPT !.observations = o, !.resources = r, !.findings = g,
                          !.dates = w, !.hollow = h, !.origin = from]
<1>1. Document("assessment-results", <<"r">>) = b
  BY DocumentFields, Zenon
<1>2. ProjectAssessmentResults(s, f)
        = [Document("assessment-results", <<"r">>) EXCEPT
             !.observations = o, !.resources = r, !.findings = g,
             !.dates = w, !.hollow = h, !.origin = from]
  BY Zenon DEF ProjectAssessmentResults
<1>3. ProjectAssessmentResults(s, f) = d
  BY <1>1, <1>2, Zenon
<1>4. s # <<>> => ~ h
  OBVIOUS
<1> HIDE DEF o, r, g, w, h, from, yes, no
<1>5. /\ d.roots = {"assessment-results"} /\ d.identified = yes /\ d.observations = o
      /\ d.resources = r /\ d.findings = g /\ d.origin = from
      /\ d.title = <<"r">> /\ d.dates = w /\ d.hollow = h
  BY DEF Fresh
<1> HIDE DEF d
<1>6. d.identified /\ (s # <<>> => ~ d.hollow)
  BY <1>4, <1>5 DEF yes
<1>7. Projected(s, f, d)
  BY <1>5, <1>6, Zenon DEF Projected, o, r, g, w, from
<1> QED
  BY <1>3, <1>7, Zenon

\* The requirements of an exported component.
ExportedRequirements(s) ==
    [i \in DOMAIN s |->
       Implemented(IF s[i].control.id = <<>> THEN <<s[i].control.namespace, "_">>
                   ELSE s[i].control.id)]

\* What a component definition has from the evaluations it projects.
AsComponents(name, s, d) ==
    /\ d.roots = {"component-definition"} /\ d.identified
    /\ d.title = <<"c", " ">> \o name
    /\ d.components = <<[title |-> name, requirements |-> ExportedRequirements(s)]>>
    /\ d.dates = {} /\ (s # <<>> => ~ d.hollow) /\ d.origin = Origin(s, <<>>)

\* The fields of a projected component definition.
LEMMA ProjectedComponents ==
    ASSUME NEW name, NEW s, NEW d, d = ProjectComponentDefinition(name, s)
    PROVE  AsComponents(name, s, d)
<1> DEFINE c == <<[title |-> name, requirements |-> ExportedRequirements(s)]>>
           t == <<"c", " ">> \o name
           h == s = <<>>
           from == Origin(s, <<>>)
           yes == TRUE
           no == FALSE
           b == Fresh("component-definition", t, yes, no)
           e == [b EXCEPT !.components = c, !.hollow = h, !.origin = from]
<1>1. Document("component-definition", t) = b
  BY DocumentFields, Zenon
<1>2. d = [Document("component-definition", t) EXCEPT
             !.components = c, !.hollow = h, !.origin = from]
  BY Zenon DEF ProjectComponentDefinition, ExportedRequirements
<1>3. d = e
  BY <1>1, <1>2, Zenon
<1>4. s # <<>> => ~ h
  OBVIOUS
<1> HIDE DEF c, t, h, from, yes, no
<1>5. /\ e.roots = {"component-definition"} /\ e.identified = yes /\ e.components = c
      /\ e.title = t /\ e.dates = {} /\ e.hollow = h /\ e.origin = from
  BY DEF Fresh
<1> HIDE DEF e
<1>6. d.identified /\ (s # <<>> => ~ d.hollow)
  BY <1>3, <1>4, <1>5 DEF yes
<1> QED
  BY <1>3, <1>5, <1>6, Zenon DEF AsComponents, c, t, from

\* The requirements of an exported plan.
PlannedRequirements(s) == [i \in DOMAIN s |-> Implemented(s[i].control.id)]

\* What a plan has from the evaluations it projects.
AsPlan(name, s, d) ==
    /\ d.roots = {"system-security-plan"} /\ d.identified
    /\ d.title = <<"s", " ">> \o name /\ d.system = name
    /\ d.requirements = PlannedRequirements(s)
    /\ d.dates = {} /\ (s # <<>> => ~ d.hollow) /\ d.origin = Origin(s, <<>>)

\* The fields of a projected system security plan.
LEMMA ProjectedPlan ==
    ASSUME NEW name, NEW s, NEW d, d = ProjectSSP(name, s)
    PROVE  AsPlan(name, s, d)
<1> DEFINE r == PlannedRequirements(s)
           t == <<"s", " ">> \o name
           h == s = <<>>
           from == Origin(s, <<>>)
           yes == TRUE
           no == FALSE
           b == Fresh("system-security-plan", t, yes, no)
           e == [b EXCEPT !.system = name, !.requirements = r, !.hollow = h, !.origin = from]
<1>1. Document("system-security-plan", t) = b
  BY DocumentFields, Zenon
<1>2. d = [Document("system-security-plan", t) EXCEPT
             !.system = name, !.requirements = r, !.hollow = h, !.origin = from]
  BY Zenon DEF ProjectSSP, PlannedRequirements
<1>3. d = e
  BY <1>1, <1>2, Zenon
<1>4. s # <<>> => ~ h
  OBVIOUS
<1> HIDE DEF r, t, h, from, yes, no
<1>5. /\ e.roots = {"system-security-plan"} /\ e.identified = yes /\ e.requirements = r
      /\ e.title = t /\ e.system = name /\ e.dates = {} /\ e.hollow = h
      /\ e.origin = from
  BY DEF Fresh
<1> HIDE DEF e
<1>6. d.identified /\ (s # <<>> => ~ d.hollow)
  BY <1>3, <1>4, <1>5 DEF yes
<1> QED
  BY <1>3, <1>5, <1>6, Zenon DEF AsPlan, r, t, from

\* The documents that project evaluations as implemented requirements are no
\* assessment results.
LEMMA ProjectedRoots ==
    ASSUME NEW name, NEW s
    PROVE  /\ "assessment-results" \notin ProjectComponentDefinition(name, s).roots
           /\ "assessment-results" \notin ProjectSSP(name, s).roots
<1>1. ASSUME NEW d, d = ProjectComponentDefinition(name, s)
      PROVE  d.roots = {"component-definition"}
  <2>1. AsComponents(name, s, d)
    BY <1>1, ProjectedComponents, Zenon
  <2> QED
    BY <2>1, Zenon DEF AsComponents
<1>2. ASSUME NEW d, d = ProjectSSP(name, s)
      PROVE  d.roots = {"system-security-plan"}
  <2>1. AsPlan(name, s, d)
    BY <1>2, ProjectedPlan, Zenon
  <2> QED
    BY <2>1, Zenon DEF AsPlan
<1>3. "assessment-results" \notin {"component-definition"} /\
      "assessment-results" \notin {"system-security-plan"}
  OBVIOUS
<1> QED
  BY <1>1, <1>2, <1>3, Zenon

\* The fields of a projected assessment plan.
LEMMA ProjectedTasks ==
    ASSUME NEW s, NEW d, d = ProjectAssessmentPlan(s)
    PROVE  /\ d.roots = {"assessment-plan"} /\ d.identified /\ d.title = <<"a">>
           /\ d.dates = {} /\ ~ d.hollow /\ d.origin = Origin(<<>>, <<>>)
<1> DEFINE from == Origin(<<>>, <<>>)
           yes == TRUE
           no == FALSE
           b == Fresh("assessment-plan", <<"a">>, yes, no)
           e == [b EXCEPT !.tasks = s, !.origin = from]
<1>1. Document("assessment-plan", <<"a">>) = b
  BY DocumentFields, Zenon
<1>2. d = e
  BY <1>1, Zenon DEF ProjectAssessmentPlan
<1> HIDE DEF from, yes, no
<1>3. /\ e.roots = {"assessment-plan"} /\ e.identified = yes /\ e.title = <<"a">>
      /\ e.dates = {} /\ e.hollow = no /\ e.origin = from
  BY DEF Fresh
<1> HIDE DEF e
<1>4. d.identified /\ ~ d.hollow
  BY <1>2, <1>3 DEF yes, no
<1> QED
  BY <1>2, <1>3, <1>4, Zenon DEF from

\* The item of a finding.
ItemOf(finding) ==
    [title |-> finding.title,
     values |-> {<<":">> \o finding.control.id, finding.severity}]

ItemsOf(f) ==
    IF f = <<>> THEN <<[title |-> <<"p">>, values |-> {<<"satisfied">>}]>>
    ELSE [i \in DOMAIN f |-> ItemOf(f[i])]

\* The fields of a projected plan of action and milestones.
LEMMA ProjectedItems ==
    ASSUME NEW f, NEW d, d = ProjectPOAM(f)
    PROVE  /\ d.roots = {"plan-of-action-and-milestones"} /\ d.identified
           /\ d.title = <<"p">> /\ d.items = ItemsOf(f)
           /\ d.dates = {} /\ ~ d.hollow /\ d.origin = Origin(<<>>, f)
<1> DEFINE from == Origin(<<>>, f)
           i == ItemsOf(f)
           yes == TRUE
           no == FALSE
           b == Fresh("plan-of-action-and-milestones", <<"p">>, yes, no)
           e == [b EXCEPT !.items = i, !.origin = from]
<1>1. Document("plan-of-action-and-milestones", <<"p">>) = b
  BY DocumentFields, Zenon
<1>2. d = [Document("plan-of-action-and-milestones", <<"p">>) EXCEPT
             !.items = i, !.origin = from]
  BY Zenon DEF ProjectPOAM, ItemsOf, ItemOf
<1>3. d = e
  BY <1>1, <1>2, Zenon
<1> HIDE DEF from, i, yes, no
<1>4. /\ e.roots = {"plan-of-action-and-milestones"} /\ e.identified = yes
      /\ e.title = <<"p">> /\ e.items = i
      /\ e.dates = {} /\ e.hollow = no /\ e.origin = from
  BY DEF Fresh
<1> HIDE DEF e
<1>5. d.identified /\ ~ d.hollow
  BY <1>3, <1>4 DEF yes, no
<1> QED
  BY <1>3, <1>4, <1>5, Zenon DEF from, i

\* The documents that project no evaluation are no assessment results.
LEMMA ProjectedOthers ==
    ASSUME NEW d, \/ d = Blank
                  \/ \E s : d = ProjectAssessmentPlan(s)
                  \/ \E f : d = ProjectPOAM(f)
    PROVE  "assessment-results" \notin d.roots
<1>1. CASE d = Blank
  BY <1>1 DEF Blank
<1>2. ASSUME NEW s, d = ProjectAssessmentPlan(s)
      PROVE  "assessment-results" \notin d.roots
  <2>1. d.roots = {"assessment-plan"} /\ d.identified
    BY <1>2, ProjectedTasks
  <2> QED
    BY <2>1
<1>3. ASSUME NEW f, d = ProjectPOAM(f)
      PROVE  "assessment-results" \notin d.roots
  <2>1. d.roots = {"plan-of-action-and-milestones"} /\ d.identified
    BY <1>3, ProjectedItems
  <2> QED
    BY <2>1
<1> QED
  BY <1>1, <1>2, <1>3

Types == {"assessment-results", "component-definition", "system-security-plan",
          "assessment-plan", "plan-of-action-and-milestones"}

\* A document with one root of a known type is taken for that type, and
\* nothing is ever taken for a type that is not known.
LEMMA DetectsTypes ==
    /\ \A t \in Types : DetectDocumentType({t}) = t
    /\ \A roots : DetectDocumentType(roots) \in Types \cup {""}
    /\ \A raw : NormalizeDocumentType(raw) \in Types \cup {""}
<1>1. /\ DOMAIN DocumentTypes = 1 .. 5
      /\ DocumentTypes[1] = "assessment-results"
      /\ DocumentTypes[2] = "component-definition"
      /\ DocumentTypes[3] = "system-security-plan"
      /\ DocumentTypes[4] = "assessment-plan"
      /\ DocumentTypes[5] = "plan-of-action-and-milestones"
  BY DEF DocumentTypes
<1>2. /\ \A i \in 1 .. 5 : DocumentTypes[i] \in Types
      /\ \A t \in Types : \E i \in 1 .. 5 : DocumentTypes[i] = t
      /\ \A i, j \in 1 .. 5 : DocumentTypes[i] = DocumentTypes[j] => i = j
  BY <1>1 DEF Types
<1>3. ASSUME NEW t \in Types
      PROVE  DetectDocumentType({t}) = t
  <2>1. PICK i \in 1 .. 5 : DocumentTypes[i] = t
    BY <1>2
  <2>2. {j \in DOMAIN DocumentTypes : DocumentTypes[j] \in {t}} = {i}
    BY <1>1, <1>2, <2>1
  <2>3. Min({i}) = i
    BY DEF Min
  <2>4. QED
    BY <2>1, <2>2, <2>3 DEF DetectDocumentType
<1>4. ASSUME NEW roots
      PROVE  DetectDocumentType(roots) \in Types \cup {""}
  <2> DEFINE present == {i \in DOMAIN DocumentTypes : DocumentTypes[i] \in roots}
  <2>1. CASE present = {}
    BY <2>1 DEF DetectDocumentType
  <2>2. CASE present # {}
    <3>1. present \subseteq Nat
      BY <1>1
    <3>2. \E k \in present : \A j \in present : k <= j
      BY <2>2, <3>1, LeastNumber
    <3>3. Min(present) \in present
      BY <3>2 DEF Min
    <3>4. DocumentTypes[Min(present)] \in Types
      BY <1>1, <1>2, <3>3
    <3>5. QED
      BY <2>2, <3>4 DEF DetectDocumentType
  <2>3. QED
    BY <2>1, <2>2
<1>5. ASSUME NEW raw
      PROVE  NormalizeDocumentType(raw) \in Types \cup {""}
  <2>1. \A x \in Range(DocumentTypes) : x \in Types
    BY <1>1, <1>2 DEF Range
  <2>2. QED
    BY <2>1 DEF NormalizeDocumentType, Types
<1> QED
  BY <1>3, <1>4, <1>5

\* A valid document has the one root of the type it is valid as.
LEMMA ValidDocuments ==
    ASSUME NEW d, NEW o, Validate(d, o).valid
    PROVE  LET t == Validate(d, o).type IN
           t \in Types /\ d.roots = {t} /\ d.identified
<1> DEFINE t == IF o \in {"", "auto"} THEN DetectDocumentType(d.roots)
                ELSE NormalizeDocumentType(o)
<1>1. t \in Types \cup {""}
  BY DetectsTypes
<1>2. Validate(d, o) = IF t = "" THEN [type |-> "", valid |-> FALSE]
                       ELSE [type |-> t, valid |-> SchemaAccepts(schemaFileMap(t), d)]
  BY DEF Validate
<1> HIDE DEF t
<1>3. CASE t = ""
  <2> DEFINE no == FALSE
  <2>1. Validate(d, o) = [type |-> "", valid |-> no]
    BY <1>2, <1>3
  <2>2. ~ no
    OBVIOUS
  <2> HIDE DEF no
  <2>3. Validate(d, o).valid = no
    <3>1. \A a, x, n : a = [type |-> x, valid |-> n] => a.valid = n
      OBVIOUS
    <3>2. QED
      BY <2>1, <3>1, Zenon
  <2>4. QED
    BY <2>2, <2>3
<1>4. CASE t # ""
  <2> DEFINE a == SchemaAccepts(schemaFileMap(t), d)
  <2>1. Validate(d, o) = [type |-> t, valid |-> a]
    BY <1>2, <1>4
  <2> HIDE DEF a
  <2>2. Validate(d, o).type = t /\ Validate(d, o).valid = a
    BY <2>1
  <2>3. SchemaAccepts(t, d)
    BY <2>2 DEF a, schemaFileMap
  <2>4. QED
    BY <1>1, <1>4, <2>2, <2>3 DEF SchemaAccepts
<1> QED
  BY <1>3, <1>4

\* A document with one known root whose schema accepts it is valid.
LEMMA AcceptedDocuments ==
    ASSUME NEW d, NEW t \in Types, d.roots = {t}, SchemaAccepts(t, d)
    PROVE  Validate(d, "auto").valid
<1> DEFINE a == SchemaAccepts(schemaFileMap(t), d)
<1>1. DetectDocumentType(d.roots) = t
  BY DetectsTypes
<1>2. t # ""
  BY DEF Types
<1>3. Validate(d, "auto") = [type |-> t, valid |-> a]
  BY <1>1, <1>2 DEF Validate
<1>4. a
  BY DEF schemaFileMap
<1> HIDE DEF a
<1>5. Validate(d, "auto").valid = a
  BY <1>3
<1> QED
  BY <1>4, <1>5

\* A sequence that is mapped is empty only if it was.
LEMMA MappedIsEmpty ==
    ASSUME NEW s, NEW t, DOMAIN t = DOMAIN s, s # <<>>, IsList(s)
    PROVE  t # <<>> /\ 1 \in DOMAIN s
<1>1. Len(s) \in Nat /\ s = [i \in 1 .. Len(s) |-> s[i]]
  BY DEF IsList
<1>2. DOMAIN s = 1 .. Len(s)
  BY <1>1
<1>3. Len(s) # 0
  <2> SUFFICES ASSUME Len(s) = 0
               PROVE  FALSE
    OBVIOUS
  <2>1. s = [i \in 1 .. 0 |-> s[i]]
    BY <1>1
  <2>2. [i \in 1 .. 0 |-> s[i]] = <<>>
    OBVIOUS
  <2>3. QED
    BY <2>1, <2>2
<1>4. 1 \in DOMAIN s
  BY <1>1, <1>2, <1>3
<1>5. DOMAIN <<>> = {}
  OBVIOUS
<1> QED
  BY <1>4, <1>5

\* Sequences are lists, the empty one too.
LEMMA SeqIsList ==
    /\ \A S : \A t \in Seq(S) : IsList(t)
    /\ IsList(<<>>)
<1>1. ASSUME NEW S, NEW t \in Seq(S)
      PROVE  IsList(t)
  BY DEF IsList
<1>2. <<>> \in Seq({})
  OBVIOUS
<1> QED
  BY <1>1, <1>2, Zenon

\* Records, field by field.
LEMMA IngestedFields ==
    \A a, x, n : a = [type |-> x, bound |-> n] => a.type = x /\ a.bound = n
OBVIOUS

\* The control and the props of an implemented requirement.
LEMMA ImplementedFields ==
    \A id : Implemented(id).control = id /\ Implemented(id).props = <<>>
<1> DEFINE nil == <<>>
<1>1. \A id : Implemented(id) = [control |-> id, props |-> nil]
  BY DEF Implemented
<1> HIDE DEF nil
<1>2. \A id : Implemented(id).control = id /\ Implemented(id).props = nil
  BY <1>1
<1> QED
  BY <1>2, Zenon DEF nil

\* The evaluations are lists of evaluations with lists of evidence.
LEMMA AssessmentLists ==
    ASSUME NEW s \in AllAssessments
    PROVE  /\ IsList(s)
           /\ \A i \in DOMAIN s : /\ IsList(s[i].evidence)
                                  /\ \E S : s[i].control.id \in Seq(S)
<1>1. ASSUME NEW S, NEW t \in Seq(S)
      PROVE  IsList(t)
  BY DEF IsList
<1>2. CASE s \in Assessments
  <2>1. s \in Seq({s[i] : i \in DOMAIN s})
    BY <1>2, OscalAssumption
  <2>2. ASSUME NEW i \in DOMAIN s
        PROVE  IsList(s[i].evidence) /\ \E S : s[i].control.id \in Seq(S)
    <3>1. /\ s[i].evidence \in Seq({s[i].evidence[k] : k \in DOMAIN s[i].evidence})
          /\ s[i].control.id \in Seq({s[i].control.id[k] : k \in DOMAIN s[i].control.id})
      BY <1>2, OscalAssumption
    <3>2. QED
      BY <1>1, <3>1, Zenon
  <2> QED
    BY <1>1, <2>1, <2>2, Zenon
<1>3. CASE s = <<ToolEvaluation>>
  <2> DEFINE e == ToolEvaluation
  <2>1. e.evidence = <<>> /\ e.control.id = <<"AC-6">>
    BY DEF ToolEvaluation
  <2>2. <<>> \in Seq({}) /\ <<"AC-6">> \in Seq({"AC-6"})
    OBVIOUS
  <2> HIDE DEF e
  <2>3. s = <<e>>
    BY <1>3 DEF e
  <2>4. s \in Seq({e}) /\ DOMAIN s = {1} /\ s[1] = e
    BY <2>3
  <2>5. IsList(s) /\ IsList(e.evidence)
    BY <1>1, <2>1, <2>2, <2>4, Zenon
  <2> QED
    BY <2>1, <2>2, <2>4, <2>5
<1> QED
  BY <1>2, <1>3 DEF AllAssessments

\* The findings are lists of findings of controls with lists for IDs.
LEMMA FindingLists ==
    ASSUME NEW f \in AllReported
    PROVE  IsList(f) /\ \A i \in DOMAIN f : \E S : f[i].control.id \in Seq(S)
<1>1. ASSUME NEW S, NEW t \in Seq(S)
      PROVE  IsList(t)
  BY DEF IsList
<1>2. CASE f \in Reported
  <2>1. /\ f \in Seq({f[i] : i \in DOMAIN f})
        /\ \A i \in DOMAIN f :
             f[i].control.id \in Seq({f[i].control.id[k] : k \in DOMAIN f[i].control.id})
    BY <1>2, OscalAssumption
  <2> QED
    BY <1>1, <2>1, Zenon
<1>3. CASE f = <<>>
  BY <1>3 DEF IsList
<1> QED
  BY <1>2, <1>3 DEF AllReported

\* Nothing is imported at first.
LEMMA InitOscalInv == OscalInit => OscalInv
<1> SUFFICES ASSUME OscalInit
             PROVE  OscalInv
  OBVIOUS
<1>1. DocumentInv /\ ReportedInv
  BY Zenon DEF OscalInit, DocumentInv, ReportedInv
<1>2. ingested = <<>>
  BY DEF OscalInit
<1>3. IsList(ingested) /\ DOMAIN ingested = {}
  BY <1>2 DEF IsList
<1>4. ImportsInv
  BY <1>3 DEF ImportsInv
<1> QED
  BY <1>1, <1>4 DEF OscalInv

\* Neither the document at hand nor the report about it matters for what was
\* imported.
LEMMA ImportsKept ==
    ASSUME ImportsInv, UNCHANGED <<manifests, ingested>>
    PROVE  ImportsInv'
<1>1. manifests' = manifests /\ ingested' = ingested
  OBVIOUS
<1> QED
  BY <1>1 DEF ImportsInv, NotOverwritten

\* The file of the newest document has what that document gave; the files of
\* other titles stay as they were.
LEMMA ImportKeepsOthers ==
    ASSUME ImportsInv, ImportDocument, Listed(document)
    PROVE  ImportsInv'
<1> DEFINE N == Len(ingested)
           whereto(d) == ManifestFile(d)
           given(d) == IngestOSCAL(d).bound
           taken(d) == IngestOSCAL(d).type # "" /\ Listed(d)
           here == whereto(document)
<1>1. /\ IsList(ingested) /\ taken(document)
      /\ ingested' = Append(ingested, document)
      /\ manifests' = [f \in DOMAIN manifests \cup {here} |->
                         IF f = here THEN given(document) ELSE manifests[f]]
  BY DEF ImportsInv, ImportDocument
<1>2. \A n \in DOMAIN ingested :
         /\ taken(ingested[n])
         /\ (\A m \in n + 1 .. N : whereto(ingested[m]) # whereto(ingested[n])) =>
              /\ whereto(ingested[n]) \in DOMAIN manifests
              /\ manifests[whereto(ingested[n])] = given(ingested[n])
  BY DEF ImportsInv, NotOverwritten
<1>3. /\ IsList(ingested')
      /\ N \in Nat /\ DOMAIN ingested = 1 .. N
      /\ DOMAIN ingested' = 1 .. (N + 1) /\ Len(ingested') = N + 1
      /\ \A j \in 1 .. N : ingested'[j] = ingested[j]
      /\ ingested'[N + 1] = document
  <2>1. N \in Nat
    BY <1>1 DEF IsList
  <2>2. /\ IsList(ingested') /\ DOMAIN ingested = 1 .. N
        /\ DOMAIN ingested' = 1 .. (N + 1)
        /\ \A j \in 1 .. N : ingested'[j] = ingested[j]
        /\ ingested'[N + 1] = document
    <3> DEFINE t == Append(ingested, document)
    <3>1. /\ IsList(t) /\ DOMAIN ingested = 1 .. N
          /\ DOMAIN t = 1 .. (N + 1)
          /\ \A j \in 1 .. N : t[j] = ingested[j]
          /\ t[N + 1] = document
      BY <1>1, ListAppend, Zenon
    <3> HIDE DEF t
    <3>2. QED
      BY <1>1, <3>1, Zenon DEF t
  <2>3. Len(ingested') \in Nat /\ DOMAIN ingested' = 1 .. Len(ingested')
    BY <2>2, ListAppend
  <2>4. Len(ingested') = N + 1
    BY <2>1, <2>2, <2>3
  <2> QED
    BY <2>1, <2>2, <2>4
<1> SUFFICES ASSUME NEW n \in DOMAIN ingested'
             PROVE  /\ taken(ingested'[n])
                    /\ (\A m \in n + 1 .. N + 1 : whereto(ingested'[m]) # whereto(ingested'[n])) =>
                         /\ whereto(ingested'[n]) \in DOMAIN manifests'
                         /\ manifests'[whereto(ingested'[n])] = given(ingested'[n])
  BY <1>3 DEF ImportsInv, NotOverwritten
<1> HIDE DEF whereto, given, taken
<1>4. CASE n = N + 1
  BY <1>1, <1>3, <1>4
<1>5. CASE n \in 1 .. N
  <2>1. ingested'[n] = ingested[n] /\ n \in DOMAIN ingested
    BY <1>3, <1>5
  <2>2. taken(ingested[n])
    BY <1>2, <2>1
  <2>3. ASSUME \A m \in n + 1 .. N + 1 : whereto(ingested'[m]) # whereto(ingested'[n])
        PROVE  /\ whereto(ingested[n]) \in DOMAIN manifests'
               /\ manifests'[whereto(ingested[n])] = given(ingested[n])
    <3>1. whereto(ingested[n]) # here
      BY <1>3, <1>5, <2>1, <2>3
    <3>2. \A m \in n + 1 .. N : whereto(ingested[m]) # whereto(ingested[n])
      BY <1>3, <1>5, <2>1, <2>3
    <3>3. /\ whereto(ingested[n]) \in DOMAIN manifests
          /\ manifests[whereto(ingested[n])] = given(ingested[n])
      BY <1>2, <2>1, <3>2
    <3>4. QED
      BY <1>1, <3>1, <3>3
  <2>4. QED
    BY <2>1, <2>2, <2>3
<1> QED
  BY <1>3, <1>4, <1>5

\* Ingestion takes a document with one known root for that type if it ingests
\* the type at all.
LEMMA IngestedType ==
    ASSUME NEW d, NEW t \in Types, d.roots = {t}, d.identified
    PROVE  IngestOSCAL(d).type =
             IF t \in {"component-definition", "system-security-plan"} THEN t ELSE ""
<1> DEFINE c == ingestComponentDefinition(d)
           p == ingestSSP(d)
<1>1. \A a, x, n : a = [type |-> x, bound |-> n] => a.type = x
  OBVIOUS
<1>2. CASE t = "component-definition"
  <2>1. IngestOSCAL(d) = [type |-> "component-definition", bound |-> c]
    BY <1>2 DEF IngestOSCAL
  <2>2. QED
    BY <1>1, <1>2, <2>1
<1>3. CASE t = "system-security-plan"
  <2>1. IngestOSCAL(d) = [type |-> "system-security-plan", bound |-> p]
    BY <1>3 DEF IngestOSCAL
  <2>2. QED
    BY <1>1, <1>3, <2>1
<1>4. CASE t \notin {"component-definition", "system-security-plan"}
  <2>1. IngestOSCAL(d) = [type |-> "", bound |-> <<>>]
    BY <1>4 DEF IngestOSCAL
  <2>2. QED
    BY <1>1, <1>4, <2>1
<1> QED
  BY <1>2, <1>3, <1>4

\* The one component, or the one part of a system security plan.
LEMMA OnlyPart ==
    \A a, x, n : a = <<[title |-> x, requirements |-> n]>>
                 => DOMAIN a = {1} /\ a[1].title = x /\ a[1].requirements = n
<1> SUFFICES ASSUME NEW a, NEW x, NEW n, a = <<[title |-> x, requirements |-> n]>>
             PROVE  DOMAIN a = {1} /\ a[1].title = x /\ a[1].requirements = n
  OBVIOUS
<1> DEFINE r == [title |-> x, requirements |-> n]
<1>1. r.title = x /\ r.requirements = n
  OBVIOUS
<1>2. a = <<r>>
  OBVIOUS
<1> HIDE DEF r
<1>3. DOMAIN a = {1} /\ a[1] = r
  BY <1>2
<1> QED
  BY <1>1, <1>3

\* What can be imported has lists of props: a foreign document by assumption,
\* OSKAL's own because they are empty.
LEMMA ImportedIsListed ==
    ASSUME DocumentInv, IngestOSCAL(document).type # ""
    PROVE  Listed(document)
<1> DEFINE known(d) == "component-definition" \in d.roots \/ "system-security-plan" \in d.roots
<1>1. known(document)
  <2> SUFFICES ASSUME ~ known(document)
               PROVE  FALSE
    OBVIOUS
  <2>3. /\ ~ ("component-definition" \in document.roots /\ document.identified)
        /\ ~ ("system-security-plan" \in document.roots /\ document.identified)
    OBVIOUS
  <2>1. IngestOSCAL(document) = [type |-> "", bound |-> <<>>]
    BY <2>3, Zenon DEF IngestOSCAL
  <2> QED
    BY <2>1, IngestedFields, Zenon
<1>2. IsList(<<>>) /\ \A id : Implemented(id).props = <<>>
  BY SeqIsList, ImplementedFields, Zenon
<1>3. CASE document = Blank
  BY <1>1, <1>3 DEF Blank
<1>4. CASE document \in Foreign
  <2>1. ASSUME NEW i \in DOMAIN AskedBy(document),
               NEW k \in DOMAIN AskedBy(document)[i].requirements
        PROVE  IsList(AskedBy(document)[i].requirements[k].props)
    <3> DEFINE props == AskedBy(document)[i].requirements[k].props
               S == {props[j] : j \in DOMAIN props}
    <3>1. props \in Seq(S)
      BY <1>4, OscalAssumption, Zenon
    <3> HIDE DEF props, S
    <3>2. IsList(props)
      BY <3>1, SeqIsList, Zenon
    <3> QED
      BY <3>2 DEF props
  <2> QED
    BY <2>1, Zenon DEF Listed
<1>5. ASSUME NEW s \in AllAssessments, NEW f \in AllReported, Exported(s, f, document)
      PROVE  Listed(document)
  <2>1. CASE document = ProjectAssessmentResults(s, f)
    <3>1. document.roots = {"assessment-results"} /\ document.identified
      BY <2>1, ProjectedResults, Zenon DEF Projected
    <3> QED
      BY <1>1, <3>1
  <2>2. CASE document = ProjectAssessmentPlan(s)
    <3>1. document.roots = {"assessment-plan"} /\ document.identified
      BY <2>2, ProjectedTasks
    <3> QED
      BY <1>1, <3>1
  <2>3. CASE document = ProjectPOAM(f)
    <3>1. document.roots = {"plan-of-action-and-milestones"} /\ document.identified
      BY <2>3, ProjectedItems
    <3> QED
      BY <1>1, <3>1
  <2>4. CASE document = ProjectComponentDefinition(<<"a">>, s)
    <3> DEFINE r == ExportedRequirements(s)
               name == <<"a">>
    <3>1. document = ProjectComponentDefinition(name, s)
      BY <2>4
    <3>2. DOMAIN r = DOMAIN s /\ \A k \in DOMAIN r : r[k].props = <<>>
      BY <1>2 DEF ExportedRequirements
    <3> HIDE DEF name, r
    <3>3. /\ document.roots = {"component-definition"} /\ document.identified
          /\ document.components = <<[title |-> name, requirements |-> r]>>
      <4>1. AsComponents(name, s, document)
        BY <3>1, ProjectedComponents, Zenon
      <4> QED
        BY <4>1, Zenon DEF AsComponents, r
    <3>4. AskedBy(document) = <<[title |-> name, requirements |-> r]>>
      BY <3>3 DEF AskedBy
    <3>5. DOMAIN AskedBy(document) = {1} /\ AskedBy(document)[1].requirements = r
      BY <3>4, OnlyPart, Zenon
    <3> QED
      BY <1>2, <3>2, <3>5 DEF Listed
  <2>5. CASE document = ProjectSSP(<<"A", ".">>, s)
    <3> DEFINE r == PlannedRequirements(s)
               name == <<"A", ".">>
    <3>1. document = ProjectSSP(name, s)
      BY <2>5
    <3>2. \A k \in DOMAIN r : r[k].props = <<>>
      BY <1>2 DEF PlannedRequirements
    <3> HIDE DEF name, r
    <3>3. /\ document.roots = {"system-security-plan"} /\ document.identified
          /\ document.requirements = r
      <4>1. AsPlan(name, s, document)
        BY <3>1, ProjectedPlan, Zenon
      <4> QED
        BY <4>1, Zenon DEF AsPlan, r
    <3>6. "component-definition" \notin {"system-security-plan"}
      OBVIOUS
    <3>4. AskedBy(document) = <<[title |-> document.system, requirements |-> r]>>
      BY <3>3, <3>6, Zenon DEF AskedBy
    <3>5. DOMAIN AskedBy(document) = {1} /\ AskedBy(document)[1].requirements = r
      BY <3>4, OnlyPart, Zenon
    <3> QED
      BY <1>2, <3>2, <3>5 DEF Listed
  <2> QED
    BY <1>5, <2>1, <2>2, <2>3, <2>4, <2>5, Zenon DEF Exported
<1> QED
  BY <1>3, <1>4, <1>5, Zenon DEF DocumentInv

\* Every step keeps where the document is from, what the report is about and
\* what the files have.
LEMMA StepOscalInv == OscalInv /\ [OscalNext]_oscalVars => OscalInv'
<1> SUFFICES ASSUME OscalInv, [OscalNext]_oscalVars
             PROVE  OscalInv'
  OBVIOUS
<1>1. DocumentInv /\ ReportedInv /\ ImportsInv
  BY DEF OscalInv
<1>2. ASSUME NEW d, Take(d)
      PROVE  document' = d /\ ReportedInv' /\ ImportsInv'
  <2>1. document' = d /\ report' = NoReport /\ UNCHANGED <<manifests, ingested>>
    BY <1>2 DEF Take
  <2>2. ReportedInv'
    BY <2>1, Zenon DEF ReportedInv, NoReport
  <2>3. ImportsInv'
    BY <1>1, <2>1, ImportsKept
  <2> QED
    BY <2>1, <2>2, <2>3
<1>3. CASE ExportDocument
  <2>1. PICK s \in Assessments, f \in Reported :
           \/ Take(ProjectAssessmentResults(s, f))
           \/ Take(ProjectComponentDefinition(<<"a">>, s))
           \/ Take(ProjectSSP(<<"A", ".">>, s))
           \/ Take(ProjectAssessmentPlan(s))
           \/ Take(ProjectPOAM(f))
    BY <1>3, Zenon DEF ExportDocument
  <2>2. Exported(s, f, document') /\ ReportedInv' /\ ImportsInv'
    BY <1>2, <2>1, Zenon DEF Exported
  <2>3. s \in AllAssessments /\ f \in AllReported
    BY DEF AllAssessments, AllReported
  <2>4. DocumentInv'
    BY <2>2, <2>3, Zenon DEF DocumentInv
  <2> QED
    BY <2>2, <2>4 DEF OscalInv
<1>8. CASE ExportByTool
  <2> DEFINE s == <<ToolEvaluation>>
             f == <<>>
  <2>1. \/ Take(ProjectAssessmentResults(s, f))
        \/ Take(ProjectComponentDefinition(<<"a">>, s))
        \/ Take(ProjectSSP(<<"A", ".">>, s))
    BY <1>8, Zenon DEF ExportByTool
  <2>2. s \in AllAssessments /\ f \in AllReported
    BY DEF AllAssessments, AllReported
  <2> HIDE DEF s, f
  <2>3. Exported(s, f, document') /\ ReportedInv' /\ ImportsInv'
    BY <1>2, <2>1, Zenon DEF Exported
  <2>4. DocumentInv'
    BY <2>2, <2>3, Zenon DEF DocumentInv
  <2> QED
    BY <2>3, <2>4 DEF OscalInv
<1>4. CASE ReceiveDocument
  <2>1. PICK d \in Foreign : Take(d)
    BY <1>4 DEF ReceiveDocument
  <2>2. document' \in Foreign /\ ReportedInv' /\ ImportsInv'
    BY <1>2, <2>1
  <2> QED
    BY <2>2 DEF OscalInv, DocumentInv
<1>5. CASE \E override \in {"auto", "ar", "cd", "ssp", "ap", "poam", "other"} :
              ValidateDocument(override)
  <2>1. PICK o \in {"auto", "ar", "cd", "ssp", "ap", "poam", "other"} : ValidateDocument(o)
    BY <1>5
  <2>2. report' = Validate(document, o) /\ document' = document
        /\ UNCHANGED <<manifests, ingested>>
    BY <2>1 DEF ValidateDocument
  <2>3. DocumentInv'
    BY <1>1, <2>2, Zenon DEF DocumentInv
  <2>4. ReportedInv'
    BY <2>2, Zenon DEF ReportedInv
  <2>5. ImportsInv'
    BY <1>1, <2>2, ImportsKept
  <2> QED
    BY <2>3, <2>4, <2>5 DEF OscalInv
<1>6. CASE ImportDocument
  <2>1. document' = document /\ report' = report
    BY <1>6 DEF ImportDocument
  <2>2. DocumentInv' /\ ReportedInv'
    BY <1>1, <2>1, Zenon DEF DocumentInv, ReportedInv
  <2>4. Listed(document)
    BY <1>1, <1>6, ImportedIsListed DEF ImportDocument
  <2>3. ImportsInv'
    BY <1>1, <1>6, <2>4, ImportKeepsOthers
  <2> QED
    BY <2>2, <2>3 DEF OscalInv
<1>7. CASE UNCHANGED oscalVars
  <2>1. document' = document /\ report' = report /\ UNCHANGED <<manifests, ingested>>
    BY <1>7 DEF oscalVars
  <2>2. DocumentInv' /\ ReportedInv'
    BY <1>1, <2>1, Zenon DEF DocumentInv, ReportedInv
  <2>3. ImportsInv'
    BY <1>1, <2>1, ImportsKept
  <2> QED
    BY <2>2, <2>3 DEF OscalInv
<1> QED
  BY <1>3, <1>4, <1>5, <1>6, <1>7, <1>8 DEF OscalNext

\* What begins with letters is not empty.
LEMMA JoinIsLine ==
    ASSUME NEW S, NEW a \in Seq(S), NEW b \in Seq(S), Len(a) # 0
    PROVE  IsMarkupLine(a \o b)
<1>1. Len(a) \in Nat /\ Len(b) \in Nat /\ Len(a \o b) = Len(a) + Len(b)
  OBVIOUS
<1>2. Len(a \o b) # 0
  BY <1>1
<1>3. Len(<<>>) = 0
  OBVIOUS
<1> DEFINE c == a \o b
<1> HIDE DEF c
<1>4. c # <<>>
  BY <1>2, <1>3 DEF c
<1> QED
  BY <1>4, Zenon DEF IsMarkupLine, c

\* A text that is put together begins as its first part does and ends as its
\* last one.
LEMMA JoinEnds ==
    ASSUME NEW S, NEW a \in Seq(S), NEW b \in Seq(S), Len(a) # 0, Len(b) # 0
    PROVE  /\ Len(a \o b) = Len(a) + Len(b)
           /\ (a \o b)[1] = a[1] /\ (a \o b)[Len(a) + Len(b)] = b[Len(b)]
OBVIOUS

\* A token after a colon is a string.
LEMMA NameIsString ==
    ASSUME NEW S, NEW id \in Seq(S), IsToken(id)
    PROVE  IsString(<<":">> \o id)
<1> DEFINE blank == " "
           colon == <<":">>
           W == S \cup {":"}
<1>1. id # <<>> /\ \A k \in DOMAIN id : id[k] # blank
  BY DEF IsToken
<1>2. id \in Seq(W) /\ colon \in Seq(W) /\ Len(colon) = 1 /\ colon[1] = ":" /\ ":" # blank
  OBVIOUS
<1>3. IsList(id)
  BY SeqIsList
<1>4. 1 \in DOMAIN id
  BY <1>1, <1>3, MappedIsEmpty, Zenon
<1> HIDE DEF blank, colon, W
<1>5. Len(id) \in Nat /\ Len(id) # 0 /\ DOMAIN id = 1 .. Len(id)
  BY <1>2, <1>4
<1> DEFINE name == colon \o id
<1>6. /\ Len(name) = 1 + Len(id)
      /\ name[1] = colon[1] /\ name[1 + Len(id)] = id[Len(id)]
  <2>1. Len(colon) # 0
    BY <1>2
  <2>2. /\ Len(name) = Len(colon) + Len(id)
        /\ name[1] = colon[1] /\ name[Len(colon) + Len(id)] = id[Len(id)]
    BY <1>2, <1>5, <2>1, JoinEnds, Zenon
  <2> QED
    BY <1>2, <2>2, Zenon
<1>7. id[Len(id)] # blank
  BY <1>1, <1>5
<1> HIDE DEF name
<1>8. name[1] # blank /\ name[Len(name)] # blank
  BY <1>2, <1>6, <1>7
<1>9. name # <<>>
  BY <1>5, <1>6
<1> QED
  BY <1>8, <1>9, Zenon DEF IsString, name, colon, blank

\* The items of readable findings have titles, and props with values.
LEMMA ItemsAccepted ==
    ASSUME NEW f, IsList(f),
           \A i \in DOMAIN f : Readable(f[i]) /\ \E S : f[i].control.id \in Seq(S)
    PROVE  LET items == ItemsOf(f) IN
           /\ items # <<>>
           /\ \A i \in DOMAIN items : /\ IsMarkupLine(items[i].title)
                                      /\ \A v \in items[i].values : IsString(v)
<1> DEFINE items == ItemsOf(f)
<1>1. \A a, x, n : a = [title |-> x, values |-> n] => a.title = x /\ a.values = n
  OBVIOUS
<1>2. CASE f = <<>>
  <2> DEFINE x == [title |-> <<"p">>, values |-> {<<"satisfied">>}]
  <2>1. items = <<x>>
    BY <1>2 DEF ItemsOf
  <2>2. x.title = <<"p">> /\ x.values = {<<"satisfied">>}
    BY <1>1
  <2>3. IsMarkupLine(x.title) /\ \A v \in x.values : IsString(v)
    <3>1. IsMarkupLine(<<"p">>) /\ IsString(<<"satisfied">>)
      BY DEF IsMarkupLine, IsString
    <3> QED
      BY <2>2, <3>1, Zenon
  <2> HIDE DEF x, items
  <2>4. items # <<>> /\ DOMAIN items = {1} /\ items[1] = x
    BY <2>1
  <2> QED
    BY <2>3, <2>4 DEF items
<1>3. CASE f # <<>>
  <2>1. items = [i \in DOMAIN f |-> ItemOf(f[i])]
    BY <1>3, Zenon DEF ItemsOf
  <2> HIDE DEF items
  <2>2. items # <<>>
    BY <1>3, <2>1, MappedIsEmpty
  <2>3. ASSUME NEW i \in DOMAIN f
        PROVE  /\ IsMarkupLine(ItemOf(f[i]).title)
               /\ \A v \in ItemOf(f[i]).values : IsString(v)
    <3> DEFINE id == f[i].control.id
               name == <<":">> \o id
    <3>1. ItemOf(f[i]).title = f[i].title /\ ItemOf(f[i]).values = {name, f[i].severity}
      BY <1>1, Zenon DEF ItemOf
    <3>2. IsToken(id) /\ IsMarkupLine(f[i].title) /\ IsString(f[i].severity)
      BY DEF Readable
    <3>3. IsString(name)
      BY <3>2, NameIsString, Zenon
    <3> HIDE DEF name
    <3> QED
      BY <3>1, <3>2, <3>3
  <2> QED
    BY <2>1, <2>2, <2>3 DEF items
<1> QED
  BY <1>2, <1>3

\* What the dates of results and the artifacts of the back matter come from.
LEMMA ResultsOf ==
    ASSUME NEW s
    PROVE  /\ \A t \in ResultDates(s) : \E i \in DOMAIN s :
                t = s[i].evaluatedAt \/ t = s[i].validUntil
           /\ \A r \in BackMatter(s) : \E i \in DOMAIN s : \E k \in DOMAIN s[i].evidence :
                r.digest = s[i].evidence[k].digest
<1>1. \A t \in ResultDates(s) : \E i \in DOMAIN s :
         t = s[i].evaluatedAt \/ t = s[i].validUntil
  BY DEF ResultDates
<1>2. ASSUME NEW r \in BackMatter(s)
      PROVE  \E i \in DOMAIN s : \E k \in DOMAIN s[i].evidence :
               r.digest = s[i].evidence[k].digest
  <2>1. PICK q \in Places(s) :
           r = [uuid |-> ResourceUUID(EvidenceAt(s, q)), digest |-> EvidenceAt(s, q).digest,
                rlink |-> EvidenceAt(s, q).uri]
    BY DEF BackMatter
  <2>2. r.digest = EvidenceAt(s, q).digest
    BY <2>1
  <2>3. PICK i \in DOMAIN s : \E k \in DOMAIN s[i].evidence : q = <<i, k>>
    BY DEF Places
  <2>5. PICK k \in DOMAIN s[i].evidence : q = <<i, k>>
    BY <2>3
  <2>4. EvidenceAt(s, q) = s[i].evidence[k]
    BY <2>5 DEF EvidenceAt
  <2> QED
    BY <2>2, <2>4
<1> QED
  BY <1>1, <1>2

\* The fields of an origin.
LEMMA OriginFields ==
    \A e, f : /\ Origin(e, f).tool = "oskal"
             /\ Origin(e, f).evaluations = e /\ Origin(e, f).findings = f
BY DEF Origin

\* The names of what is exported, and the titles that are made of them.
LEMMA NamesAccepted ==
    /\ IsMarkupLine(<<"a">>) /\ IsMarkupLine(<<"c", " ">> \o <<"a">>)
    /\ IsString(<<"A", ".">>) /\ IsMarkupLine(<<"s", " ">> \o <<"A", ".">>)
<1>1. IsMarkupLine(<<"a">>) /\ IsString(<<"A", ".">>)
  BY DEF IsMarkupLine, IsString
<1>2. ASSUME NEW x, NEW y, NEW z, NEW u
      PROVE  IsMarkupLine(<<x, y>> \o <<z>>) /\ IsMarkupLine(<<x, y>> \o <<z, u>>)
  <2> DEFINE S == {x, y, z, u}
  <2>1. /\ <<x, y>> \in Seq(S) /\ Len(<<x, y>>) # 0
        /\ <<z>> \in Seq(S) /\ <<z, u>> \in Seq(S)
    OBVIOUS
  <2> HIDE DEF S
  <2> QED
    BY <2>1, JoinIsLine, Zenon
<1> QED
  BY <1>1, <1>2, Zenon

\* Results of presentable evaluations and readable findings are accepted.
LEMMA ResultsAccepted ==
    ASSUME NEW s, NEW f, NEW d, Projected(s, f, d), s # <<>>,
           \A i \in DOMAIN s : Presentable(s[i]), \A i \in DOMAIN f : Readable(f[i])
    PROVE  SchemaAccepts("assessment-results", d)
<1>1. /\ d.roots = {"assessment-results"} /\ d.identified /\ d.title = <<"r">>
      /\ d.resources = BackMatter(s) /\ d.dates = ResultDates(s) /\ ~ d.hollow
  BY Zenon DEF Projected
<1>2. d.findings = [i \in DOMAIN f |->
         [title |-> f[i].title, target |-> f[i].control.id,
          related |-> RelatedObservations(f[i], [j \in DOMAIN s |-> Observation(s[j], j)])]]
  BY Zenon DEF Projected
<1>3. \A t \in d.dates : IsDateTime(t)
  <2>1. \A i \in DOMAIN s : IsDateTime(s[i].evaluatedAt) /\ IsDateTime(s[i].validUntil)
    BY Zenon DEF Presentable
  <2>2. \A t \in ResultDates(s) : \E i \in DOMAIN s :
           t = s[i].evaluatedAt \/ t = s[i].validUntil
    BY ResultsOf
  <2>3. \A t \in ResultDates(s) : IsDateTime(t)
    BY <2>1, <2>2, Zenon
  <2> QED
    BY <1>1, <2>3, Zenon
<1>4. \A r \in d.resources : r.digest # ""
  <2>1. \A i \in DOMAIN s : \A k \in DOMAIN s[i].evidence : s[i].evidence[k].digest # ""
    BY Zenon DEF Presentable
  <2>2. \A r \in BackMatter(s) : \E i \in DOMAIN s : \E k \in DOMAIN s[i].evidence :
           r.digest = s[i].evidence[k].digest
    BY ResultsOf
  <2>3. \A r \in BackMatter(s) : r.digest # ""
    BY <2>1, <2>2, Zenon
  <2> QED
    BY <1>1, <2>3, Zenon
<1>5. ASSUME NEW i \in DOMAIN d.findings
      PROVE  IsMarkupLine(d.findings[i].title) /\ IsToken(d.findings[i].target)
  <2> DEFINE x == RelatedObservations(f[i], [j \in DOMAIN s |-> Observation(s[j], j)])
  <2>1. /\ i \in DOMAIN f
        /\ d.findings[i] = [title |-> f[i].title, target |-> f[i].control.id, related |-> x]
    BY <1>2, Zenon
  <2> HIDE DEF x
  <2>2. d.findings[i].title = f[i].title /\ d.findings[i].target = f[i].control.id
    BY <2>1
  <2>3. IsToken(f[i].control.id) /\ IsMarkupLine(f[i].title)
    BY <2>1, Zenon DEF Readable
  <2> QED
    BY <2>2, <2>3, Zenon
<1>6. IsMarkupLine(d.title)
  BY <1>1 DEF IsMarkupLine
<1> QED
  BY <1>1, <1>3, <1>4, <1>5, <1>6 DEF SchemaAccepts

\* Evaluations that can be exported as requirements.
Exportable(s) == s # <<>> /\ \A i \in DOMAIN s : Presentable(s[i])

\* So are the components of presentable evaluations.
LEMMA ComponentsAccepted ==
    ASSUME NEW name, NEW s, NEW d, AsComponents(name, s, d), Exportable(s),
           IsMarkupLine(name), IsMarkupLine(d.title)
    PROVE  SchemaAccepts("component-definition", d)
<1> DEFINE r == ExportedRequirements(s)
<1>1. /\ d.roots = {"component-definition"} /\ d.identified
      /\ d.components = <<[title |-> name, requirements |-> r]>>
      /\ d.dates = {} /\ ~ d.hollow
  BY Zenon DEF AsComponents, Exportable
<1>2. \A i \in DOMAIN s : IsToken(s[i].control.id) /\ s[i].control.id # <<>>
  BY Zenon DEF Exportable, Presentable, IsToken
<1>3. \A i \in DOMAIN r : i \in DOMAIN s /\ r[i] = Implemented(s[i].control.id)
  BY <1>2 DEF ExportedRequirements
<1> HIDE DEF r
<1>4. \A i \in DOMAIN r : IsToken(r[i].control)
  BY <1>2, <1>3, ImplementedFields, Zenon
<1>5. /\ DOMAIN d.components = {1}
      /\ d.components[1].requirements = r /\ d.components[1].title = name
  <2>1. d.components = <<[title |-> name, requirements |-> r]>>
    BY <1>1, Zenon
  <2> QED
    BY <2>1, OnlyPart, Zenon
<1> QED
  BY <1>1, <1>4, <1>5 DEF SchemaAccepts

\* And the plans.
LEMMA PlanAccepted ==
    ASSUME NEW name, NEW s, IsList(s), NEW d, AsPlan(name, s, d), Exportable(s),
           IsString(name), IsMarkupLine(d.title)
    PROVE  SchemaAccepts("system-security-plan", d)
<1> DEFINE r == PlannedRequirements(s)
<1>1. /\ d.roots = {"system-security-plan"} /\ d.identified
      /\ d.system = name /\ d.requirements = r /\ d.dates = {} /\ ~ d.hollow
  BY Zenon DEF AsPlan, Exportable
<1>2. s # <<>> /\ \A i \in DOMAIN s : IsToken(s[i].control.id)
  BY Zenon DEF Exportable, Presentable
<1>3. DOMAIN r = DOMAIN s /\ \A i \in DOMAIN r : r[i] = Implemented(s[i].control.id)
  BY DEF PlannedRequirements
<1> HIDE DEF r
<1>4. \A i \in DOMAIN r : IsToken(r[i].control)
  <2>1. TAKE i \in DOMAIN r
  <2>2. IsToken(s[i].control.id) /\ r[i] = Implemented(s[i].control.id)
    BY <1>2, <1>3
  <2> QED
    BY <2>2, ImplementedFields
<1>5. r # <<>>
  BY <1>2, <1>3, MappedIsEmpty, Zenon
<1> QED
  BY <1>1, <1>4, <1>5 DEF SchemaAccepts

\* What is projected from evaluations and findings that are filled in is valid
\* as what it is.
LEMMA ExportsValidate ==
    ASSUME DocumentInv, document.origin.tool = "oskal",
           document.origin.evaluations = <<>> =>
             document.roots \subseteq {"assessment-plan", "plan-of-action-and-milestones"},
           \A i \in DOMAIN document.origin.evaluations :
             Presentable(document.origin.evaluations[i]),
           \A i \in DOMAIN document.origin.findings : Readable(document.origin.findings[i])
    PROVE  Validate(document, "auto").valid
<1>1. NoOrigin.tool = "other"
  BY DEF NoOrigin
<1>2. document # Blank
  <2>1. Blank.origin = NoOrigin
    BY DEF Blank
  <2> QED
    BY <1>1, <2>1
<1>3. document \notin Foreign
  BY <1>1, OscalAssumption
<1>4. PICK s \in AllAssessments, f \in AllReported : Exported(s, f, document)
  BY <1>2, <1>3, Zenon DEF DocumentInv
<1>5. IsList(s) /\ IsList(f)
  BY AssessmentLists, FindingLists
<1>6. CASE document = ProjectAssessmentResults(s, f)
  <2>1. Projected(s, f, document)
    BY <1>6, ProjectedResults
  <2>2. document.roots = {"assessment-results"} /\ document.origin = Origin(s, f)
    BY <2>1, Zenon DEF Projected
  <2>3. document.origin.evaluations = s /\ document.origin.findings = f
    BY <2>2, OriginFields
  <2>4. s # <<>>
    BY <2>2, <2>3
  <2>5. SchemaAccepts("assessment-results", document)
    BY <2>1, <2>3, <2>4, ResultsAccepted, Zenon
  <2> QED
    BY <2>2, <2>5, AcceptedDocuments DEF Types
<1>7. CASE document = ProjectComponentDefinition(<<"a">>, s)
  <2> DEFINE name == <<"a">>
  <2>1. document = ProjectComponentDefinition(name, s)
    BY <1>7, Zenon
  <2>2. IsMarkupLine(name) /\ IsMarkupLine(<<"c", " ">> \o name)
    BY NamesAccepted, Zenon
  <2> HIDE DEF name
  <2>7. AsComponents(name, s, document)
    BY <2>1, ProjectedComponents, Zenon
  <2>3. /\ document.roots = {"component-definition"} /\ document.origin = Origin(s, <<>>)
        /\ IsMarkupLine(document.title)
    BY <2>2, <2>7, Zenon DEF AsComponents
  <2>4. document.origin.evaluations = s
    BY <2>3, OriginFields, Zenon
  <2>5. s # <<>>
    BY <2>3, <2>4
  <2>8. Exportable(s)
    BY <2>4, <2>5, Zenon DEF Exportable
  <2>6. SchemaAccepts("component-definition", document)
    BY <2>2, <2>3, <2>7, <2>8, ComponentsAccepted, Zenon
  <2> QED
    BY <2>3, <2>6, AcceptedDocuments DEF Types
<1>8. CASE document = ProjectSSP(<<"A", ".">>, s)
  <2> DEFINE name == <<"A", ".">>
  <2>1. document = ProjectSSP(name, s)
    BY <1>8, Zenon
  <2>2. IsString(name) /\ IsMarkupLine(<<"s", " ">> \o name)
    BY NamesAccepted, Zenon
  <2> HIDE DEF name
  <2>7. AsPlan(name, s, document)
    BY <2>1, ProjectedPlan, Zenon
  <2>3. /\ document.roots = {"system-security-plan"} /\ document.origin = Origin(s, <<>>)
        /\ IsMarkupLine(document.title)
    BY <2>2, <2>7, Zenon DEF AsPlan
  <2>4. document.origin.evaluations = s
    BY <2>3, OriginFields, Zenon
  <2>5. s # <<>>
    BY <2>3, <2>4
  <2>8. Exportable(s)
    BY <2>4, <2>5, Zenon DEF Exportable
  <2>6. SchemaAccepts("system-security-plan", document)
    BY <1>5, <2>2, <2>3, <2>7, <2>8, PlanAccepted, Zenon
  <2> QED
    BY <2>3, <2>6, AcceptedDocuments DEF Types
<1>9. CASE document = ProjectAssessmentPlan(s)
  <2>1. /\ document.roots = {"assessment-plan"} /\ document.identified
        /\ document.title = <<"a">> /\ document.dates = {} /\ ~ document.hollow
    BY <1>9, ProjectedTasks
  <2>2. IsMarkupLine(document.title)
    BY <2>1 DEF IsMarkupLine
  <2>3. SchemaAccepts("assessment-plan", document)
    BY <2>1, <2>2 DEF SchemaAccepts
  <2> QED
    BY <2>1, <2>3, AcceptedDocuments DEF Types
<1>10. CASE document = ProjectPOAM(f)
  <2> DEFINE items == ItemsOf(f)
  <2>1. /\ document.roots = {"plan-of-action-and-milestones"} /\ document.identified
        /\ document.title = <<"p">> /\ document.items = items
        /\ document.dates = {} /\ ~ document.hollow
        /\ document.origin = Origin(<<>>, f)
    BY <1>10, ProjectedItems
  <2>2. document.origin.findings = f
    BY <2>1, OriginFields
  <2>3. /\ items # <<>>
        /\ \A i \in DOMAIN items : /\ IsMarkupLine(items[i].title)
                                   /\ \A v \in items[i].values : IsString(v)
    BY <1>5, <2>2, FindingLists, ItemsAccepted
  <2>4. IsMarkupLine(document.title)
    BY <2>1 DEF IsMarkupLine
  <2> HIDE DEF items
  <2>5. SchemaAccepts("plan-of-action-and-milestones", document)
    BY <2>1, <2>3, <2>4 DEF SchemaAccepts
  <2> QED
    BY <2>1, <2>5, AcceptedDocuments DEF Types
<1> QED
  BY <1>4, <1>6, <1>7, <1>8, <1>9, <1>10, Zenon DEF Exported

\* For all evaluations, findings and foreign documents: a document that
\* `oskal validate' calls valid is one that detection and ingestion take for
\* the same type, and what OSKAL projects from evaluations and findings that
\* are filled in (IDs that are tokens, both times, digests, titles, severities)
\* is valid.
THEOREM OscalValidIsIngestible == OscalSpec => []ValidIsIngestible
<1>1. OscalInv => ValidIsIngestible
  <2> SUFFICES ASSUME OscalInv
               PROVE  ValidIsIngestible
    OBVIOUS
  <2>1. DocumentInv /\ ReportedInv
    BY DEF OscalInv
  <2>2. ASSUME report.valid
        PROVE  /\ DetectDocumentType(document.roots) = report.type
               /\ IngestOSCAL(document).type =
                    IF report.type \in {"component-definition", "system-security-plan"}
                    THEN report.type ELSE ""
    <3>1. report # NoReport
      <4> DEFINE no == FALSE
      <4>1. \A a, x, n : a = [type |-> x, valid |-> n] => a.valid = n
        OBVIOUS
      <4>2. NoReport = [type |-> "", valid |-> no]
        BY DEF NoReport
      <4>3. ~ no
        OBVIOUS
      <4> HIDE DEF no
      <4>4. NoReport.valid = no
        BY <4>1, <4>2, Zenon
      <4>5. QED
        BY <2>2, <4>3, <4>4, Zenon
    <3>2. PICK o : report = Validate(document, o)
      BY <2>1, <3>1, Zenon DEF ReportedInv
    <3>3. report.type \in Types /\ document.roots = {report.type} /\ document.identified
      BY <2>2, <3>2, ValidDocuments, Zenon
    <3>4. DetectDocumentType(document.roots) = report.type
      BY <3>3, DetectsTypes
    <3>5. QED
      BY <3>3, <3>4, IngestedType
  <2>3. (/\ document.origin.tool = "oskal"
         /\ document.origin.evaluations = <<>> =>
              document.roots \subseteq {"assessment-plan", "plan-of-action-and-milestones"}
         /\ \A i \in DOMAIN document.origin.evaluations :
              Presentable(document.origin.evaluations[i])
         /\ \A i \in DOMAIN document.origin.findings : Readable(document.origin.findings[i]))
        => Validate(document, "auto").valid
    BY <2>1, ExportsValidate
  <2> QED
    BY <2>2, <2>3, Zenon DEF ValidIsIngestible
<1> QED
  BY <1>1, InitOscalInv, StepOscalInv, PTL DEF OscalSpec

\* The digest at a place, and the places that no other with the digest is
\* before.
KeyAt(s, p) == ResourceKey(EvidenceAt(s, p))

Firsts(s) ==
    {p \in Places(s) : \A q \in Places(s) : Earlier(q, p) => KeyAt(s, q) # KeyAt(s, p)}

Resource(ev) == [uuid |-> ResourceUUID(ev), digest |-> ev.digest, rlink |-> ev.uri]

\* A place is a number of an evaluation and one of its evidence.
LEMMA PlacesOf ==
    ASSUME NEW s
    PROVE  \A p : p \in Places(s) <=>
             \E i \in DOMAIN s : \E k \in DOMAIN s[i].evidence : p = <<i, k>>
BY DEF Places

\* The artifacts of evaluations are listed by number.
LEMMA PlacesAreNumbers ==
    ASSUME NEW s \in AllAssessments
    PROVE  /\ DOMAIN s \subseteq Nat
           /\ \A i \in DOMAIN s : DOMAIN s[i].evidence \subseteq Nat
<1>1. ASSUME NEW t, IsList(t)
      PROVE  DOMAIN t \subseteq Nat
  BY <1>1 DEF IsList
<1> QED
  BY <1>1, AssessmentLists

\* Of the places with a digest one comes first.
LEMMA DigestHasFirst ==
    ASSUME NEW s \in AllAssessments, NEW p \in Places(s)
    PROVE  \E q \in Firsts(s) : KeyAt(s, q) = KeyAt(s, p)
<1> DEFINE A == {i \in DOMAIN s : \E k \in DOMAIN s[i].evidence :
                                    KeyAt(s, <<i, k>>) = KeyAt(s, p)}
           B(i) == {k \in DOMAIN s[i].evidence : KeyAt(s, <<i, k>>) = KeyAt(s, p)}
<1>1. DOMAIN s \subseteq Nat /\ \A i \in DOMAIN s : DOMAIN s[i].evidence \subseteq Nat
  BY PlacesAreNumbers
<1>2. A \subseteq Nat /\ A # {}
  <2>1. PICK i \in DOMAIN s : \E k \in DOMAIN s[i].evidence : p = <<i, k>>
    BY PlacesOf
  <2>2. i \in A
    BY <2>1
  <2>3. QED
    BY <1>1, <2>2
<1>3. PICK i \in A : \A j \in A : i <= j
  <2> HIDE DEF A
  <2> QED
    BY <1>2, LeastNumber
<1>4. B(i) \subseteq Nat /\ B(i) # {}
  BY <1>1, <1>3
<1>5. PICK k \in B(i) : \A j \in B(i) : k <= j
  <2> DEFINE C == B(i)
  <2>1. C \subseteq Nat /\ C # {}
    BY <1>4
  <2> HIDE DEF C
  <2>2. \E c \in C : \A j \in C : c <= j
    BY <2>1, LeastNumber
  <2> QED
    BY <2>2 DEF C
<1>6. /\ i \in DOMAIN s /\ k \in DOMAIN s[i].evidence
      /\ KeyAt(s, <<i, k>>) = KeyAt(s, p)
  BY <1>3, <1>5
<1>7. <<i, k>> \in Places(s)
  BY <1>6, PlacesOf
<1>8. ASSUME NEW r \in Places(s), Earlier(r, <<i, k>>), KeyAt(s, r) = KeyAt(s, p)
      PROVE  FALSE
  <2>1. PICK a \in DOMAIN s : \E b \in DOMAIN s[a].evidence : r = <<a, b>>
    BY PlacesOf
  <2>2. PICK b \in DOMAIN s[a].evidence : r = <<a, b>>
    BY <2>1
  <2>3. a < i \/ (a = i /\ b < k)
    BY <1>8, <2>2 DEF Earlier
  <2>4. a \in A /\ b \in B(a)
    BY <1>8, <2>2
  <2>5. i <= a
    BY <1>3, <2>4
  <2>6. a = i => k <= b
    BY <1>5, <2>4
  <2>7. a \in Nat /\ b \in Nat /\ i \in Nat /\ k \in Nat
    BY <1>1, <1>6, <2>1, <2>2
  <2> HIDE DEF A, B
  <2> QED
    BY <2>3, <2>5, <2>6, <2>7
<1>9. <<i, k>> \in Firsts(s)
  BY <1>6, <1>7, <1>8 DEF Firsts
<1> QED
  BY <1>6, <1>9

\* Of two places one is the earlier.
LEMMA FirstsAreOne ==
    ASSUME NEW s \in AllAssessments, NEW p \in Firsts(s), NEW q \in Firsts(s),
           KeyAt(s, p) = KeyAt(s, q)
    PROVE  p = q
<1>1. p \in Places(s) /\ q \in Places(s)
  BY DEF Firsts
<1>2. ~ Earlier(p, q) /\ ~ Earlier(q, p)
  BY <1>1 DEF Firsts
<1>3. PICK i \in DOMAIN s : \E k \in DOMAIN s[i].evidence : p = <<i, k>>
  BY <1>1, PlacesOf
<1>4. PICK k \in DOMAIN s[i].evidence : p = <<i, k>>
  BY <1>3
<1>5. PICK a \in DOMAIN s : \E b \in DOMAIN s[a].evidence : q = <<a, b>>
  BY <1>1, PlacesOf
<1>6. PICK b \in DOMAIN s[a].evidence : q = <<a, b>>
  BY <1>5
<1>7. i \in Nat /\ k \in Nat /\ a \in Nat /\ b \in Nat
  BY <1>3, <1>4, <1>5, <1>6, PlacesAreNumbers
<1>8. i = a /\ k = b
  BY <1>2, <1>4, <1>6, <1>7 DEF Earlier
<1> QED
  BY <1>4, <1>6, <1>8

\* The back matter has every artifact once.
LEMMA BackMatterComplete ==
    ASSUME NEW s \in AllAssessments
    PROVE  /\ \A p \in Places(s) : \E r \in BackMatter(s) :
                /\ r.uuid = ResourceUUID(EvidenceAt(s, p))
                /\ r.digest = EvidenceAt(s, p).digest
           /\ \A r, t \in BackMatter(s) : r.digest = t.digest => r = t
<1>1. BackMatter(s) = {Resource(EvidenceAt(s, p)) : p \in Firsts(s)}
  BY DEF BackMatter, Resource, Firsts, KeyAt
<1>2. \A ev : /\ Resource(ev).uuid = ResourceUUID(ev)
              /\ Resource(ev).digest = ev.digest
  BY DEF Resource
<1>3. \A p : KeyAt(s, p) = EvidenceAt(s, p).digest
  BY DEF KeyAt, ResourceKey
<1>4. ASSUME NEW p \in Places(s)
      PROVE  \E r \in BackMatter(s) : /\ r.uuid = ResourceUUID(EvidenceAt(s, p))
                                      /\ r.digest = EvidenceAt(s, p).digest
  <2>1. PICK q \in Firsts(s) : KeyAt(s, q) = KeyAt(s, p)
    BY DigestHasFirst
  <2>2. EvidenceAt(s, q).digest = EvidenceAt(s, p).digest
    BY <1>3, <2>1
  <2>3. ResourceUUID(EvidenceAt(s, q)) = ResourceUUID(EvidenceAt(s, p))
    BY <2>2 DEF ResourceUUID, ResourceKey
  <2>4. Resource(EvidenceAt(s, q)) \in BackMatter(s)
    BY <1>1
  <2>5. QED
    BY <1>2, <2>2, <2>3, <2>4
<1>5. ASSUME NEW r \in BackMatter(s), NEW t \in BackMatter(s), r.digest = t.digest
      PROVE  r = t
  <2>1. PICK p \in Firsts(s) : r = Resource(EvidenceAt(s, p))
    BY <1>1
  <2>2. PICK q \in Firsts(s) : t = Resource(EvidenceAt(s, q))
    BY <1>1
  <2>3. KeyAt(s, p) = KeyAt(s, q)
    BY <1>2, <1>3, <1>5, <2>1, <2>2
  <2>4. p = q
    BY <2>3, FirstsAreOne
  <2>5. QED
    BY <2>1, <2>2, <2>4
<1> QED
  BY <1>4, <1>5

\* A text contains itself.
LEMMA ContainsItself ==
    ASSUME NEW S, NEW x \in Seq(S)
    PROVE  TextContains(x, x)
<1>1. Len(x) \in Nat /\ x = [i \in 1 .. Len(x) |-> x[i]]
  OBVIOUS
<1>2. SubSeq(x, 0 + 1, 0 + Len(x)) = x
  BY <1>1
<1>3. 0 \in 0 .. Len(x) - Len(x)
  BY <1>1
<1> QED
  BY <1>2, <1>3 DEF TextContains

ObservationsOf(s) == [i \in DOMAIN s |-> Observation(s[i], i)]

\* What the observation of an evaluation has.
LEMMA ObservationFields ==
    ASSUME NEW s, NEW i \in DOMAIN s
    PROVE  LET o == ObservationsOf(s)[i] IN
           /\ o.control = s[i].control
           /\ o.relevant = [k \in DOMAIN s[i].evidence |-> ResourceUUID(s[i].evidence[k])]
<1> DEFINE l == [k \in DOMAIN s[i].evidence |-> ResourceUUID(s[i].evidence[k])]
           o == ObservationsOf(s)[i]
<1>1. o = [uuid |-> <<"observation", i>>, control |-> s[i].control,
           state |-> s[i].state, relevant |-> l]
  BY DEF ObservationsOf, Observation
<1> HIDE DEF l, o
<1>2. o.control = s[i].control /\ o.relevant = l
  BY <1>1
<1> QED
  BY <1>2 DEF l, o

\* A finding leads to the observations of its control, and to one at least if
\* there are any.
LEMMA FindingsLead ==
    ASSUME NEW s \in AllAssessments, NEW finding
    PROVE  LET o == ObservationsOf(s)
               related == RelatedObservations(finding, o)
           IN /\ o # <<>> => related # {}
              /\ \A k \in DOMAIN o : o[k].control.id = finding.control.id
                                     => o[k].uuid \in related
<1> DEFINE o == ObservationsOf(s)
           related == RelatedObservations(finding, o)
           named == {i \in DOMAIN o : TextContains(o[i].control.id, finding.control.id)}
<1>1. related = IF named # {} THEN {o[i].uuid : i \in named}
                ELSE {o[i].uuid : i \in DOMAIN o \cap {1}}
  BY DEF RelatedObservations
<1>2. DOMAIN o = DOMAIN s
  BY DEF ObservationsOf
<1>3. ASSUME NEW k \in DOMAIN o, o[k].control.id = finding.control.id
      PROVE  o[k].uuid \in related
  <2>1. o[k].control = s[k].control
    BY <1>2, ObservationFields
  <2>2. PICK S : s[k].control.id \in Seq(S)
    BY <1>2, AssessmentLists
  <2>3. TextContains(s[k].control.id, s[k].control.id)
    BY <2>2, ContainsItself
  <2>4. k \in named
    BY <1>3, <2>1, <2>3
  <2> HIDE DEF o, named, related
  <2>5. QED
    BY <1>1, <2>4
<1>4. ASSUME o # <<>>
      PROVE  related # {}
  <2>1. s # <<>>
    <3> SUFFICES ASSUME s = <<>>
                 PROVE  o = <<>>
      BY <1>4
    <3>1. DOMAIN s = {}
      OBVIOUS
    <3>2. QED
      BY <3>1 DEF ObservationsOf
  <2>2. 1 \in DOMAIN s
    BY <2>1, AssessmentLists, MappedIsEmpty
  <2> HIDE DEF o, named, related
  <2>3. QED
    BY <1>1, <1>2, <2>2
<1> QED
  BY <1>3, <1>4

\* For all evaluations and findings: the links of exported assessment results
\* resolve to the artifacts they stand for, each of which is there once.
THEOREM OscalReferencesResolve == OscalSpec => []ReferencesResolve
<1>1. OscalInv => ReferencesResolve
  <2> SUFFICES ASSUME DocumentInv, "assessment-results" \in document.roots
               PROVE  /\ \A i \in DOMAIN document.observations :
                           LET links == document.observations[i].relevant
                               evidence == document.origin.evaluations[i].evidence
                           IN /\ Len(links) = Len(evidence)
                              /\ \A k \in DOMAIN links : \E r \in document.resources :
                                   r.uuid = links[k] /\ r.digest = evidence[k].digest
                      /\ \A r, s \in document.resources : r.digest = s.digest => r = s
                      /\ \A i \in DOMAIN document.findings :
                           LET f == document.findings[i] IN
                           /\ document.observations # <<>> => f.related # {}
                           /\ \A k \in DOMAIN document.observations :
                                document.observations[k].control.id = f.target
                                => document.observations[k].uuid \in f.related
    BY Zenon DEF OscalInv, ReferencesResolve
  <2>1. CASE document \in Foreign
    <3>1. /\ document.observations = <<>> /\ document.findings = <<>>
          /\ document.resources = {}
      BY <2>1, OscalAssumption
    <3>2. DOMAIN document.observations = {} /\ DOMAIN document.findings = {}
      BY <3>1
    <3>3. QED
      BY <3>1, <3>2, Zenon
  <2>2. CASE document \notin Foreign
    <3>1. document # Blank
      BY ProjectedOthers
    <3>2. PICK s \in AllAssessments, f \in AllReported : Exported(s, f, document)
      BY <2>2, <3>1, Zenon DEF DocumentInv
    <3>3. document # ProjectAssessmentPlan(s) /\ document # ProjectPOAM(f)
      BY ProjectedOthers
    <3>4. document # ProjectComponentDefinition(<<"a">>, s)
      BY ProjectedRoots, Zenon
    <3>5. document # ProjectSSP(<<"A", ".">>, s)
      BY ProjectedRoots, Zenon
    <3>6. Projected(s, f, document)
      BY <3>2, <3>3, <3>4, <3>5, ProjectedResults, Zenon DEF Exported
    <3> DEFINE o == ObservationsOf(s)
    <3>7. /\ document.observations = o /\ document.resources = BackMatter(s)
          /\ document.origin.evaluations = s /\ DOMAIN o = DOMAIN s
          /\ document.findings = [i \in DOMAIN f |->
               [title |-> f[i].title, target |-> f[i].control.id,
                related |-> RelatedObservations(f[i], o)]]
      BY <3>6, OriginFields DEF Projected, ObservationsOf
    <3> HIDE DEF o
    <3>8. ASSUME NEW i \in DOMAIN s
          PROVE  /\ Len(o[i].relevant) = Len(s[i].evidence)
                 /\ \A k \in DOMAIN o[i].relevant : \E r \in BackMatter(s) :
                      r.uuid = o[i].relevant[k] /\ r.digest = s[i].evidence[k].digest
      <4> DEFINE e == s[i].evidence
                 l == [k \in DOMAIN e |-> ResourceUUID(e[k])]
      <4>1. o[i].relevant = l
        BY ObservationFields DEF o
      <4>2. Len(e) \in Nat /\ e = [k \in 1 .. Len(e) |-> e[k]]
        BY AssessmentLists DEF IsList
      <4>3. Len(l) = Len(e)
        <5>1. l = [k \in 1 .. Len(e) |-> l[k]]
          BY <4>2
        <5> HIDE DEF l
        <5>2. QED
          BY <4>2, <5>1, ListOf
      <4>4. ASSUME NEW k \in DOMAIN l
            PROVE  \E r \in BackMatter(s) : r.uuid = l[k] /\ r.digest = e[k].digest
        <5>1. <<i, k>> \in Places(s)
          BY PlacesOf
        <5>2. EvidenceAt(s, <<i, k>>) = e[k]
          BY DEF EvidenceAt
        <5>3. \E r \in BackMatter(s) : /\ r.uuid = ResourceUUID(e[k])
                                       /\ r.digest = e[k].digest
          BY <5>1, <5>2, BackMatterComplete
        <5>4. QED
          BY <5>3
      <4> HIDE DEF l
      <4> QED
        BY <4>1, <4>3, <4>4
    <3>9. \A r, t \in BackMatter(s) : r.digest = t.digest => r = t
      BY BackMatterComplete
    <3>10. ASSUME NEW i \in DOMAIN document.findings
           PROVE  LET g == document.findings[i] IN
                  /\ o # <<>> => g.related # {}
                  /\ \A k \in DOMAIN o : o[k].control.id = g.target => o[k].uuid \in g.related
      <4> DEFINE rel == RelatedObservations(f[i], o)
      <4>1. i \in DOMAIN f
        BY <3>7
      <4>2. document.findings[i] = [title |-> f[i].title, target |-> f[i].control.id,
                                    related |-> rel]
        BY <3>7, <4>1
      <4>3. /\ o # <<>> => rel # {}
            /\ \A k \in DOMAIN o : o[k].control.id = f[i].control.id => o[k].uuid \in rel
        BY FindingsLead DEF o
      <4> HIDE DEF rel
      <4>4. /\ document.findings[i].target = f[i].control.id
            /\ document.findings[i].related = rel
        BY <4>2
      <4> QED
        BY <4>3, <4>4
    <3>11. \A i \in DOMAIN document.observations :
             /\ Len(document.observations[i].relevant) = Len(document.origin.evaluations[i].evidence)
             /\ \A k \in DOMAIN document.observations[i].relevant :
                  \E r \in document.resources :
                    /\ r.uuid = document.observations[i].relevant[k]
                    /\ r.digest = document.origin.evaluations[i].evidence[k].digest
      BY <3>7, <3>8
    <3>12. \A r, t \in document.resources : r.digest = t.digest => r = t
      BY <3>7, <3>9
    <3> QED
      BY <3>7, <3>10, <3>11, <3>12
  <2> QED
    BY <2>1, <2>2
<1> QED
  BY <1>1, InitOscalInv, StepOscalInv, PTL DEF OscalSpec

\* What a demand is to be like for a requirement.
Meets(demand, req) ==
    /\ demand.id[1] = req.control
    /\ \A k \in DOMAIN req.props :
         /\ StatedLast(req, TypeProps, k) => demand.type = req.props[k].value
         /\ StatedLast(req, ProducerProps, k) => demand.producer = req.props[k].value
         /\ (k \in Ages(req) /\ \A j \in Ages(req) : j <= k)
            => demand.freshness \in req.props[k].duration
    /\ Ages(req) = {} => demand.freshness = 24

\* Places are numbers, so the last one is the only last one.
LEMMA LastIsOne ==
    ASSUME NEW P \in SUBSET Int, NEW k \in P, \A j \in P : j <= k
    PROVE  LastOf(P) = k
<1> DEFINE c == CHOOSE i \in P : \A j \in P : j <= i
<1>1. c \in P /\ \A j \in P : j <= c
  OBVIOUS
<1>2. c = k
  <2>1. c <= k /\ k <= c /\ c \in Int /\ k \in Int
    BY <1>1
  <2> HIDE DEF c
  <2> QED
    BY <2>1
<1> QED
  BY <1>2 DEF LastOf

\* The props that count are those that are stated last.
LEMMA RequirementMeets ==
    ASSUME NEW req, IsList(req.props), NEW type, NEW producer, NEW c,
           c = ContractRequirement(req, type, producer)
    PROVE  Meets(c, req)
<1> DEFINE ages == Ages(req)
           t == LastValue(req, TypeProps, type)
           p == LastValue(req, ProducerProps, producer)
           a == IF ages = {} THEN 24
                ELSE CHOOSE x \in req.props[LastOf(ages)].duration : TRUE
<1>1. c = [id |-> <<req.control, t>>, type |-> t, freshness |-> a, producer |-> p]
  BY DEF ContractRequirement, Ages
<1>2. DOMAIN req.props \subseteq Int
  BY DEF IsList
<1>3. ASSUME NEW names, NEW default, NEW k, StatedLast(req, names, k)
      PROVE  LastValue(req, names, default) = req.props[k].value
  <2> DEFINE P == PropsNamed(req, names)
  <2>1. k \in P /\ P \subseteq Int /\ \A j \in P : j <= k
    BY <1>2, <1>3 DEF StatedLast, PropsNamed
  <2>2. LastOf(P) = k /\ P # {}
    BY <2>1, LastIsOne
  <2> QED
    BY <2>2 DEF LastValue
<1>4. ASSUME NEW k \in ages, \A j \in ages : j <= k
      PROVE  a \in req.props[k].duration
  <2>1. ages \subseteq Int /\ req.props[k].duration # {}
    BY <1>2 DEF Ages, PropsNamed
  <2>2. LastOf(ages) = k
    BY <1>4, <2>1, LastIsOne
  <2>3. a = CHOOSE x \in req.props[k].duration : TRUE
    BY <2>2
  <2> QED
    BY <2>1, <2>3
<1>5. ages = {} => a = 24
  OBVIOUS
<1> HIDE DEF t, p, a
<1>6. c.id = <<req.control, t>> /\ c.type = t /\ c.freshness = a /\ c.producer = p
  BY <1>1
<1>7. c.id[1] = req.control
  BY <1>6
<1>8. ASSUME NEW k \in DOMAIN req.props
      PROVE  /\ StatedLast(req, TypeProps, k) => c.type = req.props[k].value
             /\ StatedLast(req, ProducerProps, k) => c.producer = req.props[k].value
  BY <1>3, <1>6 DEF t, p
<1> QED
  BY <1>4, <1>5, <1>6, <1>7, <1>8 DEF Meets

\* A binding demands what the requirements it was made of ask for.
LEMMA BoundDemands ==
    ASSUME NEW slug, NEW reqs, NEW type, NEW producer, NEW b,
           b = Bound(slug, reqs, type, producer)
    PROVE  /\ b.name = slug
           /\ \A k \in DOMAIN reqs : IsList(reqs[k].props) => Demands(b, reqs[k])
<1> DEFINE demands == [i \in DOMAIN reqs |-> ContractRequirement(reqs[i], type, producer)]
           controls == {reqs[i].control : i \in DOMAIN reqs}
           requires == {demands[i].id : i \in DOMAIN demands}
<1>1. b = [name |-> slug, contract |-> demands, controls |-> controls,
           requires |-> requires]
  BY Zenon DEF Bound
<1>2. ASSUME NEW k \in DOMAIN reqs
      PROVE  /\ reqs[k].control \in controls
             /\ k \in DOMAIN demands
             /\ demands[k].id \in requires
             /\ demands[k] = ContractRequirement(reqs[k], type, producer)
  OBVIOUS
<1> HIDE DEF demands, controls, requires
<1>3. b.name = slug /\ b.contract = demands /\ b.controls = controls /\ b.requires = requires
  BY <1>1
<1>5. ASSUME NEW k \in DOMAIN reqs, IsList(reqs[k].props)
      PROVE  Demands(b, reqs[k])
  <2>1. Meets(demands[k], reqs[k])
    BY <1>2, <1>5, RequirementMeets
  <2> QED
    BY <1>2, <1>3, <2>1 DEF Demands, Meets
<1> QED
  BY <1>3, <1>5

\* The bindings of what is asked for, part by part.
BoundParts(parts, type, producer) ==
    [i \in {j \in DOMAIN parts : parts[j].requirements # <<>>} |->
       Bound(SanitizeK8sName(parts[i].title), parts[i].requirements, type, producer)]

\* A part whose name is its own is bound, and nothing else has its name.
LEMMA PartIsBound ==
    ASSUME NEW parts, NEW type, NEW producer, NEW i \in DOMAIN parts,
           \A j \in DOMAIN parts \ {i} :
              SanitizeK8sName(parts[j].title) # SanitizeK8sName(parts[i].title),
           NEW k \in DOMAIN parts[i].requirements,
           IsList(parts[i].requirements[k].props)
    PROVE  LET named == {b \in Range(BoundParts(parts, type, producer)) :
                           b.name = SanitizeK8sName(parts[i].title)}
           IN named # {} /\ \A b \in named : Demands(b, parts[i].requirements[k])
<1> DEFINE m == BoundParts(parts, type, producer)
           slug(j) == SanitizeK8sName(parts[j].title)
<1>1. i \in DOMAIN m
  <2>1. parts[i].requirements # <<>>
    <3>1. DOMAIN <<>> = {}
      OBVIOUS
    <3> QED
      BY <3>1
  <2> QED
    BY <2>1 DEF BoundParts
<1>2. ASSUME NEW j \in DOMAIN m
      PROVE  j \in DOMAIN parts /\ m[j].name = slug(j)
  <2>1. j \in DOMAIN parts
        /\ m[j] = Bound(slug(j), parts[j].requirements, type, producer)
    BY DEF BoundParts
  <2> HIDE DEF m, slug
  <2>2. m[j].name = slug(j)
    BY <2>1, BoundDemands
  <2> QED
    BY <2>1, <2>2
<1>3. Demands(m[i], parts[i].requirements[k])
  <2>1. m[i] = Bound(slug(i), parts[i].requirements, type, producer)
    BY <1>1 DEF BoundParts
  <2> HIDE DEF m, slug
  <2> QED
    BY <2>1, BoundDemands
<1>4. \A j \in DOMAIN parts \ {i} : slug(j) # slug(i)
  OBVIOUS
<1>5. Range(m) = {m[j] : j \in DOMAIN m}
  BY DEF Range
<1> HIDE DEF m, slug
<1>6. m[i] \in Range(m) /\ m[i].name = slug(i)
  BY <1>1, <1>2, <1>5
<1>7. ASSUME NEW b \in Range(m), b.name = slug(i)
      PROVE  b = m[i]
  BY <1>2, <1>4, <1>5, <1>7
<1>8. /\ {b \in Range(m) : b.name = slug(i)} # {}
      /\ \A b \in {c \in Range(m) : c.name = slug(i)} : Demands(b, parts[i].requirements[k])
  BY <1>3, <1>6, <1>7
<1> QED
  BY <1>8, Zenon DEF m, slug

\* What is ingested is what the document asks for.
LEMMA IngestedParts ==
    ASSUME NEW d, IngestOSCAL(d).type # ""
    PROVE  \E type, producer :
             IngestOSCAL(d).bound = BoundParts(AskedBy(d), type, producer)
<1>1. \A a, x, n : a = [type |-> x, bound |-> n] => a.type = x /\ a.bound = n
  BY IngestedFields, Zenon
<1>2. CASE "component-definition" \in d.roots /\ d.identified
  <2>1. IngestOSCAL(d) = [type |-> "component-definition",
                          bound |-> ingestComponentDefinition(d)]
    BY <1>2, Zenon DEF IngestOSCAL
  <2>2. IngestOSCAL(d).bound = ingestComponentDefinition(d)
    BY <1>1, <2>1, Zenon
  <2>3. AskedBy(d) = d.components
    BY <1>2, Zenon DEF AskedBy
  <2>4. ingestComponentDefinition(d) = BoundParts(d.components, "admission", "oskal-engine")
    BY Zenon DEF ingestComponentDefinition, BoundParts
  <2> QED
    BY <2>2, <2>3, <2>4, Zenon
<1>3. CASE /\ ~ ("component-definition" \in d.roots /\ d.identified)
           /\ "system-security-plan" \in d.roots /\ d.identified
  <2> DEFINE parts == <<[title |-> d.system, requirements |-> d.requirements]>>
             T == "compliance"
             P == "oskal-ssp-auditor"
  <2>1. IngestOSCAL(d) = [type |-> "system-security-plan", bound |-> ingestSSP(d)]
    BY <1>3, Zenon DEF IngestOSCAL
  <2>2. IngestOSCAL(d).bound = ingestSSP(d)
    BY <1>1, <2>1, Zenon
  <2>3. AskedBy(d) = parts
    BY <1>3, Zenon DEF AskedBy
  <2>4. /\ DOMAIN parts = {1} /\ parts[1].title = d.system
        /\ parts[1].requirements = d.requirements
    BY OnlyPart, Zenon
  <2> DEFINE S == IF d.requirements = <<>> THEN {} ELSE {1}
             whole == Bound(SanitizeK8sName(d.system), d.requirements, T, P)
  <2>5. ingestSSP(d) = [i \in S |-> whole]
    BY Zenon DEF ingestSSP
  <2> HIDE DEF parts
  <2>6. {j \in DOMAIN parts : parts[j].requirements # <<>>} = S
    BY <2>4
  <2>7. BoundParts(parts, T, P) =
          [i \in S |-> Bound(SanitizeK8sName(parts[i].title), parts[i].requirements, T, P)]
    BY <2>6, Zenon DEF BoundParts
  <2>8. \A i \in S : Bound(SanitizeK8sName(parts[i].title), parts[i].requirements, T, P)
                     = whole
    BY <2>4
  <2> HIDE DEF S, whole, T, P
  <2>9. ingestSSP(d) = BoundParts(parts, T, P)
    BY <2>5, <2>7, <2>8
  <2> QED
    BY <2>2, <2>3, <2>9, Zenon
<1>4. CASE /\ ~ ("component-definition" \in d.roots /\ d.identified)
           /\ ~ ("system-security-plan" \in d.roots /\ d.identified)
  <2>1. IngestOSCAL(d) = [type |-> "", bound |-> <<>>]
    BY <1>4, Zenon DEF IngestOSCAL
  <2> QED
    BY <1>1, <2>1, Zenon
<1> QED
  BY <1>2, <1>3, <1>4, Zenon

\* For every list of documents imported: no control of a component is lost,
\* and what is bound under the component's name demands the type and producer
\* its document states last and the last age that can be read, 24 hours if none
\* can, unless a later import wrote the same file or another component of the
\* document has the same name.
THEOREM OscalImportsAreBound == OscalSpec => []ImportedIsBound
<1>1. OscalInv => ImportedIsBound
  <2> SUFFICES ASSUME ImportsInv
               PROVE  ImportedIsBound
    BY DEF OscalInv
  <2> SUFFICES ASSUME NEW n \in DOMAIN ingested, NotOverwritten(n),
                      NEW i \in DOMAIN AskedBy(ingested[n]),
                      \A j \in DOMAIN AskedBy(ingested[n]) \ {i} :
                         SanitizeK8sName(AskedBy(ingested[n])[j].title)
                           # SanitizeK8sName(AskedBy(ingested[n])[i].title),
                      NEW k \in DOMAIN AskedBy(ingested[n])[i].requirements
               PROVE  LET named == BoundAs(ingested[n], AskedBy(ingested[n])[i])
                      IN /\ named # {}
                         /\ \A b \in named :
                              Demands(b, AskedBy(ingested[n])[i].requirements[k])
    BY Zenon DEF ImportedIsBound
  <2> DEFINE d == ingested[n]
             parts == AskedBy(d)
  <2>1. /\ IngestOSCAL(d).type # "" /\ Listed(d)
        /\ manifests[ManifestFile(d)] = IngestOSCAL(d).bound
    BY DEF ImportsInv
  <2>2. PICK type, producer : IngestOSCAL(d).bound = BoundParts(parts, type, producer)
    BY <2>1, IngestedParts, Zenon
  <2>3. manifests[ManifestFile(d)] = BoundParts(parts, type, producer)
    BY <2>1, <2>2, Zenon
  <2>4. IsList(parts[i].requirements[k].props)
    BY <2>1 DEF Listed
  <2>5. LET named == {b \in Range(BoundParts(parts, type, producer)) :
                        b.name = SanitizeK8sName(parts[i].title)}
        IN named # {} /\ \A b \in named : Demands(b, parts[i].requirements[k])
    BY <2>4, PartIsBound, Zenon
  <2> QED
    BY <2>3, <2>5, Zenon DEF BoundAs
<1> QED
  BY <1>1, InitOscalInv, StepOscalInv, PTL DEF OscalSpec

(***************************************************************************)
(* Observers.  The contract's three kinds of conduct, who reports them and *)
(* as what.  WitnessInv: the envelopes of those three producers and the    *)
(* proper conduct of the three kinds are the same, time by time and epoch  *)
(* by epoch.                                                               *)
(***************************************************************************)
WitnessKinds == {"admission", "process", "flow"}

WitnessName(kind) ==
    CASE kind = "admission" -> "cel-admission-observer"
      [] kind = "process" -> "tetragon-collector"
      [] kind = "flow" -> "cilium-collector"

WitnessType(kind) ==
    CASE kind = "admission" -> <<"kubernetes", "admission">>
      [] kind = "process" -> <<"workload", "runtime", "process">>
      [] kind = "flow" -> <<"network", "flow", "isolation">>

\* Envelope x reports conduct of a kind at time t in epoch e.
Witnesses(x, kind, t, e) ==
    /\ x.producer = Identity(WitnessName(kind)) /\ x.type = WitnessType(kind)
    /\ x.capturedAt = t /\ x.epoch = e

EnvelopesInv ==
    \A x \in Contents(ledger) :
      /\ x.capturedAt \in Int
      /\ \A kind \in WitnessKinds : x.producer = Identity(WitnessName(kind)) =>
           /\ x.type = WitnessType(kind)
           /\ <<kind, x.capturedAt, x.epoch>> \in conduct

ConductInv ==
    \A c \in conduct :
      /\ c = <<c[1], c[2], c[3]>>
      /\ c[1] \in WitnessKinds =>
           \E x \in Contents(ledger) : Witnesses(x, c[1], c[2], c[3])

WitnessInv == time \in Int /\ IsList(ledger) /\ EnvelopesInv /\ ConductInv

\* Short lists and what is in them.
LEMMA ShortLists ==
    /\ IsList(<<>>) /\ Contents(<<>>) = {}
    /\ \A x : IsList(<<x>>) /\ Contents(<<x>>) = {x}
    /\ \A x, y : IsList(<<x, y>>) /\ Contents(<<x, y>>) = {x, y}
<1>1. IsList(<<>>) /\ Contents(<<>>) = {}
  BY DEF IsList, Contents
<1>2. ASSUME NEW x
      PROVE  IsList(<<x>>) /\ Contents(<<x>>) = {x}
  BY DEF IsList, Contents
<1>3. ASSUME NEW x, NEW y
      PROVE  IsList(<<x, y>>) /\ Contents(<<x, y>>) = {x, y}
  <2> DEFINE t == <<x, y>>
  <2>1. DOMAIN t = {1, 2} /\ t[1] = x /\ t[2] = y /\ Len(t) = 2
    OBVIOUS
  <2>2. t = [i \in 1 .. 2 |-> t[i]]
    OBVIOUS
  <2> HIDE DEF t
  <2>3. IsList(t) /\ Contents(t) = {x, y}
    BY <2>1, <2>2 DEF IsList, Contents
  <2> QED
    BY <2>3 DEF t
<1> QED
  BY <1>1, <1>2, <1>3, Zenon

\* Two lists joined are a list of what is in either.
LEMMA ListJoin ==
    ASSUME NEW s, IsList(s), NEW t, IsList(t)
    PROVE  IsList(s \o t) /\ Contents(s \o t) = Contents(s) \cup Contents(t)
<1> DEFINE n == Len(s)
           m == Len(t)
           S == {s[i] : i \in 1 .. n} \cup {t[i] : i \in 1 .. m}
<1>1. n \in Nat /\ s = [i \in 1 .. n |-> s[i]] /\ m \in Nat /\ t = [i \in 1 .. m |-> t[i]]
  BY DEF IsList
<1>2. s \in [1 .. n -> S] /\ t \in [1 .. m -> S]
  BY <1>1
<1> HIDE DEF S
<1>3. s \in Seq(S) /\ t \in Seq(S)
  BY <1>1, <1>2
<1> DEFINE u == s \o t
<1>4. /\ u \in Seq(S) /\ Len(u) = n + m
      /\ \A i \in 1 .. n : u[i] = s[i]
      /\ \A i \in 1 .. m : u[n + i] = t[i]
  BY <1>1, <1>3
<1> HIDE DEF u
<1>5. DOMAIN u = 1 .. (n + m) /\ DOMAIN s = 1 .. n /\ DOMAIN t = 1 .. m
  BY <1>1, <1>4
<1>6. IsList(u)
  BY <1>4 DEF IsList
<1>7. \A i \in 1 .. (n + m) : i \in 1 .. n \/ \E j \in 1 .. m : i = n + j
  <2> SUFFICES ASSUME NEW i \in 1 .. (n + m), i \notin 1 .. n
               PROVE  \E j \in 1 .. m : i = n + j
    OBVIOUS
  <2>1. i - n \in 1 .. m /\ i = n + (i - n)
    BY <1>1
  <2> QED
    BY <2>1
<1> HIDE DEF n, m
<1>8. Contents(u) \subseteq Contents(s) \cup Contents(t)
  BY <1>4, <1>5, <1>7 DEF Contents
<1>9. Contents(s) \cup Contents(t) \subseteq Contents(u)
  <2>1. \A i \in 1 .. n : i \in 1 .. (n + m)
    BY <1>1
  <2>2. \A i \in 1 .. m : n + i \in 1 .. (n + m)
    BY <1>1
  <2> QED
    BY <1>4, <1>5, <2>1, <2>2 DEF Contents
<1> QED
  BY <1>6, <1>8, <1>9 DEF u

\* The fields of an envelope.
LEMMA EnvelopeFields ==
    ASSUME NEW name, NEW type, NEW when
    PROVE  LET x == Envelope(name, type, when) IN
           /\ x.producer = Identity(name) /\ x.type = type
           /\ x.capturedAt = when /\ x.epoch = workload
<1> DEFINE p == Identity(name)
           x == Envelope(name, type, when)
<1>1. x = [producer |-> p, type |-> type, capturedAt |-> when, epoch |-> workload]
  BY DEF Envelope
<1> HIDE DEF p, x
<1>2. x.producer = p /\ x.type = type /\ x.capturedAt = when /\ x.epoch = workload
  BY <1>1
<1> QED
  BY <1>2 DEF p, x

\* Producers with two names are two.
LEMMA IdentityNames ==
    ASSUME NEW a, NEW b, Identity(a) = Identity(b)
    PROVE  a = b
<1>1. <<"spiffe", "prod", a>>[3] = <<"spiffe", "prod", b>>[3]
  BY DEF Identity
<1> QED
  BY <1>1

\* What observers return, the findings apart.
LEMMA ReportFields ==
    /\ \A s : Makes(s).envelopes = s
    /\ \A control, severity : Finds(control, severity).envelopes = <<>>
    /\ Silent.envelopes = <<>>
<1>1. ASSUME NEW s
      PROVE  Makes(s).envelopes = s
  <2>1. Makes(s) = [envelopes |-> s, findings |-> {}]
    BY DEF Makes
  <2> QED
    BY <2>1
<1>2. ASSUME NEW control, NEW severity
      PROVE  Finds(control, severity).envelopes = <<>>
  <2> DEFINE f == {Finding(control, severity)}
  <2>1. Finds(control, severity) = [envelopes |-> <<>>, findings |-> f]
    BY DEF Finds
  <2> HIDE DEF f
  <2> QED
    BY <2>1
<1> QED
  BY <1>1, <1>2, Zenon DEF Silent

\* The producers the contract does not name.
OtherNames == {"sigstore-verifier", "shield-admission-inspector", "openreports-normalizer"}

\* Conduct of the contract's kinds is reported exactly if it is proper, as of
\* now; other observers report under other names.
LEMMA EnvelopesOf ==
    ASSUME NEW event \in ClusterEvents, time \in Int
    PROVE  LET made == Observed(event).envelopes
               kind == event.kind
           IN \/ /\ kind \in WitnessKinds /\ AsItShould(event)
                 /\ made = <<Envelope(WitnessName(kind), WitnessType(kind), time)>>
              \/ kind \in WitnessKinds /\ ~AsItShould(event) /\ made = <<>>
              \/ /\ kind \notin WitnessKinds
                 /\ \/ made = <<>>
                    \/ \E name \in OtherNames : \E a, b : \E t \in Int :
                         \/ made = <<Envelope(name, a, t)>>
                         \/ made = <<Envelope(name, a, t), Envelope(name, b, t)>>
<1> DEFINE made == Observed(event).envelopes
           kind == event.kind
           W(k) == <<Envelope(WitnessName(k), WitnessType(k), time)>>
<1>1. CASE kind = "process"
  <2>1. made = GenerateProcessEvidence(event).envelopes
    BY <1>1, Zenon DEF Observed
  <2>2. AsItShould(event) <=>
          event.uid # 0 /\ event.capabilities \cap {"CAP_SYS_ADMIN", "CAP_NET_ADMIN"} = {}
    BY <1>1, Zenon DEF AsItShould
  <2>3. CASE AsItShould(event)
    <3>1. GenerateProcessEvidence(event) = Makes(W("process"))
      BY <2>2, <2>3, Zenon DEF GenerateProcessEvidence, WitnessName, WitnessType
    <3> QED
      BY <1>1, <2>1, <2>3, <3>1, ReportFields, Zenon DEF WitnessKinds
  <2>4. CASE ~AsItShould(event)
    <3>1. GenerateProcessEvidence(event).envelopes = <<>>
      BY <2>2, <2>4, ReportFields, Zenon DEF GenerateProcessEvidence
    <3> QED
      BY <1>1, <2>1, <2>4, <3>1, Zenon DEF WitnessKinds
  <2> QED
    BY <2>3, <2>4
<1>2. CASE kind = "flow"
  <2>1. made = GenerateNetworkEvidence(event).envelopes
    BY <1>2, Zenon DEF Observed
  <2>2. AsItShould(event) <=> event.egressIsolated
    BY <1>2, Zenon DEF AsItShould
  <2>3. CASE AsItShould(event)
    <3>1. GenerateNetworkEvidence(event) = Makes(W("flow"))
      BY <2>2, <2>3, Zenon DEF GenerateNetworkEvidence, WitnessName, WitnessType
    <3> QED
      BY <1>2, <2>1, <2>3, <3>1, ReportFields, Zenon DEF WitnessKinds
  <2>4. CASE ~AsItShould(event)
    <3>1. GenerateNetworkEvidence(event).envelopes = <<>>
      BY <2>2, <2>4, ReportFields, Zenon DEF GenerateNetworkEvidence
    <3> QED
      BY <1>2, <2>1, <2>4, <3>1, Zenon DEF WitnessKinds
  <2> QED
    BY <2>3, <2>4
<1>3. CASE kind = "admission"
  <2>1. made = AdmissionEvidence(event).envelopes
    BY <1>3, Zenon DEF Observed
  <2>2. AsItShould(event) <=> event.allowed
    BY <1>3, Zenon DEF AsItShould
  <2>3. CASE AsItShould(event)
    <3>1. AdmissionEvidence(event) = Makes(W("admission"))
      BY <2>2, <2>3, Zenon DEF AdmissionEvidence, WitnessName, WitnessType
    <3> QED
      BY <1>3, <2>1, <2>3, <3>1, ReportFields, Zenon DEF WitnessKinds
  <2>4. CASE ~AsItShould(event)
    <3>1. AdmissionEvidence(event).envelopes = <<>>
      BY <2>2, <2>4, ReportFields, Zenon DEF AdmissionEvidence
    <3> QED
      BY <1>3, <2>1, <2>4, <3>1, Zenon DEF WitnessKinds
  <2> QED
    BY <2>3, <2>4
<1>4. CASE kind = "artifact"
  <2>1. made = GenerateSupplyChainEvidence(event).envelopes
    BY <1>4, Zenon DEF Observed
  <2> DEFINE a == <<"supply", "chain", "signature">>
             b == <<"supply", "chain", "provenance">>
             name == "sigstore-verifier"
  <2>2. \/ GenerateSupplyChainEvidence(event)
             = Makes(<<Envelope(name, a, time), Envelope(name, b, time)>>)
        \/ GenerateSupplyChainEvidence(event) = Silent
    BY Zenon DEF GenerateSupplyChainEvidence
  <2>3. kind \notin WitnessKinds /\ name \in OtherNames
    BY <1>4 DEF WitnessKinds, OtherNames
  <2>4. \/ made = <<>>
        \/ made = <<Envelope(name, a, time), Envelope(name, b, time)>>
    BY <2>1, <2>2, ReportFields, Zenon
  <2> HIDE DEF a, b, name
  <2> QED
    BY <2>3, <2>4, Zenon
<1>5. CASE kind = "model"
  <2>1. made = GenerateModelEvidence(event).envelopes
    BY <1>5, Zenon DEF Observed
  <2> DEFINE a == <<"model", "weights", "forensics">>
             b == <<"model", "aibom">>
             name == "shield-admission-inspector"
  <2>2. \/ GenerateModelEvidence(event)
             = Makes(<<Envelope(name, a, time), Envelope(name, b, time)>>)
        \/ \E c, v : GenerateModelEvidence(event) = Finds(c, v)
    BY Zenon DEF GenerateModelEvidence
  <2>3. kind \notin WitnessKinds /\ name \in OtherNames
    BY <1>5 DEF WitnessKinds, OtherNames
  <2>4. \/ made = <<>>
        \/ made = <<Envelope(name, a, time), Envelope(name, b, time)>>
    BY <2>1, <2>2, ReportFields, Zenon
  <2> HIDE DEF a, b, name
  <2> QED
    BY <2>3, <2>4, Zenon
<1>6. CASE kind = "report"
  <2>1. made = IngestReport(event).envelopes
    BY <1>6, Zenon DEF Observed
  <2> DEFINE a == <<"scanner", event.source>>
             name == "openreports-normalizer"
             t == event.timestamp
  <2>2. \/ IngestReport(event) = Makes(<<Envelope(name, a, t)>>)
        \/ \E c, v : IngestReport(event) = Finds(c, v)
        \/ IngestReport(event) = Silent
    <3>1. CASE event.result \in {"fail", "error"}
      <4>1. IngestReport(event) = Finds("external-scanner", NormalizeSeverity(event.severity))
        BY <3>1 DEF IngestReport
      <4> QED
        BY <4>1, Zenon
    <3>2. CASE event.result = "pass"
      <4>1. event.result \notin {"fail", "error"}
        BY <3>2
      <4> QED
        BY <3>2, <4>1, Zenon DEF IngestReport
    <3>3. CASE event.result \notin {"fail", "error"} /\ event.result # "pass"
      BY <3>3, Zenon DEF IngestReport
    <3> QED
      BY <3>1, <3>2, <3>3
  <2>3. kind \notin WitnessKinds /\ name \in OtherNames
    BY <1>6 DEF WitnessKinds, OtherNames
  <2>4. made = <<>> \/ made = <<Envelope(name, a, t)>>
    BY <2>1, <2>2, ReportFields, Zenon
  <2>5. t \in Int
    BY <1>6, ObserversAssumption
  <2> HIDE DEF a, name, t
  <2> QED
    BY <2>3, <2>4, <2>5, Zenon
<1> QED
  BY <1>1, <1>2, <1>3, <1>4, <1>5, <1>6, ObserversAssumption

\* The three kinds have three names, which no other observer has.
LEMMA WitnessNames ==
    /\ \A k, m \in WitnessKinds : WitnessName(k) = WitnessName(m) => k = m
    /\ \A k \in WitnessKinds : WitnessName(k) \notin OtherNames
<1>1. /\ WitnessName("admission") = "cel-admission-observer"
      /\ WitnessName("process") = "tetragon-collector"
      /\ WitnessName("flow") = "cilium-collector"
  BY DEF WitnessName
<1> QED
  BY <1>1 DEF WitnessKinds, OtherNames

\* What an observer adds to the ledger.
LEMMA MadeIsConduct ==
    ASSUME NEW event \in ClusterEvents, time \in Int
    PROVE  LET made == Observed(event).envelopes
               kind == event.kind
           IN /\ IsList(made)
              /\ \A x \in Contents(made) :
                   /\ x.capturedAt \in Int
                   /\ \A k \in WitnessKinds : x.producer = Identity(WitnessName(k)) =>
                        /\ k = kind /\ AsItShould(event)
                        /\ Witnesses(x, k, time, workload)
              /\ (kind \in WitnessKinds /\ AsItShould(event)) =>
                   \E x \in Contents(made) : Witnesses(x, kind, time, workload)
<1> DEFINE made == Observed(event).envelopes
           kind == event.kind
           w == Envelope(WitnessName(kind), WitnessType(kind), time)
           OK(x) == /\ x.capturedAt \in Int
                    /\ \A k \in WitnessKinds : x.producer = Identity(WitnessName(k)) =>
                         /\ k = kind /\ AsItShould(event)
                         /\ Witnesses(x, k, time, workload)
<1> SUFFICES /\ IsList(made)
             /\ \A x \in Contents(made) : OK(x)
             /\ (kind \in WitnessKinds /\ AsItShould(event)) =>
                  \E x \in Contents(made) : Witnesses(x, kind, time, workload)
  BY Zenon
<1>1. \/ kind \in WitnessKinds /\ AsItShould(event) /\ made = <<w>>
      \/ kind \in WitnessKinds /\ ~AsItShould(event) /\ made = <<>>
      \/ /\ kind \notin WitnessKinds
         /\ \/ made = <<>>
            \/ \E name \in OtherNames : \E a, b : \E t \in Int :
                 \/ made = <<Envelope(name, a, t)>>
                 \/ made = <<Envelope(name, a, t), Envelope(name, b, t)>>
  BY EnvelopesOf, Zenon
<1>2. ASSUME NEW name \in OtherNames, NEW a, NEW t \in Int
      PROVE  OK(Envelope(name, a, t))
  <2> DEFINE x == Envelope(name, a, t)
  <2>1. x.producer = Identity(name) /\ x.capturedAt = t
    BY EnvelopeFields
  <2>2. \A k \in WitnessKinds : x.producer # Identity(WitnessName(k))
    <3> HIDE DEF x
    <3> QED
      BY <2>1, IdentityNames, WitnessNames, Zenon
  <2> HIDE DEF x
  <2>3. OK(x)
    BY <2>1, <2>2
  <2> QED
    BY <2>3 DEF x
<1> HIDE DEF made
<1>3. CASE kind \in WitnessKinds /\ AsItShould(event) /\ made = <<w>>
  <2>1. IsList(made) /\ Contents(made) = {w}
    BY <1>3, ShortLists, Zenon
  <2>2. Witnesses(w, kind, time, workload) /\ w.capturedAt = time
        /\ w.producer = Identity(WitnessName(kind))
    <3> DEFINE n == WitnessName(kind)
               y == WitnessType(kind)
    <3>1. /\ w.producer = Identity(n) /\ w.type = y
          /\ w.capturedAt = time /\ w.epoch = workload
      <4> HIDE DEF n, y
      <4>1. LET x == Envelope(n, y, time) IN
            /\ x.producer = Identity(n) /\ x.type = y
            /\ x.capturedAt = time /\ x.epoch = workload
        BY EnvelopeFields
      <4> QED
        BY <4>1, Zenon DEF n, y
    <3> HIDE DEF w
    <3> QED
      BY <3>1, Zenon DEF Witnesses
  <2>3. \A k \in WitnessKinds : w.producer = Identity(WitnessName(k)) => k = kind
    <3> HIDE DEF w
    <3> QED
      BY <1>3, <2>2, IdentityNames, WitnessNames, Zenon
  <2>4. OK(w)
    <3> HIDE DEF w
    <3> QED
      BY <1>3, <2>2, <2>3, Zenon
  <2> HIDE DEF w, OK
  <2> QED
    BY <2>1, <2>2, <2>4
<1>4. CASE made = <<>> /\ ~(kind \in WitnessKinds /\ AsItShould(event))
  <2>1. IsList(made) /\ Contents(made) = {}
    BY <1>4, ShortLists, Zenon
  <2> QED
    BY <1>4, <2>1, Zenon
<1>5. CASE /\ kind \notin WitnessKinds
           /\ \E name \in OtherNames : \E a, b : \E t \in Int :
                 \/ made = <<Envelope(name, a, t)>>
                 \/ made = <<Envelope(name, a, t), Envelope(name, b, t)>>
  <2>1. PICK name \in OtherNames : \E a, b : \E t \in Int :
                 \/ made = <<Envelope(name, a, t)>>
                 \/ made = <<Envelope(name, a, t), Envelope(name, b, t)>>
    BY <1>5
  <2>2. PICK a, b : \E t \in Int :
                 \/ made = <<Envelope(name, a, t)>>
                 \/ made = <<Envelope(name, a, t), Envelope(name, b, t)>>
    BY <2>1
  <2>3. PICK t \in Int : \/ made = <<Envelope(name, a, t)>>
                         \/ made = <<Envelope(name, a, t), Envelope(name, b, t)>>
    BY <2>2
  <2>4. OK(Envelope(name, a, t)) /\ OK(Envelope(name, b, t))
    BY <1>2, Zenon
  <2> DEFINE x == Envelope(name, a, t)
             y == Envelope(name, b, t)
  <2> HIDE DEF x, y, OK
  <2>5. IsList(made) /\ (Contents(made) = {x} \/ Contents(made) = {x, y})
    <3>1. made = <<x>> \/ made = <<x, y>>
      BY <2>3, Zenon DEF x, y
    <3>2. CASE made = <<x>>
      BY <3>2, ShortLists, Zenon
    <3>3. CASE made = <<x, y>>
      BY <3>3, ShortLists, Zenon
    <3> QED
      BY <3>1, <3>2, <3>3, Zenon
  <2>6. \A z \in Contents(made) : OK(z)
    BY <2>4, <2>5, Zenon DEF x, y
  <2> QED
    BY <1>5, <2>5, <2>6, Zenon
<1> QED
  BY <1>1, <1>3, <1>4, <1>5, Zenon

\* Nothing is reported and nothing was done at first.
LEMMA InitWitnessInv == ObserversInit => WitnessInv
<1> SUFFICES ASSUME ObserversInit
             PROVE  WitnessInv
  OBVIOUS
<1>1. time = 0 /\ ledger = <<>> /\ conduct = {}
  BY DEF ObserversInit
<1>2. IsList(ledger) /\ Contents(ledger) = {}
  BY <1>1, ShortLists, Zenon
<1> QED
  BY <1>1, <1>2 DEF WitnessInv, EnvelopesInv, ConductInv

\* What happens is added to the ledger and to the conduct alike; time and
\* changes of the workload add to neither.
LEMMA StepWitnessInv == WitnessInv /\ [ObserversNext]_observerVars => WitnessInv'
<1> SUFFICES ASSUME WitnessInv, [ObserversNext]_observerVars
             PROVE  WitnessInv'
  OBVIOUS
<1>1. time \in Int /\ IsList(ledger) /\ EnvelopesInv /\ ConductInv
  BY DEF WitnessInv
<1>2. ASSUME NEW event \in ClusterEvents, Observe(event)
      PROVE  WitnessInv'
  <2> DEFINE made == Observed(event).envelopes
             kind == event.kind
             new == <<kind, time, workload>>
             proper == kind \in WitnessKinds /\ AsItShould(event)
  <2>1. /\ ledger' = ledger \o made
        /\ conduct' = IF AsItShould(event) THEN conduct \cup {new} ELSE conduct
        /\ time' = time
    BY <1>2 DEF Observe
  <2>2. /\ IsList(made)
        /\ \A x \in Contents(made) :
             /\ x.capturedAt \in Int
             /\ \A k \in WitnessKinds : x.producer = Identity(WitnessName(k)) =>
                  /\ k = kind /\ AsItShould(event)
                  /\ Witnesses(x, k, time, workload)
        /\ proper => \E x \in Contents(made) : Witnesses(x, kind, time, workload)
    BY <1>1, MadeIsConduct, Zenon
  <2> HIDE DEF made, kind
  <2>3. IsList(ledger \o made)
        /\ Contents(ledger \o made) = Contents(ledger) \cup Contents(made)
    BY <1>1, <2>2, ListJoin
  <2>4. IsList(ledger') /\ Contents(ledger') = Contents(ledger) \cup Contents(made)
    <3> DEFINE joined == ledger \o made
    <3>1. ledger' = joined /\ IsList(joined)
          /\ Contents(joined) = Contents(ledger) \cup Contents(made)
      BY <2>1, <2>3
    <3> HIDE DEF joined
    <3> QED
      BY <3>1, Zenon DEF Contents
  <2>5. conduct \subseteq conduct' /\ (AsItShould(event) => new \in conduct')
        /\ \A c \in conduct' : c \in conduct \/ (AsItShould(event) /\ c = new)
    BY <2>1
  <2> HIDE DEF new
  <2>6. EnvelopesInv'
    <3> SUFFICES ASSUME NEW x \in Contents(ledger')
                 PROVE  /\ x.capturedAt \in Int
                        /\ \A k \in WitnessKinds : x.producer = Identity(WitnessName(k)) =>
                             /\ x.type = WitnessType(k)
                             /\ <<k, x.capturedAt, x.epoch>> \in conduct'
      BY Zenon DEF EnvelopesInv, Contents, Identity
    <3>1. CASE x \in Contents(ledger)
      BY <1>1, <2>5, <3>1 DEF EnvelopesInv
    <3>2. CASE x \in Contents(made)
      <4>1. ASSUME NEW k \in WitnessKinds, x.producer = Identity(WitnessName(k))
            PROVE  x.type = WitnessType(k) /\ <<k, x.capturedAt, x.epoch>> \in conduct'
        <5>1. k = kind /\ AsItShould(event) /\ Witnesses(x, k, time, workload)
          BY <2>2, <3>2, <4>1, Zenon
        <5>2. x.type = WitnessType(k) /\ x.capturedAt = time /\ x.epoch = workload
          BY <5>1 DEF Witnesses
        <5>3. <<k, x.capturedAt, x.epoch>> = new
          BY <5>1, <5>2 DEF new
        <5> QED
          BY <2>5, <5>1, <5>2, <5>3
      <4> QED
        BY <2>2, <3>2, <4>1, Zenon
    <3> QED
      BY <2>4, <3>1, <3>2
  <2>7. ConductInv'
    <3> SUFFICES ASSUME NEW c \in conduct'
                 PROVE  /\ c = <<c[1], c[2], c[3]>>
                        /\ c[1] \in WitnessKinds =>
                             \E x \in Contents(ledger') : Witnesses(x, c[1], c[2], c[3])
      BY Zenon DEF ConductInv, Contents, Witnesses, Identity
    <3>1. CASE c \in conduct
      <4>1. c = <<c[1], c[2], c[3]>>
            /\ (c[1] \in WitnessKinds =>
                  \E x \in Contents(ledger) : Witnesses(x, c[1], c[2], c[3]))
        BY <1>1, <3>1, Zenon DEF ConductInv
      <4> QED
        BY <2>4, <4>1, Zenon
    <3>2. CASE AsItShould(event) /\ c = new
      <4>1. c[1] = kind /\ c[2] = time /\ c[3] = workload
        BY <3>2 DEF new
      <4>2. c = <<c[1], c[2], c[3]>>
        BY <3>2, <4>1 DEF new
      <4>3. ASSUME c[1] \in WitnessKinds
            PROVE  \E x \in Contents(ledger') : Witnesses(x, c[1], c[2], c[3])
        <5>1. proper
          BY <3>2, <4>1, <4>3, Zenon
        <5>2. PICK x \in Contents(made) : Witnesses(x, kind, time, workload)
          BY <2>2, <5>1, Zenon
        <5>3. Witnesses(x, c[1], c[2], c[3])
          BY <4>1, <5>2, Zenon
        <5> QED
          BY <2>4, <5>2, <5>3, Zenon
      <4> QED
        BY <4>2, <4>3, Zenon
    <3> QED
      BY <2>5, <3>1, <3>2, Zenon
  <2> QED
    BY <1>1, <2>1, <2>4, <2>6, <2>7 DEF WitnessInv, IsList
<1>3. CASE TimePasses \/ (\E epoch \in WorkloadEpochs : WorkloadChanges(epoch))
           \/ UNCHANGED observerVars
  <2>1. /\ ledger' = ledger /\ conduct' = conduct
        /\ time' = time \/ time' = time + 1
    BY <1>3 DEF TimePasses, WorkloadChanges, observerVars
  <2>2. time' \in Int
    BY <1>1, <2>1
  <2>3. IsList(ledger')
    BY <1>1, <2>1, Zenon
  <2>4. EnvelopesInv'
    BY <1>1, <2>1, Zenon DEF EnvelopesInv, Contents, Identity
  <2>5. ConductInv'
    BY <1>1, <2>1, Zenon DEF ConductInv, Contents, Witnesses, Identity
  <2> QED
    BY <2>2, <2>3, <2>4, <2>5 DEF WitnessInv, IsList
<1> QED
  BY <1>2, <1>3 DEF ObserversNext

WitnessDemand(kind) == Demand(WitnessType(kind), WitnessName(kind))

\* The contract demands conduct of the three kinds and nothing else.
LEMMA CompositeDemands ==
    /\ DOMAIN CompositeContract.requirements = 1 .. 3
    /\ \A r \in 1 .. 3 : \E kind \in WitnessKinds :
         CompositeContract.requirements[r] = WitnessDemand(kind)
    /\ \A kind \in WitnessKinds : \E r \in 1 .. 3 :
         CompositeContract.requirements[r] = WitnessDemand(kind)
    /\ CompositeContract.onMissing = "UNKNOWN"
<1> DEFINE a == WitnessDemand("admission")
           b == WitnessDemand("process")
           c == WitnessDemand("flow")
<1>1. CompositeContract = [requirements |-> <<a, b, c>>, onMissing |-> "UNKNOWN"]
  BY DEF CompositeContract, WitnessDemand, WitnessName, WitnessType
<1> HIDE DEF a, b, c
<1>2. CompositeContract.requirements = <<a, b, c>>
      /\ CompositeContract.onMissing = "UNKNOWN"
  BY <1>1
<1> DEFINE R == CompositeContract.requirements
<1>3. DOMAIN R = 1 .. 3 /\ R[1] = a /\ R[2] = b /\ R[3] = c
  BY <1>2
<1> HIDE DEF R
<1>4. \A r \in 1 .. 3 : \E kind \in WitnessKinds : R[r] = WitnessDemand(kind)
  BY <1>3 DEF a, b, c, WitnessKinds
<1>5. \A kind \in WitnessKinds : \E r \in 1 .. 3 : R[r] = WitnessDemand(kind)
  BY <1>3 DEF a, b, c, WitnessKinds
<1> QED
  BY <1>2, <1>3, <1>4, <1>5 DEF R

\* The fields of a requirement of the contract.
LEMMA DemandFields ==
    ASSUME NEW type, NEW name
    PROVE  LET req == Demand(type, name) IN
           /\ req.type = type /\ req.required /\ req.maxAge = ObservedAge
           /\ req.accepted = {[open |-> FALSE, parts |-> Identity(name)]}
<1> DEFINE yes == TRUE
           p == {[open |-> FALSE, parts |-> Identity(name)]}
           req == Demand(type, name)
<1>1. req = [type |-> type, required |-> yes, maxAge |-> ObservedAge, accepted |-> p]
  BY DEF Demand
<1>2. yes
  OBVIOUS
<1> HIDE DEF yes, p, req
<1>3. req.type = type /\ req.required = yes /\ req.maxAge = ObservedAge /\ req.accepted = p
  BY <1>1
<1>4. req.required
  BY <1>2, <1>3, Zenon
<1> QED
  BY <1>3, <1>4, Zenon DEF req, p

\* A closed pattern with three parts accepts the producer of that name only.
LEMMA ClosedPattern ==
    ASSUME NEW name, NEW producer
    PROVE  AcceptedBy([open |-> FALSE, parts |-> Identity(name)], producer)
             <=> producer = Identity(name)
<1> DEFINE no == FALSE
           i == Identity(name)
           pattern == [open |-> no, parts |-> i]
<1>1. ~ no
  OBVIOUS
<1>2. \A x : i # <<x>>
  <2> SUFFICES ASSUME NEW x, <<"spiffe", "prod", name>> = <<x>>
               PROVE  FALSE
    BY DEF Identity
  <2>1. Len(<<"spiffe", "prod", name>>) = 3 /\ Len(<<x>>) = 1
    OBVIOUS
  <2> QED
    BY <2>1
<1>3. AcceptedBy(pattern, producer) <=>
        IF pattern.open THEN InitialPart(pattern.parts, producer)
        ELSE \/ pattern.parts = producer
             \/ Len(producer) > 1 /\ pattern.parts = <<producer[1]>>
  BY Zenon DEF AcceptedBy
<1>4. [open |-> FALSE, parts |-> Identity(name)] = pattern
  OBVIOUS
<1> HIDE DEF no, i
<1>5. pattern.open = no /\ pattern.parts = i
  OBVIOUS
<1> HIDE DEF pattern
<1>6. AcceptedBy(pattern, producer) <=> producer = i
  BY <1>1, <1>2, <1>3, <1>5, Zenon
<1> QED
  BY <1>4, <1>6, Zenon DEF i

\* What supports a demand of the contract.
LEMMA SupportsDemand ==
    ASSUME NEW x, NEW kind, NEW e, NEW t
    PROVE  Supports(x, WitnessDemand(kind), e, t) <=>
             /\ matchesEvidenceType(x.type, WitnessType(kind))
             /\ x.producer = Identity(WitnessName(kind))
             /\ \A d \in Dimensions : e[d] = Unset \/ x.epoch[d] = e[d]
             /\ x.capturedAt \in (t - ObservedAge) .. t
<1> DEFINE name == WitnessName(kind)
           type == WitnessType(kind)
           req == WitnessDemand(kind)
           pattern == [open |-> FALSE, parts |-> Identity(name)]
<1>1. req = Demand(type, name)
  BY DEF WitnessDemand
<1> HIDE DEF name, type, req
<1>2. req.type = type /\ req.maxAge = ObservedAge /\ req.accepted = {pattern}
  BY <1>1, DemandFields, Zenon
<1>3. AcceptedBy(pattern, x.producer) <=> x.producer = Identity(name)
  BY ClosedPattern, Zenon
<1>4. ObservedAge > 0
  BY ObserversAssumption
<1> HIDE DEF pattern
<1>5. (req.accepted = {} \/ \E p \in req.accepted : AcceptedBy(p, x.producer))
        <=> x.producer = Identity(name)
  BY <1>2, <1>3
<1>6. (req.maxAge > 0 => x.capturedAt \in (t - req.maxAge) .. t)
        <=> x.capturedAt \in (t - ObservedAge) .. t
  BY <1>2, <1>4
<1>7. Supports(x, req, e, t) <=>
             /\ matchesEvidenceType(x.type, type)
             /\ x.producer = Identity(name)
             /\ \A d \in Dimensions : e[d] = Unset \/ x.epoch[d] = e[d]
             /\ x.capturedAt \in (t - ObservedAge) .. t
  BY <1>2, <1>5, <1>6, Zenon DEF Supports
<1> QED
  BY <1>7, Zenon DEF name, type, req

\* A type matches itself.
LEMMA MatchesItself ==
    ASSUME NEW S, NEW x \in Seq(S)
    PROVE  matchesEvidenceType(x, x)
<1>1. Len(x) \in Nat /\ x = [i \in 1 .. Len(x) |-> x[i]]
  OBVIOUS
<1>2. SubSeq(x, 1, Len(x)) = x /\ Len(x) - Len(x) + 1 = 1
  BY <1>1
<1>3. FinalPart(x, x)
  BY <1>1, <1>2 DEF FinalPart
<1> QED
  BY <1>3 DEF matchesEvidenceType

\* Conduct of a kind, of late and in an epoch that agrees with the present.
RecentConduct(kind) ==
    \E c \in conduct :
      /\ c[1] = kind
      /\ c[2] \in time - ObservedAge .. time
      /\ \A d \in Dimensions : workload[d] \in {Unset, c[3][d]}

\* Conduct of a kind that is recent is support of its demand, and the reverse.
LEMMA RecentIsSupported ==
    ASSUME WitnessInv, NEW kind \in WitnessKinds
    PROVE  RecentConduct(kind) <=>
             \E x \in Contents(ledger) : Supports(x, WitnessDemand(kind), workload, time)
<1>1. EnvelopesInv /\ ConductInv
  BY DEF WitnessInv
<1>2. ASSUME RecentConduct(kind)
      PROVE  \E x \in Contents(ledger) : Supports(x, WitnessDemand(kind), workload, time)
  <2>1. PICK c \in conduct :
          /\ c[1] = kind
          /\ c[2] \in time - ObservedAge .. time
          /\ \A d \in Dimensions : workload[d] \in {Unset, c[3][d]}
    BY <1>2 DEF RecentConduct
  <2>2. PICK x \in Contents(ledger) : Witnesses(x, kind, c[2], c[3])
    BY <1>1, <2>1, Zenon DEF ConductInv
  <2>3. /\ x.producer = Identity(WitnessName(kind)) /\ x.type = WitnessType(kind)
        /\ x.capturedAt = c[2] /\ x.epoch = c[3]
    BY <2>2, Zenon DEF Witnesses
  <2>4. matchesEvidenceType(WitnessType(kind), WitnessType(kind))
    <3> DEFINE S == {"kubernetes", "admission", "workload", "runtime", "process",
                     "network", "flow", "isolation"}
    <3>1. /\ WitnessType("admission") = <<"kubernetes", "admission">>
          /\ WitnessType("process") = <<"workload", "runtime", "process">>
          /\ WitnessType("flow") = <<"network", "flow", "isolation">>
      BY DEF WitnessType
    <3>2. /\ <<"kubernetes", "admission">> \in Seq(S)
          /\ <<"workload", "runtime", "process">> \in Seq(S)
          /\ <<"network", "flow", "isolation">> \in Seq(S)
      OBVIOUS
    <3> HIDE DEF S
    <3>3. WitnessType(kind) \in Seq(S)
      BY <3>1, <3>2, Zenon DEF WitnessKinds
    <3> QED
      BY <3>3, MatchesItself
  <2>5. \A d \in Dimensions : workload[d] = Unset \/ x.epoch[d] = workload[d]
    BY <2>1, <2>3
  <2>6. x.capturedAt \in (time - ObservedAge) .. time
    BY <2>1, <2>3, Zenon
  <2>7. matchesEvidenceType(x.type, WitnessType(kind))
    BY <2>3, <2>4, Zenon
  <2>8. Supports(x, WitnessDemand(kind), workload, time)
    BY <2>3, <2>5, <2>6, <2>7, SupportsDemand, Zenon
  <2> QED
    BY <2>2, <2>8
<1>3. ASSUME NEW x \in Contents(ledger), Supports(x, WitnessDemand(kind), workload, time)
      PROVE  RecentConduct(kind)
  <2>1. /\ x.producer = Identity(WitnessName(kind))
        /\ \A d \in Dimensions : workload[d] = Unset \/ x.epoch[d] = workload[d]
        /\ x.capturedAt \in (time - ObservedAge) .. time
    <3>1. Supports(x, WitnessDemand(kind), workload, time) <=>
             /\ matchesEvidenceType(x.type, WitnessType(kind))
             /\ x.producer = Identity(WitnessName(kind))
             /\ \A d \in Dimensions : workload[d] = Unset \/ x.epoch[d] = workload[d]
             /\ x.capturedAt \in (time - ObservedAge) .. time
      BY SupportsDemand
    <3> QED
      BY <1>3, <3>1, Zenon
  <2> DEFINE c == <<kind, x.capturedAt, x.epoch>>
  <2>2. c \in conduct
    BY <1>1, <2>1, Zenon DEF EnvelopesInv
  <2>3. c[1] = kind /\ c[2] = x.capturedAt /\ c[3] = x.epoch
    OBVIOUS
  <2> HIDE DEF c
  <2>4. \A d \in Dimensions : workload[d] \in {Unset, c[3][d]}
    BY <2>1, <2>3
  <2>5. c[2] \in time - ObservedAge .. time
    BY <2>1, <2>3
  <2> QED
    BY <2>2, <2>3, <2>4, <2>5 DEF RecentConduct
<1> QED
  BY <1>2, <1>3, Zenon

\* The observers of the contract are ones the default policy authorises.
LEMMA WitnessAuthorised ==
    ASSUME NEW kind \in WitnessKinds
    PROVE  IsAuthorizedProducer(NewDefaultAuthorityPolicy,
                                Identity(WitnessName(kind)), WitnessType(kind))
<1> DEFINE name == WitnessName(kind)
           type == WitnessType(kind)
           p == NewDefaultAuthorityPolicy
           i == Identity(name)
           D == {"prod", "ckodex.local"}
           A == [producer |-> <<"spiffe", "prod", "cel-admission-observer">>,
                 types |-> {<<"kubernetes", "admission">>}]
           B == [producer |-> <<"spiffe", "prod", "tetragon-collector">>,
                 types |-> {<<"workload", "runtime", "process">>,
                            <<"workload", "runtime", "capabilities">>}]
           C == [producer |-> <<"spiffe", "prod", "cilium-collector">>,
                 types |-> {<<"network", "flow", "isolation">>}]
           E == [producer |-> <<"spiffe", "prod", "sigstore-verifier">>,
                 types |-> {<<"supply", "chain", "signature">>,
                            <<"supply", "chain", "provenance">>}]
<1>1. p = [domains |-> D, permissions |-> {A, B, C, E}]
  BY Zenon DEF NewDefaultAuthorityPolicy
<1>2. \E entry \in {A, B, C} : entry.producer = i /\ type \in entry.types
  <2>1. CASE kind = "admission"
    <3>1. A.producer = i /\ type \in A.types
      BY <2>1 DEF Identity, WitnessName, WitnessType
    <3> QED
      BY <3>1, Zenon
  <2>2. CASE kind = "process"
    <3>1. B.producer = i /\ type \in B.types
      BY <2>2 DEF Identity, WitnessName, WitnessType
    <3> QED
      BY <3>1, Zenon
  <2>3. CASE kind = "flow"
    <3>1. C.producer = i /\ type \in C.types
      BY <2>3 DEF Identity, WitnessName, WitnessType
    <3> QED
      BY <3>1, Zenon
  <2> QED
    BY <2>1, <2>2, <2>3, Zenon DEF WitnessKinds
<1> HIDE DEF A, B, C, E, D, p, type
<1>3. p.domains = D /\ p.permissions = {A, B, C, E}
  BY <1>1
<1>4. Len(i) > 1 /\ i[1] = "spiffe" /\ i[2] = "prod"
  <2> HIDE DEF name
  <2> QED
    BY DEF Identity
<1> HIDE DEF i
<1>5. "prod" \in D
  BY DEF D
<1>6. ValidateIdentity(p, i)
  BY <1>3, <1>4, <1>5 DEF ValidateIdentity
<1>7. \E entry \in p.permissions : entry.producer = i /\ {type, <<"*">>} \cap entry.types # {}
  <2>1. PICK entry \in {A, B, C} : entry.producer = i /\ type \in entry.types
    BY <1>2
  <2>2. entry \in p.permissions /\ {type, <<"*">>} \cap entry.types # {}
    BY <1>3, <2>1
  <2> QED
    BY <2>1, <2>2
<1>8. IsAuthorizedProducer(p, i, type)
  BY <1>6, <1>7, Zenon DEF IsAuthorizedProducer
<1> QED
  BY <1>8, Zenon DEF p, i, type

\* For every set of events and epochs, at any time: the composite claim is
\* VERIFIED exactly on recent and proper conduct of all three kinds, and the
\* evidence it names is by authorised producers and in the contract's window.
THEOREM ObserversWitnessVerified == ObserversSpec => []VerifiedIsWitnessed
<1>1. WitnessInv => VerifiedIsWitnessed
  <2> SUFFICES ASSUME WitnessInv
               PROVE  VerifiedIsWitnessed
    OBVIOUS
  <2> DEFINE verdict == Evaluate(CompositeContract, ledger, workload, time)
  <2>1. time \in Int /\ IsList(ledger) /\ EnvelopesInv
    BY DEF WitnessInv
  <2>2. DOMAIN ledger \subseteq Nat
    BY <2>1 DEF IsList
  <2>3. \A kind \in WitnessKinds :
           /\ WitnessDemand(kind).maxAge = ObservedAge /\ WitnessDemand(kind).required
    BY DemandFields, Zenon DEF WitnessDemand
  <2>4. WellFormed(CompositeContract, ledger, time)
    <3>1. \E n \in Nat : DOMAIN CompositeContract.requirements = 1 .. n
      BY CompositeDemands
    <3>2. \A r \in DOMAIN CompositeContract.requirements :
             CompositeContract.requirements[r].maxAge \in Int
      <4>1. ObservedAge \in Int
        BY ObserversAssumption
      <4> QED
        BY <2>3, <4>1, CompositeDemands, Zenon
    <3>3. \A i \in DOMAIN ledger : ledger[i].capturedAt \in Int
      BY <2>1, Zenon DEF EnvelopesInv, Contents
    <3>4. CompositeContract.onMissing # "VERIFIED"
      BY CompositeDemands
    <3> QED
      BY <2>1, <3>1, <3>2, <3>3, <3>4, Zenon DEF WellFormed
  <2>5. verdict.state = "VERIFIED" <=> \A kind \in WitnessKinds : RecentConduct(kind)
    <3>1. verdict.state = "VERIFIED"
            <=> Supported(CompositeContract, Contents(ledger), workload, time)
      BY <2>4, VerifiedIffSupported
    <3>2. ASSUME Supported(CompositeContract, Contents(ledger), workload, time),
                 NEW kind \in WitnessKinds
          PROVE  RecentConduct(kind)
      <4>1. PICK r \in DOMAIN CompositeContract.requirements :
              CompositeContract.requirements[r] = WitnessDemand(kind)
        BY CompositeDemands, Zenon
      <4>2. \E x \in Contents(ledger) : Supports(x, WitnessDemand(kind), workload, time)
        BY <2>3, <3>2, <4>1, Zenon DEF Supported
      <4> QED
        BY <4>2, RecentIsSupported, Zenon
    <3>3. ASSUME \A kind \in WitnessKinds : RecentConduct(kind)
          PROVE  Supported(CompositeContract, Contents(ledger), workload, time)
      <4>1. ASSUME NEW r \in DOMAIN CompositeContract.requirements
            PROVE  /\ CompositeContract.requirements[r].required
                   /\ \E x \in Contents(ledger) :
                        Supports(x, CompositeContract.requirements[r], workload, time)
        <5>1. PICK kind \in WitnessKinds :
                CompositeContract.requirements[r] = WitnessDemand(kind)
          BY CompositeDemands, Zenon
        <5>2. \E x \in Contents(ledger) : Supports(x, WitnessDemand(kind), workload, time)
          BY <3>3, RecentIsSupported, Zenon
        <5> QED
          BY <2>3, <5>1, <5>2, Zenon
      <4>2. 1 \in DOMAIN CompositeContract.requirements
        BY CompositeDemands
      <4> QED
        BY <4>1, <4>2, Zenon DEF Supported
    <3> QED
      BY <3>1, <3>2, <3>3, Zenon
  <2>6. ASSUME NEW e \in verdict.verified
        PROVE  /\ IsAuthorizedProducer(NewDefaultAuthorityPolicy, e.producer, e.type)
               /\ e \in Range(ListObservations(ledger, time - ObservedAge))
    <3>1. /\ e \in Contents(ledger)
          /\ \E r \in DOMAIN CompositeContract.requirements :
               Supports(e, CompositeContract.requirements[r], workload, time)
      BY <2>2, <2>4, <2>6, NamedEvidenceSupports, Zenon
    <3>2. PICK kind \in WitnessKinds : Supports(e, WitnessDemand(kind), workload, time)
      BY <3>1, CompositeDemands, Zenon
    <3>3. /\ e.producer = Identity(WitnessName(kind))
          /\ e.capturedAt \in (time - ObservedAge) .. time
      BY <3>2, SupportsDemand, Zenon
    <3>4. e.type = WitnessType(kind)
      BY <2>1, <3>1, <3>3, Zenon DEF EnvelopesInv
    <3>5. IsAuthorizedProducer(NewDefaultAuthorityPolicy, e.producer, e.type)
      BY <3>3, <3>4, WitnessAuthorised, Zenon
    <3>6. e \in Range(ListObservations(ledger, time - ObservedAge))
      <4>1. PICK i \in DOMAIN ledger : e = ledger[i]
        BY <3>1 DEF Contents
      <4>2. ledger[i].capturedAt >= time - ObservedAge
        BY <2>1, <3>3, <4>1, ObserversAssumption
      <4> DEFINE listed == ListObservations(ledger, time - ObservedAge)
      <4>3. i \in DOMAIN listed /\ listed[i] = e
        BY <4>1, <4>2 DEF ListObservations
      <4> HIDE DEF listed
      <4>4. e \in Range(listed)
        BY <4>3 DEF Range
      <4> QED
        BY <4>4 DEF listed
    <3> QED
      BY <3>5, <3>6
  <2> QED
    BY <2>5, <2>6, Zenon DEF VerifiedIsWitnessed, RecentConduct, WitnessKinds
<1> QED
  BY <1>1, InitWitnessInv, StepWitnessInv, PTL DEF ObserversSpec
=============================================================================
