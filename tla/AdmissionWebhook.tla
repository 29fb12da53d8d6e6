--------------------------- MODULE AdmissionWebhook ---------------------------
(***************************************************************************)
(* The validating admission webhook (internal/adapters/webhook) and the    *)
(* admission observer that writes its evidence (internal/adapters/cel), as *)
(* `oskal webhook' and the controller set them up: requests are handled    *)
(* concurrently, the evidence sink may fail, the API server may give up,   *)
(* and the process may be stopped while handlers run.                      *)
(*                                                                         *)
(* A Pod has context (user, nonRoot), containers and init (sets of         *)
(* security contexts), name and prefix (GenerateName).  Pointers that may  *)
(* be nil hold sets with at most one element.                              *)
(***************************************************************************)
EXTENDS Integers, Sequences, FiniteSets

CONSTANTS
    Pods,          \* the Pods of the first request
    Rivals,        \* the Pods of the requests that follow, in Pods
    Modes,         \* values of --mode, "" for the default
    MaxRequests    \* bound: admission requests

\* A pointer to a Boolean is nil, or points to one; a nil security context has
\* nothing but nil pointers.
ASSUME WebhookAssumption ==
    /\ Rivals \subseteq Pods
    /\ \A pod \in Pods : \A c \in pod.containers \cup pod.init :
         /\ c.given \in BOOLEAN
         /\ c.nonRoot \in {{}, {TRUE}, {FALSE}}
         /\ ~c.given => /\ c.user = {} /\ c.nonRoot = {} /\ c.privileged = {}
                        /\ c.escalates = {} /\ c.adds = {}

VARIABLES
    webhookMode,   \* ServerConfig.Mode
    sink,          \* "repository" (controller), "directory" (CLI) or "none"
    serving,       \* of the server: starting, running, stopping, stopped
    expired,       \* the certificate is past its 365 days
    requests,      \* the requests so far, with the state of their handlers
    stored         \* envelopes the sink has written

webhookVars == <<webhookMode, sink, serving, expired, requests, stored>>

-----------------------------------------------------------------------------

(***************************************************************************)
(* The checks.  A container's security context has given (FALSE for nil),  *)
(* user, nonRoot, privileged, escalates and adds.                          *)
(***************************************************************************)

\* Faulty variant of allContainers: init containers are not looked at.
allContainersNoInit(pod) == pod.containers

\* Ephemeral containers are not among them.
allContainers(pod) == pod.containers \cup pod.init

\* Is some violation reported?
checkNonRootCompliance(pod) ==
    LET podNonRoot == pod.context.nonRoot = {TRUE} IN
    \/ pod.context.user = {0}
    \/ \E c \in allContainers(pod) :
         IF c.given
         THEN \/ c.user = {0}
              \/ c.nonRoot = {FALSE}
              \/ c.nonRoot = {} /\ ~podNonRoot
         ELSE ~podNonRoot

Prohibited == {"CAP_SYS_ADMIN", "SYS_ADMIN", "CAP_NET_ADMIN", "NET_ADMIN"}

checkCapabilityCompliance(pod) ==
    \E c \in allContainers(pod) :
        /\ c.given
        /\ \/ c.privileged = {TRUE}
           \/ c.escalates = {TRUE}
           \/ c.adds \cap Prohibited # {}

\* The name in the subject: of the request, of the Pod, generated, or the UID.
PodName(request, uid) ==
    IF request.name # "" THEN <<request.name>>
    ELSE IF request.pod.name # "" THEN <<request.pod.name>>
    ELSE IF request.pod.prefix # "" THEN <<request.pod.prefix, uid>>
    ELSE <<uid>>

\* GenerateAdmissionEvidence, which is only called for Pods that are allowed.
\* The ID is the time in nanoseconds; uid is in the subject's attributes.
GenerateAdmissionEvidence(request, uid) ==
    [id |-> request.now, subject |-> PodName(request, uid), uid |-> uid,
     type |-> "kubernetes.admission"]

(***************************************************************************)
(* validateRequest up to the sink: the answer, and the envelopes made.     *)
(***************************************************************************)
Enforcing == webhookMode \in {"", "enforcing"}

Response(allowed, degraded, envelopes) ==
    [allowed |-> allowed, degraded |-> degraded,
     warned |-> degraded /\ webhookMode = "warn", envelopes |-> envelopes]

NotAnswered == Response(FALSE, FALSE, {})

validateRequest(request, uid) ==
    IF request.kind # "Pod" THEN Response(TRUE, FALSE, {})
    ELSE IF ~request.parses THEN Response(FALSE, FALSE, {})
    ELSE IF checkNonRootCompliance(request.pod) \/ checkCapabilityCompliance(request.pod)
    THEN IF Enforcing THEN Response(FALSE, FALSE, {}) ELSE Response(TRUE, TRUE, {})
    ELSE Response(TRUE, FALSE, {GenerateAdmissionEvidence(request, uid)})

-----------------------------------------------------------------------------

\* NewAdmissionWebhookServer.  The controller gives no mode and has a sink.
WebhookInit ==
    /\ webhookMode \in Modes
    /\ sink \in {"repository", "directory", "none"}
    /\ sink = "repository" => webhookMode = ""
    /\ serving = "starting"
    /\ expired = FALSE
    /\ requests = <<>>
    /\ stored = {}

\* Start: the key pair is GenerateSelfSignedCert's or read from files; one
\* that does not parse ends the server with an error.
StartWebhook(parses) ==
    /\ serving = "starting"
    /\ serving' = IF parses THEN "running" ELSE "stopped"
    /\ UNCHANGED <<webhookMode, sink, expired, requests, stored>>

\* The certificate is never renewed: after a year no connection is made.
CertificateExpires ==
    /\ serving = "running"
    /\ expired' = TRUE
    /\ UNCHANGED <<webhookMode, sink, serving, requests, stored>>

\* The API server sends a review; now is the handler's clock.
SendReview(kind, parses, pod, name, now) ==
    /\ serving = "running"
    /\ Len(requests) < MaxRequests
    /\ requests' = Append(requests,
         [kind |-> kind, parses |-> parses, pod |-> pod, name |-> name, now |-> now,
          stage |-> IF expired THEN "lost" ELSE "sent",
          response |-> NotAnswered, delivery |-> "none", waiting |-> ~expired])
    /\ UNCHANGED <<webhookMode, sink, serving, expired, stored>>

\* Faulty variant of AfterDecision: the answer goes out before the sink.
AnswerFirst(response) == "answered"

\* Where the handler is after it has decided.
AfterDecision(response) ==
    IF response.envelopes # {} /\ sink # "none" THEN "delivering" ELSE "answered"

\* handleValidate with a review it can decode, up to the sink.  The other
\* bodies and methods end in an HTTP error, which denies like no answer.
HandleValidate(i) ==
    LET response == validateRequest(requests[i], i) IN
    /\ serving # "stopped"
    /\ requests[i].stage = "sent"
    /\ requests' = [requests EXCEPT ![i].response = response,
                                    ![i].stage = AfterDecision(response)]
    /\ UNCHANGED <<webhookMode, sink, serving, expired, stored>>

BadRequest(i) ==
    /\ requests[i].stage = "sent"
    /\ requests' = [requests EXCEPT ![i].stage = "lost"]
    /\ UNCHANGED <<webhookMode, sink, serving, expired, stored>>

\* EvidenceSink.  The directory has one file per ID; a repository keeps
\* envelopes under their digests.
Written(envelope) ==
    {envelope} \cup IF sink = "directory" THEN {e \in stored : e.id # envelope.id}
                    ELSE stored

Deliver(i) ==
    /\ serving # "stopped"
    /\ requests[i].stage = "delivering"
    /\ \E envelope \in requests[i].response.envelopes : stored' = Written(envelope)
    /\ requests' = [requests EXCEPT ![i].stage = "answered", ![i].delivery = "done"]
    /\ UNCHANGED <<webhookMode, sink, serving, expired>>

\* The sink's error is logged (controller) or dropped (CLI): the answer stays.
DeliverFails(i) ==
    /\ serving # "stopped"
    /\ requests[i].stage = "delivering"
    /\ requests' = [requests EXCEPT ![i].stage = "answered", ![i].delivery = "failed"]
    /\ UNCHANGED <<webhookMode, sink, serving, expired, stored>>

\* The answer reaches the API server, which acts on it.
Conclude(i) ==
    /\ requests[i].stage = "answered"
    /\ requests[i].waiting
    /\ requests' = [requests EXCEPT ![i].waiting = FALSE, ![i].stage =
                      IF requests[i].response.allowed THEN "admitted" ELSE "denied"]
    /\ UNCHANGED <<webhookMode, sink, serving, expired, stored>>

\* The API server waits no longer and denies (failurePolicy: Fail); the
\* handler does not notice.
GiveUp(i) ==
    /\ requests[i].waiting
    /\ requests' = [requests EXCEPT ![i].waiting = FALSE]
    /\ UNCHANGED <<webhookMode, sink, serving, expired, stored>>

\* The context is done or a signal came: Shutdown closes the listener ...
ShutdownWebhook ==
    /\ serving = "running"
    /\ serving' = "stopping"
    /\ UNCHANGED <<webhookMode, sink, expired, requests, stored>>

\* ... and makes Start return (the controller) or is given up after five
\* seconds (the CLI), so the process may end with handlers running.
WebhookExits ==
    /\ serving = "stopping"
    /\ serving' = "stopped"
    /\ requests' = [i \in DOMAIN requests |->
         [requests[i] EXCEPT !.stage =
            IF @ \in {"sent", "delivering"} THEN "lost" ELSE @]]
    /\ UNCHANGED <<webhookMode, sink, expired, stored>>

WebhookNext ==
    \/ \E parses \in BOOLEAN : StartWebhook(parses)
    \/ CertificateExpires
    \/ \E pod \in IF requests = <<>> THEN Pods ELSE Rivals, now \in 1 .. 2 :
         \E name \in {"", pod.name} : SendReview("Pod", TRUE, pod, name, now)
    \/ \E pod \in Rivals : \/ SendReview("Pod", FALSE, pod, pod.name, 1)
                         \/ SendReview("Deployment", TRUE, pod, pod.name, 1)
    \/ \E i \in DOMAIN requests :
         \/ HandleValidate(i) \/ BadRequest(i)
         \/ Deliver(i) \/ DeliverFails(i)
         \/ Conclude(i) \/ GiveUp(i)
    \/ ShutdownWebhook
    \/ WebhookExits

WebhookSpec == WebhookInit /\ [][WebhookNext]_webhookVars

(***************************************************************************)
(* Properties.                                                             *)
(***************************************************************************)
Admitted == {i \in DOMAIN requests : requests[i].stage = "admitted"}

\* What the kubelet would do with a container: the container's own settings
\* win over the Pod's.
Effective(own, default) == IF own # {} THEN own ELSE default

RunsRestricted(pod, c) ==
    /\ Effective(c.nonRoot, pod.context.nonRoot) = {TRUE}
    /\ Effective(c.user, pod.context.user) # {0}
    /\ c.privileged # {TRUE} /\ c.escalates # {TRUE}
    /\ c.adds \cap Prohibited = {}

\* In enforcing mode every container and init container of an admitted Pod
\* runs as non-root and without the prohibited privileges under the
\* kubelet's rules for inheriting security contexts, which the checks of
\* the webhook do not follow but restate.
AdmittedIsConformant ==
    Enforcing =>
      \A i \in Admitted : requests[i].kind = "Pod" =>
        \A c \in requests[i].pod.containers \cup requests[i].pod.init :
          RunsRestricted(requests[i].pod, c)

\* Proof before side effect: when the API server admits a conformant Pod,
\* its envelope is already with the sink, also if the process was stopped at
\* any moment and whatever other handlers did.  The exceptions are a sink
\* that failed and, in the CLI's directory, a handler with the same clock.
AdmittedHasEvidence ==
    sink # "none" =>
      \A i \in Admitted : \A envelope \in requests[i].response.envelopes :
        \/ envelope \in stored
        \/ requests[i].delivery = "failed"
        \/ sink = "directory"
             /\ \E j \in DOMAIN requests \ {i} : requests[j].now = requests[i].now

\* README.md:136 of audit mode: a non-conformant workload is admitted while
\* "generating in-flight violation evidence".
AuditLeavesEvidence ==
    webhookMode = "audit" =>
      \A i \in Admitted : requests[i].response.degraded =>
        requests[i].response.envelopes # {}
=============================================================================
