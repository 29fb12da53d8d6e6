------------------------------ MODULE MCComponents ------------------------------
(***************************************************************************)
(* The components that share no state with each other: receipts and the    *)
(* SDK, air-gap bundles, the state machine, the state repository, the      *)
(* admission webhook, identities and observers, OSCAL documents, the       *)
(* command line and the MCP server.  One run explores each on its own:     *)
(* part is the one that moves, and the others stay in one initial state.   *)
(***************************************************************************)
EXTENDS ReceiptExchange, AirgapBundle, AssuranceFSM, StateRepository,
        AdmissionWebhook, Observers, CommandLine, McpServer

CONSTANT Parts    \* the parts that are explored

VARIABLE part

NoEnvironment == [dir |-> NoDir, server |-> NoServer]

componentVars ==
    <<part, exchangeVars, bundleVars, fsmVars, repoVars, webhookVars,
      identityVars, observerVars, oscalVars, commandVars, mcpVars>>

\* Of the parts that do not move one initial state is enough.
Resting ==
    /\ part \notin {"receipts", "sdk"} => embedded
    /\ part # "machine" => state = "UNKNOWN"
    /\ part # "webhook" => webhookMode = "" /\ sink = "repository"
    /\ part # "observers" => workload = CHOOSE e \in WorkloadEpochs : TRUE
    /\ part # "commands" => /\ environment = NoEnvironment
                            /\ settings = NoSettings
                            /\ \A d \in Directories : ~folders[d].exists

Init ==
    /\ part \in Parts
    /\ ExchangeInit /\ BundleInit /\ FSMInit /\ RepoInit /\ WebhookInit
    /\ IdentityInit /\ ObserversInit /\ OscalInit /\ CommandInit /\ McpInit
    /\ Resting

\* The steps of one part.
ExchangeStep ==
    /\ \/ part = "receipts" /\ ReceiptsNext
       \/ part = "sdk" /\ ObserveNext
    /\ UNCHANGED <<part, bundleVars, fsmVars, repoVars, webhookVars, identityVars,
                   observerVars, oscalVars, commandVars, mcpVars>>

BundleStep ==
    /\ part = "bundle" /\ BundleNext
    /\ UNCHANGED <<part, exchangeVars, fsmVars, repoVars, webhookVars, identityVars,
                   observerVars, oscalVars, commandVars, mcpVars>>

FSMStep ==
    /\ \/ part = "machine" /\ MachineNext
       \/ part = "vector" /\ VectorNext
    /\ UNCHANGED <<part, exchangeVars, bundleVars, repoVars, webhookVars, identityVars,
                   observerVars, oscalVars, commandVars, mcpVars>>

RepoStep ==
    /\ part = "repository" /\ RepoNext
    /\ UNCHANGED <<part, exchangeVars, bundleVars, fsmVars, webhookVars, identityVars,
                   observerVars, oscalVars, commandVars, mcpVars>>

WebhookStep ==
    /\ part = "webhook" /\ WebhookNext
    /\ UNCHANGED <<part, exchangeVars, bundleVars, fsmVars, repoVars, identityVars,
                   observerVars, oscalVars, commandVars, mcpVars>>

IdentityStep ==
    /\ part = "identity" /\ IdentityNext
    /\ UNCHANGED <<part, exchangeVars, bundleVars, fsmVars, repoVars, webhookVars,
                   observerVars, oscalVars, commandVars, mcpVars>>

ObserversStep ==
    /\ part = "observers" /\ ObserversNext
    /\ UNCHANGED <<part, exchangeVars, bundleVars, fsmVars, repoVars, webhookVars,
                   identityVars, oscalVars, commandVars, mcpVars>>

OscalStep ==
    /\ part = "oscal" /\ OscalNext
    /\ UNCHANGED <<part, exchangeVars, bundleVars, fsmVars, repoVars, webhookVars,
                   identityVars, observerVars, commandVars, mcpVars>>

CommandStep ==
    /\ part = "commands" /\ CommandNext
    /\ UNCHANGED <<part, exchangeVars, bundleVars, fsmVars, repoVars, webhookVars,
                   identityVars, observerVars, oscalVars, mcpVars>>

McpStep ==
    /\ part = "mcp" /\ McpNext
    /\ UNCHANGED <<part, exchangeVars, bundleVars, fsmVars, repoVars, webhookVars,
                   identityVars, observerVars, oscalVars, commandVars>>

Next ==
    \/ ExchangeStep \/ BundleStep \/ FSMStep \/ RepoStep \/ WebhookStep
    \/ IdentityStep \/ ObserversStep \/ OscalStep \/ CommandStep \/ McpStep

Spec == Init /\ [][Next]_componentVars

-----------------------------------------------------------------------------

(***************************************************************************)
(* Receipts and bundles: a control with and without a version; a package   *)
(* whose payloads can be read, one of which one is lost, and one without.  *)
(***************************************************************************)
MCControls == {[namespace |-> "nist", id |-> "AC-6", version |-> v] : v \in {"", "5"}}

EnvelopeWith(id, artifact) ==
    [id |-> id, artifact |-> artifact, captured |-> 1, uri |-> "u"]

MCPackages ==
    {<<EnvelopeWith("a", "p"), EnvelopeWith("b", "q")>>,
     <<EnvelopeWith("a", "lost"), EnvelopeWith("b", "p")>>,
     <<EnvelopeWith("a", "none")>>}

\* Epochs that differ in one dimension, with and without the policy.
EpochOf(subject, policy) ==
    [d \in Dimensions |-> IF d = "subject" THEN <<subject>>
                          ELSE IF d = "policy" THEN policy ELSE <<d>>]

MCEpochs == {EpochOf("v1", <<"p">>), EpochOf("v2", <<"p">>),
             EpochOf("v1", <<"q">>), EpochOf("v1", Unset)}

MCWorkloadEpochs == {EpochOf("v1", <<"p">>), EpochOf("v2", <<"p">>), EpochOf("v1", Unset)}

(***************************************************************************)
(* Pods: a container that is well, and an init container of every kind in  *)
(* a Pod that does and in one that does not ask for runAsNonRoot.          *)
(***************************************************************************)
Context(user, nonRoot, privileged, escalates, adds) ==
    [given |-> TRUE, user |-> user, nonRoot |-> nonRoot, privileged |-> privileged,
     escalates |-> escalates, adds |-> adds]

NoContext == [Context({}, {}, {}, {}, {}) EXCEPT !.given = FALSE]
GoodContext == Context({}, {TRUE}, {}, {}, {})

MCContexts ==
    {NoContext, GoodContext, Context({}, {FALSE}, {}, {}, {}),
     Context({0}, {TRUE}, {}, {}, {}), Context({1000}, {}, {FALSE}, {FALSE}, {"CHOWN"}),
     Context({}, {TRUE}, {TRUE}, {}, {}), Context({}, {TRUE}, {}, {TRUE}, {}),
     Context({}, {TRUE}, {}, {}, {"SYS_ADMIN"})}

PodOf(user, nonRoot, init, name) ==
    [context |-> [user |-> user, nonRoot |-> nonRoot], containers |-> {GoodContext},
     init |-> init, name |-> name, prefix |-> IF name = "" THEN "web-" ELSE ""]

MCRivals == {PodOf({}, {}, {}, "web")}
MCPods == MCRivals \cup {PodOf({0}, {TRUE}, {}, "")}
            \cup {PodOf({}, nonRoot, {c}, "") : nonRoot \in {{}, {TRUE}}, c \in MCContexts}

(***************************************************************************)
(* SVIDs with no, one and several URIs, and what observers see.            *)
(***************************************************************************)
URI(scheme, domain, path) == [scheme |-> scheme, domain |-> domain, path |-> path]

MCCertificates ==
    {[uris |-> uris, root |-> root, notBefore |-> w[1], notAfter |-> w[2]] :
       uris \in {<<>>, <<URI("spiffe", "", <<>>)>>,
                 <<URI("https", "x", <<>>),
                   URI("spiffe", "prod", <<"ns", "payments", "sa", "api">>)>>,
                 <<URI("spiffe", "edge", <<"ns", "other">>)>>},
       root \in Roots, w \in {<<4, 6>>, <<4, 5>>}}

MCClusterEvents ==
    {[kind |-> "process", uid |-> 0, capabilities |-> {}],
     [kind |-> "process", uid |-> 1, capabilities |-> {"CAP_SYS_ADMIN"}],
     [kind |-> "process", uid |-> 1, capabilities |-> {"CAP_CHOWN"}],
     [kind |-> "flow", egressIsolated |-> TRUE],
     [kind |-> "flow", egressIsolated |-> FALSE],
     [kind |-> "admission", allowed |-> TRUE],
     [kind |-> "artifact", digestIsSHA256 |-> TRUE, signer |-> "release"],
     [kind |-> "model", tamperProof |-> TRUE, safetyScore |-> 79],
     [kind |-> "report", result |-> "pass", severity |-> "LOW", source |-> "trivy",
      timestamp |-> 0]}

(***************************************************************************)
(* OSCAL: evaluations that share artifacts, IDs that contain one another,  *)
(* and documents whose titles give one Kubernetes name.                    *)
(***************************************************************************)
Artifact(digest, uri) == [digest |-> digest, uri |-> uri]
AssessedUntil(id, evidence, validUntil) ==
    [control |-> [namespace |-> "nist", id |-> id], state |-> "ASSURED",
     evidence |-> evidence, evaluatedAt |-> 1, validUntil |-> validUntil]
Assessed(id, evidence) == AssessedUntil(id, evidence, 2)
FindingOf(id, severity) ==
    [control |-> [namespace |-> "nist", id |-> id], title |-> <<"t">>, severity |-> severity]

MCAssessments ==
    {<<>>,
     <<Assessed(<<"AC-2">>, <<Artifact("d1", "u")>>),
       AssessedUntil(<<"AC-2", "0">>, <<Artifact("d2", "u"), Artifact("d1", "v")>>, 0)>>,
     <<Assessed(<<>>, <<>>), Assessed(<<"AC-2", "(", "1", ")">>, <<>>)>>,
     <<Assessed(<<"AC-6">>, <<Artifact("d1", "u"), Artifact("d1", "u")>>)>>}

MCReported ==
    {<<>>, <<FindingOf(<<"AC-2">>, <<"h">>)>>,
     <<FindingOf(<<"AC-6">>, <<"h">>), FindingOf(<<>>, <<>>)>>}

\* A prop whose value is no duration, and an age.
Stated(name, value) == [name |-> name, value |-> value, duration |-> {}]
Aged(name, hours) == [name |-> name, value |-> "age", duration |-> {hours}]
Asked(control, props) == [control |-> control, props |-> props]
Part(title, requirements) == [title |-> title, requirements |-> requirements]
Components(title, components) ==
    [Document("component-definition", title) EXCEPT !.components = components]

MCForeign ==
    {Components(<<"c">>,
       <<Part(<<"A", " ", "b", "b">>,
              <<Asked(<<"AC-6">>, <<Stated("evidence-type", "scan"), Stated("producer", "k8s"),
                                    Aged("freshness", 1), Stated("type", "admission")>>),
                Asked(<<"AC-2">>, <<>>)>>),
         Part(<<"!">>, <<Asked(<<"AU-2">>, <<Aged("max-age", 48), Stated("source", "k8s"),
                                             Aged("freshness", 36)>>)>>),
         Part(<<"a", "-", "b">>, <<>>)>>),
     Components(<<"c", "!">>,
       <<Part(<<"a">>, <<Asked(<<"AU-2">>, <<>>)>>),
         Part(<<"A", "_">>, <<Asked(<<"AU-3">>, <<Stated("freshness", "P1D")>>)>>)>>),
     [Document("system-security-plan", <<"c", "!">>) EXCEPT
        !.system = <<"a", ".", "b">>,
        !.requirements =
          <<Asked(<<"AU-2">>, <<Stated("type", "scan"), Aged("freshness", 48),
                                Stated("max-age", "30d")>>)>>],
     [Blank EXCEPT !.roots = {"system-security-plan", "assessment-results"},
                   !.requirements = <<Asked(<<"AU-2">>, <<>>)>>],
     [Blank EXCEPT !.roots = {"component-definition"}, !.identified = FALSE],
     [Blank EXCEPT !.roots = {"component-definition"}, !.hollow = TRUE],
     Blank}

(***************************************************************************)
(* Two workloads of one name in two namespaces, and the lines of a client. *)
(***************************************************************************)
MCWorkloads == {[namespace |-> ns, kind |-> "Deployment", name |-> <<"web">>] :
                  ns \in {"prod", "test"}}

\* A server and a directory, an empty directory, and a file that does not parse
\* and has set fields all the same; config init writes the others.
SettingsWith(kind, dir, server) == [kind |-> kind, dir |-> dir, server |-> server]

MCSettings ==
    {NoSettings, SettingsWith("valid", "other", "server"),
     SettingsWith("valid", NoDir, NoServer), SettingsWith("broken", "other", "server")}

MCEnvironments == {NoEnvironment, [dir |-> "other", server |-> "server"]}

Arguments(subject, content, profile, type) ==
    [subject |-> subject, content |-> content, schema |-> "auto", profile |-> profile,
     document_type |-> type]
NoArguments == Arguments("", "", "", "")

MessageOf(form, id, method, parses, tool, arguments) ==
    [form |-> form, id |-> id, method |-> method, paramsParse |-> parses, tool |-> tool,
     arguments |-> arguments]
ToolCall(tool, arguments) == MessageOf("message", 1, "tools/call", TRUE, tool, arguments)

MCMessages ==
    {MessageOf(f, 0, "", TRUE, "", NoArguments) : f \in {"blank", "broken", "huge", "message"}}
    \cup {MessageOf("message", 1, m, TRUE, "", NoArguments)
            : m \in {"initialize", "ping", "tools/list", "resources/list"}}
    \cup {MessageOf("message", 1, "tools/call", FALSE, "", NoArguments)}
    \cup {ToolCall(t, NoArguments) : t \in DOMAIN listTools \cup {"no_tool"}}
    \cup {ToolCall("project_oscal", Arguments("web", "", "", d)) : d \in {"ssp", "poam", "other"}}
    \cup {ToolCall("scaffold_compliance", Arguments("", "", p, "")) : p \in {"soc-2", "hipaa"}}
    \cup {ToolCall("validate_oscal", Arguments("", c, "", "")) : c \in {"poam", "text"}}
    \cup {ToolCall(t, Arguments("web", "", "", ""))
            : t \in {"get_assurance_state", "detect_drift", "explain_claim"}}
=============================================================================
