---------------------------- MODULE OscalDocuments ----------------------------
(***************************************************************************)
(* OSCAL documents: how evaluations, findings and contracts are projected  *)
(* (internal/projection/oscal/projector.go), how documents are validated   *)
(* (validator.go) and how they are ingested as ControlBindings and         *)
(* EvidenceContracts (internal/reconciler/oscal/ingest.go), the manifests  *)
(* of which `oskal import oscal' writes to a directory.                    *)
(*                                                                         *)
(* An evaluation has control (namespace and id, a sequence of parts),      *)
(* state, evidence (a sequence of [digest, uri]), evaluatedAt and          *)
(* validUntil, a finding has control, title and severity.  A time is 0     *)
(* where the code leaves it zero.  An implemented requirement has control  *)
(* and props, a prop name (in lower case), value and duration: the set of  *)
(* what time.ParseDuration makes of the value, empty if that is an error.  *)
(* Texts are sequences of letters.                                         *)
(***************************************************************************)
EXTENDS Integers, Sequences, FiniteSets, SequencesExt

CONSTANTS
    Assessments,   \* the sequences of evaluations that are projected
    Reported,      \* the sequences of findings that are projected
    Foreign,       \* documents of other tools
    MaxName,       \* length at which SanitizeK8sName cuts (63)
    MaxIngested    \* bound: documents imported

VARIABLES
    document,      \* the document at hand
    report,        \* history: what Validate said of it, under which type
    manifests,     \* the output directory: file name -> what was ingested
    ingested       \* history: the documents imported, in order

oscalVars == <<document, report, manifests, ingested>>

\* History: what a document was projected from, if OSKAL projected it.
Origin(evaluations, findings) ==
    [tool |-> "oskal", evaluations |-> evaluations, findings |-> findings]
NoOrigin == [tool |-> "other", evaluations |-> <<>>, findings |-> <<>>]

\* A document.  dates: the date-times in it; hollow: some list in it is null or
\* empty, where only a list with members or none at all is in order.
Blank == [roots |-> {}, identified |-> TRUE, title |-> <<>>, system |-> <<>>,
          components |-> <<>>, requirements |-> <<>>, observations |-> <<>>,
          resources |-> {}, findings |-> <<>>, tasks |-> <<>>, items |-> <<>>,
          dates |-> {}, hollow |-> FALSE, origin |-> NoOrigin]

Document(root, title) == [Blank EXCEPT !.roots = {root}, !.title = title]

\* What a document asks for, component by component.
AskedBy(d) ==
    IF "component-definition" \in d.roots THEN d.components
    ELSE <<[title |-> d.system, requirements |-> d.requirements]>>

\* Of the documents of other tools only what validation and ingestion look at
\* is modelled: the links inside of assessment results are not.
ASSUME OscalAssumption ==
    /\ \A s \in Assessments :
         /\ s \in Seq({s[i] : i \in DOMAIN s})
         /\ \A i \in DOMAIN s :
              /\ s[i].evidence \in Seq({s[i].evidence[k] : k \in DOMAIN s[i].evidence})
              /\ s[i].control.id \in Seq({s[i].control.id[k] : k \in DOMAIN s[i].control.id})
    /\ \A f \in Reported :
         /\ f \in Seq({f[i] : i \in DOMAIN f})
         /\ \A i \in DOMAIN f :
              f[i].control.id \in Seq({f[i].control.id[k] : k \in DOMAIN f[i].control.id})
    /\ \A d \in Foreign :
         /\ d.origin = NoOrigin /\ d.observations = <<>>
         /\ d.findings = <<>> /\ d.resources = {}
         /\ \A i \in DOMAIN AskedBy(d) : \A k \in DOMAIN AskedBy(d)[i].requirements :
              LET props == AskedBy(d)[i].requirements[k].props
              IN props \in Seq({props[j] : j \in DOMAIN props})

\* strings.Contains.
TextContains(text, part) ==
    \E i \in 0 .. Len(text) - Len(part) : SubSeq(text, i + 1, i + Len(part)) = part

-----------------------------------------------------------------------------

(***************************************************************************)
(* Assessment results.  An evidence artifact is one back-matter resource,  *)
(* however many observations point to it; a new UUID is a new name.        *)
(***************************************************************************)

\* Faulty variant of ResourceKey: artifacts are told apart by their URI.
ResourceKeyURI(ev) == ev.uri

\* The key of resourceUUIDs and resourceMap.
ResourceKey(ev) == ev.digest

\* Where artifacts occur: in which evaluation and at which place there.
Places(evaluations) ==
    UNION {{<<i, k>> : k \in DOMAIN evaluations[i].evidence} : i \in DOMAIN evaluations}

Earlier(p, q) == p[1] < q[1] \/ (p[1] = q[1] /\ p[2] < q[2])

EvidenceAt(evaluations, p) == evaluations[p[1]].evidence[p[2]]

ResourceUUID(ev) == <<"resource", ResourceKey(ev)>>

\* The resource of the first artifact with a key stays.
BackMatter(evaluations) ==
    LET key(p) == ResourceKey(EvidenceAt(evaluations, p))
        firsts == {p \in Places(evaluations) :
                     \A q \in Places(evaluations) : Earlier(q, p) => key(q) # key(p)}
        resource(ev) == [uuid |-> ResourceUUID(ev), digest |-> ev.digest, rlink |-> ev.uri]
    IN {resource(EvidenceAt(evaluations, p)) : p \in firsts}

Observation(evaluation, i) ==
    [uuid |-> <<"observation", i>>, control |-> evaluation.control,
     state |-> evaluation.state,
     relevant |-> [k \in DOMAIN evaluation.evidence |->
                     ResourceUUID(evaluation.evidence[k])]]

\* The observations whose title contains the control, else the first one.
RelatedObservations(finding, observations) ==
    LET named == {i \in DOMAIN observations :
                    TextContains(observations[i].control.id, finding.control.id)}
    IN IF named # {} THEN {observations[i].uuid : i \in named}
       ELSE {observations[i].uuid : i \in DOMAIN observations \cap {1}}

\* Each observation is collected when its evaluation was made; the result
\* begins and ends as the first evaluation does, or now if there is none.
ResultDates(evaluations) ==
    {evaluations[i].evaluatedAt : i \in DOMAIN evaluations}
    \cup {evaluations[i].validUntil : i \in DOMAIN evaluations \cap {1}}

\* observations is null without evaluations, the other lists are left out.
ProjectAssessmentResults(evaluations, findings) ==
    LET observations == [i \in DOMAIN evaluations |-> Observation(evaluations[i], i)]
    IN [Document("assessment-results", <<"r">>) EXCEPT
          !.observations = observations,
          !.resources = BackMatter(evaluations),
          !.findings = [i \in DOMAIN findings |->
             [title |-> findings[i].title, target |-> findings[i].control.id,
              related |-> RelatedObservations(findings[i], observations)]],
          !.dates = ResultDates(evaluations),
          !.hollow = evaluations = <<>>,
          !.origin = Origin(evaluations, findings)]

(***************************************************************************)
(* The other four documents.                                               *)
(***************************************************************************)

\* The props are none of those that ingestion looks for.
Implemented(id) == [control |-> id, props |-> <<>>]

\* An empty ID gives way to the canonical name with "_" for ":".
ProjectComponentDefinition(name, evaluations) ==
    [Document("component-definition", <<"c", " ">> \o name) EXCEPT
       !.components = <<[title |-> name, requirements |->
          [i \in DOMAIN evaluations |->
             LET c == evaluations[i].control IN
             Implemented(IF c.id = <<>> THEN <<c.namespace, "_">> ELSE c.id)]]>>,
       !.hollow = evaluations = <<>>,
       !.origin = Origin(evaluations, <<>>)]

ProjectSSP(name, evaluations) ==
    [Document("system-security-plan", <<"s", " ">> \o name) EXCEPT
       !.system = name,
       !.requirements = [i \in DOMAIN evaluations |->
                           Implemented(evaluations[i].control.id)],
       !.hollow = evaluations = <<>>,
       !.origin = Origin(evaluations, <<>>)]

\* One task per requirement of the contract.
ProjectAssessmentPlan(contract) ==
    [Document("assessment-plan", <<"a">>) EXCEPT
       !.tasks = contract, !.origin = Origin(<<>>, <<>>)]

\* One item per finding; no findings are one item that says so.
ProjectPOAM(findings) ==
    [Document("plan-of-action-and-milestones", <<"p">>) EXCEPT
       !.items = IF findings = <<>>
                 THEN <<[title |-> <<"p">>, values |-> {<<"satisfied">>}]>>
                 ELSE [i \in DOMAIN findings |->
                         [title |-> findings[i].title,
                          values |-> {<<":">> \o findings[i].control.id,
                                      findings[i].severity}]],
       !.origin = Origin(<<>>, findings)]

\* The evaluation that the MCP tool project_oscal makes up and projects.
ToolEvaluation ==
    [control |-> [namespace |-> "nist-sp-800-53", id |-> <<"AC-6">>],
     state |-> "UNKNOWN", evidence |-> <<>>, evaluatedAt |-> 1, validUntil |-> 0]

-----------------------------------------------------------------------------

(***************************************************************************)
(* Validation.                                                             *)
(***************************************************************************)
DocumentTypes == <<"assessment-results", "component-definition",
                   "system-security-plan", "assessment-plan",
                   "plan-of-action-and-milestones">>

\* DetectDocumentType: the first of the known roots; no type for none.
DetectDocumentType(roots) ==
    LET present == {i \in DOMAIN DocumentTypes : DocumentTypes[i] \in roots}
    IN IF present = {} THEN "" ELSE DocumentTypes[Min(present)]

NormalizeDocumentType(raw) ==
    CASE raw = "ar" -> "assessment-results"
      [] raw \in {"component", "cd"} -> "component-definition"
      [] raw = "ssp" -> "system-security-plan"
      [] raw = "ap" -> "assessment-plan"
      [] raw = "poam" -> "plan-of-action-and-milestones"
      [] raw \in Range(DocumentTypes) -> raw
      [] OTHER -> ""

\* Faulty variant of schemaFileMap: the schemas of components and plans are
\* swapped.
schemaFileMapSwapped(type) ==
    CASE type = "component-definition" -> "system-security-plan"
      [] type = "system-security-plan" -> "component-definition"
      [] OTHER -> type

\* The root that the schema of a type describes.
schemaFileMap(type) == type

\* The data types of the NIST schemas.  A string is not empty and neither begins
\* nor ends with a blank, a line is not empty, a token is a name without colon
\* that begins with a letter or "_", and a date-time has a year from 1900 on.
IsString(text) == text # <<>> /\ text[1] # " " /\ text[Len(text)] # " "
IsMarkupLine(text) == text # <<>>
IsToken(text) ==
    /\ text # <<>>
    /\ text[1] \notin {"0", "1", "-", "."}
    /\ \A i \in DOMAIN text : text[i] \notin {"(", ")", "!", ":", " "}
IsDateTime(time) == time # 0

\* The NIST schemas, as far as the documents differ in it: one root, a UUID,
\* no hollow list, and fields that are there and of their data type.
SchemaAccepts(root, d) ==
    /\ d.roots = {root}
    /\ d.identified
    /\ IsMarkupLine(d.title)
    /\ ~d.hollow
    /\ \A time \in d.dates : IsDateTime(time)
    /\ CASE root = "assessment-results" ->
              /\ \A r \in d.resources : r.digest # ""
              /\ \A i \in DOMAIN d.findings :
                   IsMarkupLine(d.findings[i].title) /\ IsToken(d.findings[i].target)
         [] root = "component-definition" ->
              \A i \in DOMAIN d.components :
                /\ IsMarkupLine(d.components[i].title)
                /\ \A j \in DOMAIN d.components[i].requirements :
                     IsToken(d.components[i].requirements[j].control)
         [] root = "system-security-plan" ->
              /\ IsString(d.system)
              /\ d.requirements # <<>>
              /\ \A j \in DOMAIN d.requirements : IsToken(d.requirements[j].control)
         [] root = "plan-of-action-and-milestones" ->
              /\ d.items # <<>>
              /\ \A i \in DOMAIN d.items :
                   /\ IsMarkupLine(d.items[i].title)
                   /\ \A value \in d.items[i].values : IsString(value)
         [] OTHER -> TRUE

\* Validator.Validate: the type and the verdict; an error has no type.
Validate(d, override) ==
    LET type == IF override \in {"", "auto"} THEN DetectDocumentType(d.roots)
                ELSE NormalizeDocumentType(override)
    IN IF type = "" THEN [type |-> "", valid |-> FALSE]
       ELSE [type |-> type, valid |-> SchemaAccepts(schemaFileMap(type), d)]

-----------------------------------------------------------------------------

(***************************************************************************)
(* Ingestion.                                                              *)
(***************************************************************************)

\* SanitizeK8sName: letters are lowered, blanks, "_" and "." become "-",
\* other characters go; "-" is trimmed at both ends before the name is cut.
Lowered(ch) == CASE ch = "A" -> "a" [] ch \in {" ", "_", "."} -> "-" [] OTHER -> ch

SanitizeK8sName(text) ==
    LET plain == SelectSeq([i \in DOMAIN text |-> Lowered(text[i])],
                           LAMBDA ch : ch \notin {"!", ":"})
        solid == {i \in DOMAIN plain : plain[i] # "-"}
        trimmed == IF solid = {} THEN <<>>
                   ELSE SubSeq(plain, CHOOSE i \in solid : \A j \in solid : i <= j,
                                      CHOOSE i \in solid : \A j \in solid : j <= i)
        cut == SubSeq(trimmed, 1, IF Len(trimmed) < MaxName THEN Len(trimmed) ELSE MaxName)
    IN IF cut = <<>> THEN <<"resource">> ELSE cut

\* The props that have a meaning, under two names each.
TypeProps == {"evidence-type", "type"}
ProducerProps == {"producer", "source"}
AgeProps == {"freshness", "max-age"}

\* Where a requirement has a prop of one of the names, and the last such value.
PropsNamed(req, names) == {i \in DOMAIN req.props : req.props[i].name \in names}
LastOf(places) == CHOOSE i \in places : \A j \in places : j <= i
LastValue(req, names, default) ==
    IF PropsNamed(req, names) = {} THEN default
    ELSE req.props[LastOf(PropsNamed(req, names))].value

\* Faulty variant of ContractRequirement: the props are not read.
ContractRequirementDefault(req, type, producer) ==
    [id |-> <<req.control, LastValue(req, TypeProps, type)>>, type |-> type,
     freshness |-> 24, producer |-> producer]

\* What an implemented requirement demands; type and producer are defaults.  Of
\* several props of a meaning the last one counts; an age that does not parse
\* is passed over, and 24 hours it is when none parses.
ContractRequirement(req, type, producer) ==
    LET ages == {i \in PropsNamed(req, AgeProps) : req.props[i].duration # {}}
    IN [id |-> <<req.control, LastValue(req, TypeProps, type)>>,
        type |-> LastValue(req, TypeProps, type),
        freshness |-> IF ages = {} THEN 24
                      ELSE CHOOSE t \in req.props[LastOf(ages)].duration : TRUE,
        producer |-> LastValue(req, ProducerProps, producer)]

\* The contract and the binding of a component or system.
Bound(slug, requirements, type, producer) ==
    LET demands == [i \in DOMAIN requirements |->
                      ContractRequirement(requirements[i], type, producer)]
    IN [name |-> slug, contract |-> demands,
        controls |-> {requirements[i].control : i \in DOMAIN requirements},
        requires |-> {demands[i].id : i \in DOMAIN demands}]

\* The bindings of the components that have requirements, by their place.
ingestComponentDefinition(d) ==
    [i \in {j \in DOMAIN d.components : d.components[j].requirements # <<>>} |->
       Bound(SanitizeK8sName(d.components[i].title), d.components[i].requirements,
             "admission", "oskal-engine")]

\* The names the code falls back to are never used: a slug is never empty.
ingestSSP(d) ==
    [i \in IF d.requirements = <<>> THEN {} ELSE {1} |->
       Bound(SanitizeK8sName(d.system), d.requirements, "compliance", "oskal-ssp-auditor")]

\* IngestOSCAL: the type it takes the document for, and what comes of it.
IngestOSCAL(d) ==
    IF "component-definition" \in d.roots /\ d.identified
    THEN [type |-> "component-definition", bound |-> ingestComponentDefinition(d)]
    ELSE IF "system-security-plan" \in d.roots /\ d.identified
    THEN [type |-> "system-security-plan", bound |-> ingestSSP(d)]
    ELSE [type |-> "", bound |-> <<>>]

-----------------------------------------------------------------------------

NoReport == [type |-> "", valid |-> FALSE]

OscalInit ==
    /\ document = Blank
    /\ report = NoReport
    /\ manifests = <<>>
    /\ ingested = <<>>

Take(d) == document' = d /\ report' = NoReport /\ UNCHANGED <<manifests, ingested>>

\* The exports.
ExportDocument ==
    \E evaluations \in Assessments, findings \in Reported :
        \/ Take(ProjectAssessmentResults(evaluations, findings))
        \/ Take(ProjectComponentDefinition(<<"a">>, evaluations))
        \/ Take(ProjectSSP(<<"A", ".">>, evaluations))
        \/ Take(ProjectAssessmentPlan(evaluations))
        \/ Take(ProjectPOAM(findings))

\* The MCP tool project_oscal; its plans and milestones are like those above.
ExportByTool ==
    \/ Take(ProjectAssessmentResults(<<ToolEvaluation>>, <<>>))
    \/ Take(ProjectComponentDefinition(<<"a">>, <<ToolEvaluation>>))
    \/ Take(ProjectSSP(<<"A", ".">>, <<ToolEvaluation>>))

ReceiveDocument == \E d \in Foreign : Take(d)

\* oskal validate.
ValidateDocument(override) ==
    /\ report' = Validate(document, override)
    /\ UNCHANGED <<document, manifests, ingested>>

\* oskal import oscal: one file per title, written over an earlier one.
ManifestFile(d) == SanitizeK8sName(d.title)

ImportDocument ==
    /\ Len(ingested) < MaxIngested
    /\ IngestOSCAL(document).type # ""
    /\ manifests' = [f \in DOMAIN manifests \cup {ManifestFile(document)} |->
                       IF f = ManifestFile(document) THEN IngestOSCAL(document).bound
                       ELSE manifests[f]]
    /\ ingested' = Append(ingested, document)
    /\ UNCHANGED <<document, report>>

OscalNext ==
    \/ ExportDocument
    \/ ExportByTool
    \/ ReceiveDocument
    \/ \E override \in {"auto", "ar", "cd", "ssp", "ap", "poam", "other"} :
         ValidateDocument(override)
    \/ ImportDocument

OscalSpec == OscalInit /\ [][OscalNext]_oscalVars

(***************************************************************************)
(* Properties.                                                             *)
(***************************************************************************)

\* Assessment results are closed: whoever follows the links of an observation
\* gets to exactly the artifacts its evaluation rests on, each artifact is
\* there once, and a finding leads to an observation of its control if there
\* is one and to some observation if there are any.
ReferencesResolve ==
    "assessment-results" \in document.roots =>
      /\ \A i \in DOMAIN document.observations :
           LET links == document.observations[i].relevant
               evidence == document.origin.evaluations[i].evidence
           IN /\ Len(links) = Len(evidence)
              /\ \A k \in DOMAIN links : \E r \in document.resources :
                   r.uuid = links[k] /\ r.digest = evidence[k].digest
      /\ \A r, s \in document.resources : r.digest = s.digest => r = s
      /\ \A i \in DOMAIN document.findings :
           LET f == document.findings[i] IN
           /\ document.observations # <<>> => f.related # {}
           /\ \A k \in DOMAIN document.observations :
                document.observations[k].control.id = f.target
                => document.observations[k].uuid \in f.related

\* Validation, detection and ingestion agree although each decides for itself
\* what a document is: a document that is valid as whatever type is one that
\* DetectDocumentType takes for that type, and ingestion takes it for the
\* same or, if it has no bindings to give, refuses it.  And what is projected
\* from evaluations and findings that are filled in is valid as what it is.
Presentable(evaluation) ==
    /\ IsToken(evaluation.control.id)
    /\ IsDateTime(evaluation.evaluatedAt) /\ IsDateTime(evaluation.validUntil)
    /\ \A k \in DOMAIN evaluation.evidence : evaluation.evidence[k].digest # ""

Readable(finding) ==
    IsToken(finding.control.id) /\ IsMarkupLine(finding.title) /\ IsString(finding.severity)

ValidIsIngestible ==
    LET evaluations == document.origin.evaluations
        findings == document.origin.findings
    IN /\ report.valid =>
            /\ DetectDocumentType(document.roots) = report.type
            /\ IngestOSCAL(document).type =
                 IF report.type \in {"component-definition", "system-security-plan"}
                 THEN report.type ELSE ""
       /\ (/\ document.origin.tool = "oskal"
           /\ evaluations = <<>> =>
                document.roots \subseteq {"assessment-plan", "plan-of-action-and-milestones"}
           /\ \A i \in DOMAIN evaluations : Presentable(evaluations[i])
           /\ \A i \in DOMAIN findings : Readable(findings[i]))
          => Validate(document, "auto").valid

\* No imported control is lost: its component has a binding, and whatever is
\* bound under the component's name has the control and a contract that
\* demands the type and producer that its document states last and the age it
\* states last of those that can be read as a duration, 24 hours if there is
\* no such age, as long as no later import wrote the same file and no other
\* component of the document has the same Kubernetes name.
StatedLast(req, names, i) ==
    i \in PropsNamed(req, names) /\ \A j \in PropsNamed(req, names) : j <= i

Ages(req) == {i \in PropsNamed(req, AgeProps) : req.props[i].duration # {}}

Demands(binding, req) ==
    /\ req.control \in binding.controls
    /\ \E i \in DOMAIN binding.contract :
         LET demand == binding.contract[i] IN
         /\ demand.id \in binding.requires
         /\ demand.id[1] = req.control
         /\ \A k \in DOMAIN req.props :
              /\ StatedLast(req, TypeProps, k) => demand.type = req.props[k].value
              /\ StatedLast(req, ProducerProps, k) => demand.producer = req.props[k].value
              /\ (k \in Ages(req) /\ \A j \in Ages(req) : j <= k)
                 => demand.freshness \in req.props[k].duration
         /\ Ages(req) = {} => demand.freshness = 24

\* The bindings under the name of a part of an imported document.
BoundAs(d, part) ==
    {b \in Range(manifests[ManifestFile(d)]) : b.name = SanitizeK8sName(part.title)}

NotOverwritten(n) ==
    \A m \in n + 1 .. Len(ingested) : ManifestFile(ingested[m]) # ManifestFile(ingested[n])

ImportedIsBound ==
    \A n \in DOMAIN ingested :
      LET d == ingested[n]
          parts == AskedBy(d)
          slug(i) == SanitizeK8sName(parts[i].title)
      IN NotOverwritten(n) =>
           \A i \in DOMAIN parts :
             (\A j \in DOMAIN parts \ {i} : slug(j) # slug(i))
             => \A k \in DOMAIN parts[i].requirements :
                  /\ BoundAs(d, parts[i]) # {}
                  /\ \A b \in BoundAs(d, parts[i]) :
                       Demands(b, parts[i].requirements[k])
=============================================================================
