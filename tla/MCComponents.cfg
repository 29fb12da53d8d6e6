SPECIFICATION Spec
CONSTANTS
    Parts = {"receipts", "sdk", "bundle", "machine", "vector", "repository",
             "webhook", "identity", "observers", "oscal", "commands", "mcp"}
    Subjects = {"web"}
    Controls <- MCControls
    Evidence = {"e"}
    Outcomes = {4, 6}
    Altered = {4, 7}
    Queries = {"state"}
    MaxIssued = 1
    MaxCalls = 2
    MaxKeys = 3
    MaxObserved = 2
    Stored = {"p", "q"}
    Packages <- MCPackages
    MaxImports = 2
    Epochs <- MCEpochs
    Valences = {"POSITIVE", "NEGATIVE", "UNRESOLVED"}
    Coherences = {"COHERENT", "DECOHERENT"}
    Recorded = {"web", "db"}
    MaxSaves = 3
    Pods <- MCPods
    Rivals <- MCRivals
    Modes = {"", "audit"}
    MaxRequests = 2
    Roots = {"r1", "r2"}
    Domains = {"prod", "edge"}
    Certificates <- MCCertificates
    Skew = 2
    MaxClock = 9
    ClusterEvents <- MCClusterEvents
    WorkloadEpochs <- MCWorkloadEpochs
    ObservedAge = 1
    MaxTime = 2
    MaxEnvelopes = 3
    Assessments <- MCAssessments
    Reported <- MCReported
    Foreign <- MCForeign
    MaxName = 3
    MaxIngested = 2
    Workloads <- MCWorkloads
    Environments <- MCEnvironments
    SettingsFiles <- MCSettings
    DriftWindow = 0
    InspectWindow = 1
    MaxTicks = 1
    MaxRecords = 2
    Messages <- MCMessages
    MaxLines = 2
INVARIANTS
    AcceptedWasIssued
    IssuedIsAccepted
    VerifiedIsHeld
    ReadsAgree
    PartialIsPrefix
    
    ImportIsComplete
    AssuredIsEarned
    DriftIsExplained
    AssuredNeedsEveryDimension
    NeverGoesBack
    AdmittedIsConformant
    AdmittedHasEvidence
    SkewIsTolerance
    VerifiedIsWitnessed
    ReferencesResolve
    ValidIsIngestible
    ImportedIsBound
    RecordedIsReported
    AnsweredAsAdvertised
CHECK_DEADLOCK FALSE
