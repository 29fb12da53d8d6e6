SPECIFICATION FairSpec
CONSTANTS
    Bindings = {"web-binding"}
    Workloads = {"web"}
    Target <- MCTarget
    BindingSpecs <- MCReferringOnly
    ContractSpecs <- MCContractSpecs
    Kinds <- MCWebhookKind
    Sources = {"resolver"}
    Skews <- MCLate
    DurableStore = FALSE
    DefaultMaxAge = 1
    Validity = 1
    MaxTime = 1
    MaxGeneration = 1
    MaxRevision = 1
    MaxEvidence = 1
    MaxEdits = 0
    MaxFaults = 1
    MaxRestarts = 1
INVARIANTS
    NeverForgotten
PROPERTIES
    Converges
CHECK_DEADLOCK FALSE
