SPECIFICATION FairSpec
CONSTANTS
    Bindings = {"web-binding"}
    Workloads = {"web"}
    Target <- MCTarget
    BindingSpecs <- MCInlineOnly
    ContractSpecs <- MCNoContract
    Kinds <- MCWebhookKind
    Sources = {"resolver"}
    Skews = {0}
    DurableStore = TRUE
    DefaultMaxAge = 1
    Validity = 1
    MaxTime = 2
    MaxGeneration = 1
    MaxRevision = 1
    MaxEvidence = 1
    MaxEdits = 0
    MaxFaults = 0
    MaxRestarts = 0
PROPERTIES
    ExpiredIsNotAssured
CHECK_DEADLOCK FALSE
