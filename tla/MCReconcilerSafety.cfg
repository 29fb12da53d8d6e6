SPECIFICATION Spec
CONSTANTS
    Bindings = {"web-binding"}
    Workloads = {"web"}
    Target <- MCTarget
    BindingSpecs <- MCBindingSpecs
    ContractSpecs <- MCContractSpecs
    Kinds <- MCKinds
    Sources = {"resolver"}
    Skews <- MCAhead
    DurableStore = TRUE
    DefaultMaxAge = 1
    Validity = 1
    MaxTime = 1
    MaxGeneration = 2
    MaxRevision = 1
    MaxEvidence = 1
    MaxEdits = 1
    MaxFaults = 0
    MaxRestarts = 0
INVARIANTS
    TypeOK
    AssuredOnEvidence
    AssuredProjectionIsComplete
CHECK_DEADLOCK FALSE
