SPECIFICATION Spec
CONSTANTS
    LeaseIDs = {"l1", "l2"}
    Capabilities <- MCCapabilities
    Payloads = {"p"}
    Grants <- MCGrants
    TurnLimits = {0, 1}
    TTLs = {0, 1}
    MaxTime = 1
    MaxTurn = 2
    MaxRegistrations = 2
INVARIANTS
    TypeOK
    ChainLinked
    NoFork
    AdmittedWithinLease
PROPERTIES
    RevokedIsFinal
    DenialIsInert
    ImplementsGrant
