SPECIFICATION Spec
CONSTANTS
    Envelopes <- MCEnvelopes
    RootEnvelopes <- MCRoot
    Payloads = {"p"}
    Ages = {1}
    RemoveMayFail = TRUE
    MaxTime = 2
    MaxPuts = 3
    MaxStarts = 2
INVARIANTS
    TypeOK
    MapsAgree
    AcceptedIsKept
    ListedIsDurable
PROPERTIES
    PruneSparesFresh
CHECK_DEADLOCK FALSE
