SPECIFICATION Spec
CONSTANTS
    Envelopes <- MCOne
    RootEnvelopes = {}
    Payloads = {"p"}
    Ages = {1}
    RemoveMayFail = FALSE
    MaxTime = 2
    MaxPuts = 1
    MaxStarts = 3
INVARIANTS
    PrunedStaysGone
CHECK_DEADLOCK FALSE
