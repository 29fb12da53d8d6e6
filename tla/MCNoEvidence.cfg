SPECIFICATION Spec
CONSTANTS
    Callers = {c1, c2}
    Subjects = {"web", "web-7f"}
    Related <- MCRelated
    IDs = {o1, o2}
    Types <- MCTypes
    EvidenceCounts = {0, 1}
    Skews = {0}
    MaxAge = 1
    MaxTime = 1
    MaxObservations = 1
INVARIANTS
    NoEvidenceIsUnknown
SYMMETRY MCSymmetry
