----------------------------- MODULE AssuranceFSM -----------------------------
(***************************************************************************)
(* The assurance state machine and the assurance vector                    *)
(* (core/assurance/state.go), and the drift of a recorded epoch            *)
(* (internal/adapters/kubernetes/discovery.go).                            *)
(***************************************************************************)
EXTENDS EvidenceContract

CONSTANTS
    Epochs,        \* the epochs that are recorded or current
    Valences,      \* the valences that dimensions of the vector take
    Coherences     \* the coherences of the vector

VARIABLES
    state,     \* the assurance state of a subject
    trail,     \* history: the last events that were not errors, at most three
    drift,     \* history: what EvaluateDrift was given and returned last
    vector     \* the assurance vector

fsmVars == <<state, trail, drift, vector>>

States == {"UNSPECIFIED", "UNKNOWN", "OBSERVED", "VERIFIED", "ASSURED",
           "STALE", "FAILED"}

Events == {"EVIDENCE_INGESTED", "EVIDENCE_VERIFIED", "POLICY_ASSURED",
           "EPOCH_CHANGED", "EVIDENCE_EXPIRED", "REEVALUATED",
           "VIOLATION_CONFIRMED", "EVIDENCE_INVALID", "RESET"}

\* Faulty variant of Transition: evidence that was only ingested counts as
\* verified when it renews a stale state.
TransitionSkips(current, event) ==
    CASE event = "VIOLATION_CONFIRMED" -> {"FAILED"}
      [] event \in {"EVIDENCE_INVALID", "RESET"} -> {"UNKNOWN"}
      [] current \in {"UNKNOWN", "UNSPECIFIED"} /\ event = "EVIDENCE_INGESTED" -> {"OBSERVED"}
      [] current = "OBSERVED" /\ event = "EVIDENCE_VERIFIED" -> {"VERIFIED"}
      [] current = "VERIFIED" /\ event = "POLICY_ASSURED" -> {"ASSURED"}
      [] current \in {"VERIFIED", "ASSURED"}
           /\ event \in {"EPOCH_CHANGED", "EVIDENCE_EXPIRED"} -> {"STALE"}
      [] current = "STALE" /\ event \in {"REEVALUATED", "EVIDENCE_INGESTED"} -> {"VERIFIED"}
      [] current = "FAILED" /\ event = "REEVALUATED" -> {"OBSERVED"}
      [] OTHER -> {}

\* Transition: the next state, or no state for ErrInvalidTransition.
Transition(current, event) ==
    CASE event = "VIOLATION_CONFIRMED" -> {"FAILED"}
      [] event \in {"EVIDENCE_INVALID", "RESET"} -> {"UNKNOWN"}
      [] current \in {"UNKNOWN", "UNSPECIFIED"} /\ event = "EVIDENCE_INGESTED" -> {"OBSERVED"}
      [] current = "OBSERVED" /\ event = "EVIDENCE_VERIFIED" -> {"VERIFIED"}
      [] current = "VERIFIED" /\ event = "POLICY_ASSURED" -> {"ASSURED"}
      [] current \in {"VERIFIED", "ASSURED"}
           /\ event \in {"EPOCH_CHANGED", "EVIDENCE_EXPIRED"} -> {"STALE"}
      [] current = "STALE" /\ event \in {"REEVALUATED", "EVIDENCE_INGESTED"} -> {"OBSERVED"}
      [] current = "FAILED" /\ event = "REEVALUATED" -> {"OBSERVED"}
      [] OTHER -> {}

\* AssuranceEpoch.Diff.
Diff(epoch, other) == {d \in Dimensions : epoch[d] # other[d]}

\* Faulty variant of EvaluateDrift: only a new subject digest is drift.
DriftOfSubject(current, recorded, epoch) ==
    IF recorded["subject"] = epoch["subject"]
    THEN [state |-> current, reasons |-> {}]
    ELSE [state |-> IF current = "ASSURED" THEN "STALE" ELSE current,
          reasons |-> Diff(recorded, epoch)]

\* EvaluateDrift: the next state and the reasons.
EvaluateDrift(current, recorded, epoch) ==
    IF Matches(recorded, epoch)
    THEN [state |-> current, reasons |-> {}]
    ELSE [state |-> IF current = "ASSURED"
                    THEN CHOOSE s \in Transition(current, "EPOCH_CHANGED") : TRUE
                    ELSE current,
          reasons |-> Diff(recorded, epoch)]

(***************************************************************************)
(* The vector: nine valences and a coherence.                              *)
(***************************************************************************)
Axes == {"applicability", "conformance", "provenance", "integrity",
         "authority", "identity", "runtime", "freshness", "completeness"}

\* The axes on which a negative valence is a violation.
Hard == {"conformance", "integrity", "authority", "identity", "runtime"}

NewDefaultAssuranceVector ==
    [valence |-> [a \in Axes |-> "UNRESOLVED"], coherence |-> "COHERENT"]

\* Faulty variant of Resolve: unresolved axes are looked at only when the
\* completeness is not positive.
ResolveTrustsCompleteness(v, policy) ==
    LET unknown == IF policy.unknownIsViolation THEN "FAILED" ELSE "UNKNOWN" IN
    IF v.coherence = "DECOHERENT" \/ \E a \in Hard : v.valence[a] = "NEGATIVE" THEN "FAILED"
    ELSE IF policy.requireFresh /\ v.valence["freshness"] = "NEGATIVE" THEN "STALE"
    ELSE IF v.valence["completeness"] # "POSITIVE" THEN unknown
    ELSE IF \A a \in Hard : v.valence[a] = "POSITIVE" THEN "ASSURED"
    ELSE "OBSERVED"

\* AssuranceVector.Resolve.
Resolve(v, policy) ==
    LET unknown == IF policy.unknownIsViolation THEN "FAILED" ELSE "UNKNOWN" IN
    IF v.coherence = "DECOHERENT" \/ \E a \in Hard : v.valence[a] = "NEGATIVE" THEN "FAILED"
    ELSE IF policy.requireFresh /\ v.valence["freshness"] = "NEGATIVE" THEN "STALE"
    ELSE IF v.valence["completeness"] # "POSITIVE"
              \/ \E a \in Axes : v.valence[a] = "UNRESOLVED" THEN unknown
    ELSE IF \A a \in Axes : v.valence[a] = "POSITIVE" THEN "ASSURED"
    ELSE "OBSERVED"

Policies == [requireFresh : BOOLEAN, unknownIsViolation : BOOLEAN]

-----------------------------------------------------------------------------

NoDrift == [was |-> "UNKNOWN", recorded |-> CHOOSE e \in Epochs : TRUE,
            epoch |-> CHOOSE e \in Epochs : TRUE, now |-> "UNKNOWN", reasons |-> {}]

FSMInit ==
    /\ state \in {"UNSPECIFIED", "UNKNOWN"}
    /\ trail = <<>>
    /\ drift = NoDrift
    /\ vector = NewDefaultAssuranceVector

\* An event; one that the machine refuses leaves the state as it is.
Stimulus(event) ==
    /\ \/ Transition(state, event) = {} /\ UNCHANGED <<state, trail>>
       \/ /\ state' \in Transition(state, event)
          /\ trail' = IF Len(trail) < 3 THEN Append(trail, event)
                      ELSE <<trail[2], trail[3], event>>
    /\ UNCHANGED <<drift, vector>>

\* EvaluateDrift of the state against what is recorded.
Drift(recorded, epoch) ==
    LET result == EvaluateDrift(state, recorded, epoch) IN
    /\ state' = result.state
    /\ drift' = [was |-> state, recorded |-> recorded, epoch |-> epoch,
                 now |-> result.state, reasons |-> result.reasons]
    /\ trail' = IF state' = state THEN trail ELSE <<>>
    /\ UNCHANGED vector

\* A dimension of the vector is assessed.
Assess(a, valence, coherence) ==
    /\ vector' = [valence |-> [vector.valence EXCEPT ![a] = valence],
                  coherence |-> coherence]
    /\ UNCHANGED <<state, trail, drift>>

MachineNext ==
    \/ \E event \in Events : Stimulus(event)
    \/ \E recorded, epoch \in Epochs : Drift(recorded, epoch)

VectorNext ==
    \E a \in Axes, v \in Valences, c \in Coherences : Assess(a, v, c)

FSMSpec == FSMInit /\ [][MachineNext \/ VectorNext]_fsmVars

(***************************************************************************)
(* Properties.                                                             *)
(***************************************************************************)

\* ASSURED is earned: since the last time the state was invalid, stale or
\* failed, evidence was brought in, then verified, then found sufficient, and
\* nothing else happened in between.
AssuredIsEarned ==
    state = "ASSURED" =>
      /\ Len(trail) = 3
      /\ trail[1] \in {"EVIDENCE_INGESTED", "REEVALUATED"}
      /\ trail[2] = "EVIDENCE_VERIFIED"
      /\ trail[3] = "POLICY_ASSURED"

\* No drift goes unnoticed and none is invented: after EvaluateDrift an
\* ASSURED state is one whose recorded epoch has every digest the current one
\* demands, and a state that was taken away comes with a reason, although
\* Matches and Diff compare the epochs differently.
DriftIsExplained ==
    /\ drift.now = "ASSURED" =>
         \A d \in Dimensions : drift.epoch[d] \in {Unset, drift.recorded[d]}
    /\ drift.now # drift.was => drift.reasons # {}

\* Resolve says ASSURED exactly when all nine dimensions are positive and the
\* representations do not diverge, under every policy: no order of the checks
\* lets a negative, mixed or unresolved dimension through.
AssuredNeedsEveryDimension ==
    \A p \in Policies :
      Resolve(vector, p) = "ASSURED" <=>
        /\ \A a \in Axes : vector.valence[a] = "POSITIVE"
        /\ vector.coherence # "DECOHERENT"
=============================================================================
