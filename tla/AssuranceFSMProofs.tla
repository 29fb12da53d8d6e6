-------------------------- MODULE AssuranceFSMProofs --------------------------
(***************************************************************************)
(* The state machine, the drift check and the assurance vector, for any    *)
(* epochs and any sequence of events and assessments.                      *)
(***************************************************************************)
EXTENDS AssuranceFSM, TLAPS

\* Events that bring evidence in.
Renewing == {"EVIDENCE_INGESTED", "REEVALUATED"}

\* What each state says about the events that led to it.
Earned ==
    LET n == Len(trail) IN
    /\ state = "OBSERVED" => n >= 1 /\ trail[n] \in Renewing
    /\ state = "VERIFIED" =>
         n >= 2 /\ trail[n] = "EVIDENCE_VERIFIED" /\ trail[n - 1] \in Renewing
    /\ state = "ASSURED" =>
         /\ n = 3 /\ trail[3] = "POLICY_ASSURED"
         /\ trail[2] = "EVIDENCE_VERIFIED" /\ trail[1] \in Renewing

\* Inductive: AssuredIsEarned looks back three events, so the states on the
\* way to ASSURED have to remember one and two.
EarnedInv ==
    /\ state \in States
    /\ trail \in Seq(Events) /\ Len(trail) <= 3
    /\ Earned

\* What Transition can return, and from where.
LEMMA TransitionCases ==
    ASSUME NEW current, NEW event, NEW next \in Transition(current, event)
    PROVE  /\ next \in States
           /\ next = "OBSERVED" => event \in Renewing
           /\ next = "VERIFIED" => current = "OBSERVED" /\ event = "EVIDENCE_VERIFIED"
           /\ next = "ASSURED" => current = "VERIFIED" /\ event = "POLICY_ASSURED"
  BY DEF Transition, States, Renewing

\* An event given to the machine keeps the account of what earned its state.
LEMMA StimulusKeepsEarned ==
    ASSUME EarnedInv, NEW event \in Events, Stimulus(event) PROVE EarnedInv'
<1>1. CASE UNCHANGED <<state, trail>>
  BY <1>1 DEF EarnedInv, Earned
<1>2. CASE /\ state' \in Transition(state, event)
           /\ Len(trail) < 3 /\ trail' = Append(trail, event)
  <2>1. /\ trail' \in Seq(Events) /\ Len(trail') = Len(trail) + 1
        /\ trail'[Len(trail')] = event
        /\ \A i \in 1 .. Len(trail) : trail'[i] = trail[i]
    BY <1>2 DEF EarnedInv
  <2>2. Len(trail) \in Nat /\ Len(trail) <= 2
    BY <1>2 DEF EarnedInv
  <2>3. state' \in States
    BY <1>2, TransitionCases
  <2>4. state' = "OBSERVED" => event \in Renewing
    BY <1>2, TransitionCases
  <2>5. state' = "VERIFIED" => state = "OBSERVED" /\ event = "EVIDENCE_VERIFIED"
    BY <1>2, TransitionCases
  <2>6. state' = "ASSURED" => state = "VERIFIED" /\ event = "POLICY_ASSURED"
    BY <1>2, TransitionCases
  <2>7. Earned'
    BY <2>1, <2>2, <2>4, <2>5, <2>6 DEF EarnedInv, Earned
  <2> QED
    BY <2>1, <2>2, <2>3, <2>7 DEF EarnedInv
<1>3. CASE /\ state' \in Transition(state, event)
           /\ ~(Len(trail) < 3) /\ trail' = <<trail[2], trail[3], event>>
  <2>1. Len(trail) = 3 /\ trail[2] \in Events /\ trail[3] \in Events
    BY <1>3 DEF EarnedInv
  <2>2. /\ trail' \in Seq(Events) /\ Len(trail') = 3
        /\ trail'[1] = trail[2] /\ trail'[2] = trail[3] /\ trail'[3] = event
    BY <1>3, <2>1
  <2>3. state' \in States
    BY <1>3, TransitionCases
  <2>4. state' = "OBSERVED" => event \in Renewing
    BY <1>3, TransitionCases
  <2>5. state' = "VERIFIED" => state = "OBSERVED" /\ event = "EVIDENCE_VERIFIED"
    BY <1>3, TransitionCases
  <2>6. state' = "ASSURED" => state = "VERIFIED" /\ event = "POLICY_ASSURED"
    BY <1>3, TransitionCases
  <2>7. Earned'
    BY <2>1, <2>2, <2>4, <2>5, <2>6 DEF EarnedInv, Earned
  <2> QED
    BY <2>2, <2>3, <2>7 DEF EarnedInv
<1> QED
  BY <1>1, <1>2, <1>3 DEF Stimulus

\* What EvaluateDrift does to a state: nothing, or ASSURED becomes STALE.
LEMMA DriftCases ==
    ASSUME NEW current \in States, NEW recorded, NEW epoch
    PROVE  LET result == EvaluateDrift(current, recorded, epoch) IN
           \/ result.state = current
           \/ /\ result.state = "STALE" /\ current = "ASSURED"
              /\ ~Matches(recorded, epoch)
              /\ result.reasons = Diff(recorded, epoch)
<1>1. Transition("ASSURED", "EPOCH_CHANGED") = {"STALE"}
  BY DEF Transition
<1>2. (CHOOSE s \in {"STALE"} : TRUE) = "STALE"
  OBVIOUS
<1> QED
  BY <1>1, <1>2 DEF EvaluateDrift

\* So does EvaluateDrift, which can only take ASSURED away.
LEMMA DriftKeepsEarned ==
    ASSUME EarnedInv, NEW recorded, NEW epoch, Drift(recorded, epoch)
    PROVE  EarnedInv'
<1>1. state' = EvaluateDrift(state, recorded, epoch).state
  BY DEF Drift
<1>2. state' = state \/ state' = "STALE"
  BY <1>1, DriftCases DEF EarnedInv
<1>3. CASE state' = state
  BY <1>3 DEF Drift, EarnedInv, Earned
<1>4. CASE state' # state
  BY <1>2, <1>4 DEF Drift, EarnedInv, Earned, States
<1> QED
  BY <1>3, <1>4

\* Along every sequence of events the state machine is ASSURED only after
\* evidence was brought in, verified and found sufficient, in this order and
\* with nothing in between.
THEOREM MachineEarnsAssured == FSMSpec => []AssuredIsEarned
<1>1. FSMInit => EarnedInv
  BY DEF FSMInit, EarnedInv, Earned, States
<1>2. EarnedInv /\ [MachineNext \/ VectorNext]_fsmVars => EarnedInv'
  <2> SUFFICES ASSUME EarnedInv, [MachineNext \/ VectorNext]_fsmVars
               PROVE  EarnedInv'
    OBVIOUS
  <2>1. CASE \E event \in Events : Stimulus(event)
    BY <2>1, StimulusKeepsEarned
  <2>2. CASE \E recorded, epoch \in Epochs : Drift(recorded, epoch)
    BY <2>2, DriftKeepsEarned
  <2>3. CASE VectorNext
    BY <2>3 DEF VectorNext, Assess, EarnedInv, Earned
  <2>4. CASE UNCHANGED fsmVars
    BY <2>4 DEF fsmVars, EarnedInv, Earned
  <2> QED
    BY <2>1, <2>2, <2>3, <2>4 DEF MachineNext
<1>3. EarnedInv => AssuredIsEarned
  BY DEF EarnedInv, Earned, Renewing, AssuredIsEarned
<1> QED
  BY <1>1, <1>2, <1>3, PTL DEF FSMSpec

-----------------------------------------------------------------------------

\* Epochs that do not match differ in a dimension.
LEMMA MismatchIsDifference ==
    ASSUME NEW recorded, NEW epoch, ~Matches(recorded, epoch)
    PROVE  Diff(recorded, epoch) # {}
  BY DEF Matches, Diff

\* Whatever EvaluateDrift answers, its reason and its dimensions agree with it.
LEMMA DriftExplains ==
    ASSUME state \in States, NEW recorded, NEW epoch, Drift(recorded, epoch)
    PROVE  DriftIsExplained'
<1> DEFINE result == EvaluateDrift(state, recorded, epoch)
<1>1. drift' = [was |-> state, recorded |-> recorded, epoch |-> epoch,
                now |-> result.state, reasons |-> result.reasons]
  BY DEF Drift
<1>2. result.state = "ASSURED" => Matches(recorded, epoch)
  <2>1. Transition("ASSURED", "EPOCH_CHANGED") = {"STALE"}
    BY DEF Transition
  <2>2. (CHOOSE s \in {"STALE"} : TRUE) = "STALE"
    OBVIOUS
  <2> QED
    BY <2>1, <2>2 DEF EvaluateDrift
<1>3. result.state # state => result.reasons # {}
  BY DriftCases, MismatchIsDifference
<1>4. Matches(recorded, epoch) =>
        \A d \in Dimensions : epoch[d] \in {Unset, recorded[d]}
  BY DEF Matches
<1> HIDE DEF result
<1> QED
  BY <1>1, <1>2, <1>3, <1>4 DEF DriftIsExplained

\* Every answer of EvaluateDrift is explained, for any set of epochs.
THEOREM EveryDriftIsExplained == FSMSpec => []DriftIsExplained
<1> DEFINE Inv == EarnedInv /\ DriftIsExplained
<1>1. FSMInit => Inv
  <2>1. FSMInit => EarnedInv
    BY DEF FSMInit, EarnedInv, Earned, States
  <2>2. FSMInit => DriftIsExplained
    BY DEF FSMInit, NoDrift, DriftIsExplained
  <2> QED
    BY <2>1, <2>2
<1>2. Inv /\ [MachineNext \/ VectorNext]_fsmVars => Inv'
  <2> SUFFICES ASSUME EarnedInv, DriftIsExplained,
                      [MachineNext \/ VectorNext]_fsmVars
               PROVE  EarnedInv' /\ DriftIsExplained'
    OBVIOUS
  <2>1. CASE \E event \in Events : Stimulus(event)
    BY <2>1, StimulusKeepsEarned DEF Stimulus, DriftIsExplained
  <2>2. CASE \E recorded, epoch \in Epochs : Drift(recorded, epoch)
    BY <2>2, DriftKeepsEarned, DriftExplains DEF EarnedInv
  <2>3. CASE VectorNext
    BY <2>3 DEF VectorNext, Assess, EarnedInv, Earned, DriftIsExplained
  <2>4. CASE UNCHANGED fsmVars
    BY <2>4 DEF fsmVars, EarnedInv, Earned, DriftIsExplained
  <2> QED
    BY <2>1, <2>2, <2>3, <2>4 DEF MachineNext
<1> QED
  BY <1>1, <1>2, PTL DEF FSMSpec

-----------------------------------------------------------------------------

\* Resolve answers ASSURED for all-positive coherent vectors and no others,
\* under every policy and whatever valences and coherences there are.
THEOREM ResolveNeedsEveryDimension ==
    ASSUME NEW v, NEW p \in Policies
    PROVE  Resolve(v, p) = "ASSURED" <=>
             /\ \A a \in Axes : v.valence[a] = "POSITIVE"
             /\ v.coherence # "DECOHERENT"
<1>1. Hard \subseteq Axes /\ "freshness" \in Axes /\ "completeness" \in Axes
  BY DEF Hard, Axes
<1> QED
  BY <1>1 DEF Resolve

\* The vector of the specification is resolved to ASSURED exactly when all
\* dimensions are positive and coherent.
THEOREM VectorNeedsEveryDimension == FSMSpec => []AssuredNeedsEveryDimension
<1>1. AssuredNeedsEveryDimension
  BY ResolveNeedsEveryDimension DEF AssuredNeedsEveryDimension
<1> QED
  BY <1>1, PTL
=============================================================================
