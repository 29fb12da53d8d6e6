------------------------ MODULE EvidenceContractProofs ------------------------
(***************************************************************************)
(* The verdict VERIFIED is sound and complete, for contracts with any      *)
(* number of requirements and any sequence of candidate envelopes.         *)
(***************************************************************************)
EXTENDS EvidenceContract, FiniteSetTheorems, NaturalsInduction, WellFoundedInduction,
        TLAPS

\* The set of envelopes in a sequence.
Contents(envelopes) == {envelopes[i] : i \in DOMAIN envelopes}

\* What the theorems assume about their arguments: requirements and envelopes
\* are lists, times are integers, and a contract does not name VERIFIED as the
\* state to use when evidence is missing.
WellFormed(contract, envelopes, now) ==
    /\ \E n \in Nat : DOMAIN contract.requirements = 1 .. n
    /\ \A r \in DOMAIN contract.requirements :
          contract.requirements[r].maxAge \in Int
    /\ \A i \in DOMAIN envelopes : envelopes[i].capturedAt \in Int
    /\ now \in Int
    /\ contract.onMissing # "VERIFIED"

\* Position i is one at which Evaluate's loop stops exactly if the envelope
\* there supports the requirement.
LEMMA VerifyingIsSupport ==
    ASSUME NEW req, NEW envelopes, NEW epoch, NEW now,
           req.maxAge \in Int, now \in Int,
           NEW i \in DOMAIN envelopes, envelopes[i].capturedAt \in Int
    PROVE  i \in Verifying(req, envelopes, epoch, now)
              <=> Supports(envelopes[i], req, epoch, now)
<1>1. IsFresh(req, envelopes[i].capturedAt, now)
         <=> (req.maxAge > 0 =>
                envelopes[i].capturedAt \in (now - req.maxAge) .. now)
  BY DEF IsFresh
<1>2. Matches(envelopes[i].epoch, epoch)
         <=> \A d \in Dimensions :
                epoch[d] = Unset \/ envelopes[i].epoch[d] = epoch[d]
  BY DEF Matches
<1>3. IsProducerAccepted(req, envelopes[i].producer)
         <=> (req.accepted = {}
              \/ \E p \in req.accepted : AcceptedBy(p, envelopes[i].producer))
  BY DEF IsProducerAccepted
<1>4. QED
  BY <1>1, <1>2, <1>3 DEF Verifying, Candidates, Supports

\* A requirement counts as met exactly if some envelope supports it.
LEMMA MatchedIsSupported ==
    ASSUME NEW contract, NEW envelopes, NEW epoch, NEW now,
           WellFormed(contract, envelopes, now),
           NEW r \in DOMAIN contract.requirements
    PROVE  r \in MatchedSet(contract, envelopes, epoch, now)
              <=> \E env \in Contents(envelopes) :
                     Supports(env, contract.requirements[r], epoch, now)
<1> DEFINE req == contract.requirements[r]
<1>1. req.maxAge \in Int /\ now \in Int
  BY DEF WellFormed
<1>2. \A i \in DOMAIN envelopes :
         i \in Verifying(req, envelopes, epoch, now)
            <=> Supports(envelopes[i], req, epoch, now)
  <2> TAKE i \in DOMAIN envelopes
  <2>1. envelopes[i].capturedAt \in Int
    BY DEF WellFormed
  <2> HIDE DEF req
  <2>2. QED
    BY <1>1, <2>1, VerifyingIsSupport
<1>3. Verifying(req, envelopes, epoch, now) \subseteq DOMAIN envelopes
  BY DEF Verifying, Candidates
<1>4. r \in MatchedSet(contract, envelopes, epoch, now)
         <=> Verifying(req, envelopes, epoch, now) # {}
  BY DEF MatchedSet
<1> HIDE DEF req
<1>5. QED
  <2>1. Verifying(req, envelopes, epoch, now) # {}
          <=> \E env \in Contents(envelopes) :
                 Supports(env, req, epoch, now)
    BY <1>2, <1>3 DEF Contents
  <2>2. QED
    BY <1>4, <2>1 DEF req

\* The counters of Completeness are zero exactly if the sets they count are
\* empty, and the required items split into verified, stale and missing ones.
LEMMA Counters ==
    ASSUME NEW contract, NEW envelopes, NEW epoch, NEW now,
           WellFormed(contract, envelopes, now)
    PROVE  LET c == Completeness(contract, envelopes, epoch, now)
               required == RequiredSet(contract)
               matched == MatchedSet(contract, envelopes, epoch, now)
           IN /\ c.required \in Nat /\ c.verified \in Nat
              /\ c.stale \in Nat /\ c.missing \in Nat
              /\ c.required > 0 <=> required # {}
              /\ (c.stale = 0 /\ c.missing = 0) <=> required \subseteq matched
              /\ required \subseteq matched => c.verified = c.required
<1> DEFINE c == Completeness(contract, envelopes, epoch, now)
           required == RequiredSet(contract)
           matched == MatchedSet(contract, envelopes, epoch, now)
           stale == StaleSet(contract, envelopes, epoch, now)
           missing == MissingSet(contract, envelopes, epoch, now)
<1>1. PICK n \in Nat : DOMAIN contract.requirements = 1 .. n
  BY DEF WellFormed
<1>2. IsFiniteSet(1 .. n)
  BY FS_Interval
<1>3. /\ required \subseteq 1 .. n
      /\ matched \cap required \subseteq 1 .. n
      /\ stale \subseteq 1 .. n
      /\ missing \subseteq 1 .. n
  BY <1>1 DEF RequiredSet, MatchedSet, StaleSet, MissingSet
<1>4. /\ IsFiniteSet(required) /\ IsFiniteSet(matched \cap required)
      /\ IsFiniteSet(stale) /\ IsFiniteSet(missing)
  BY <1>2, <1>3, FS_Subset
<1>5. /\ c.required = Cardinality(required)
      /\ c.verified = Cardinality(matched \cap required)
      /\ c.stale = Cardinality(stale)
      /\ c.missing = Cardinality(missing)
  BY DEF Completeness
<1>6. stale \cup missing = required \ matched
  BY DEF StaleSet, MissingSet
<1> HIDE DEF c, required, matched, stale, missing
<1>7. /\ Cardinality(required) \in Nat
      /\ Cardinality(matched \cap required) \in Nat
      /\ Cardinality(stale) \in Nat
      /\ Cardinality(missing) \in Nat
  BY <1>4, FS_CardinalityType
<1>8. /\ Cardinality(required) = 0 <=> required = {}
      /\ Cardinality(stale) = 0 <=> stale = {}
      /\ Cardinality(missing) = 0 <=> missing = {}
  BY <1>4, FS_EmptySet
<1>9. required \subseteq matched => matched \cap required = required
  OBVIOUS
<1>10. (stale = {} /\ missing = {}) <=> required \subseteq matched
  BY <1>6
<1>11. QED
  BY <1>5, <1>7, <1>8, <1>9, <1>10 DEF c, required, matched

\* Evaluate returns VERIFIED if and only if something is required and
\* everything required is supported by some envelope: no order of the
\* candidates, no mix of stale, foreign and good ones, and no counter slip can
\* make it say so wrongly or miss it (evidence.go 248-336).
THEOREM VerifiedIffSupported ==
    ASSUME NEW contract, NEW envelopes, NEW epoch, NEW now,
           WellFormed(contract, envelopes, now)
    PROVE  Evaluate(contract, envelopes, epoch, now).state = "VERIFIED"
              <=> Supported(contract, Contents(envelopes), epoch, now)
<1> DEFINE c == Completeness(contract, envelopes, epoch, now)
           required == RequiredSet(contract)
           matched == MatchedSet(contract, envelopes, epoch, now)
<1>1. Evaluate(contract, envelopes, epoch, now).state
         = Verdict(c, contract.onMissing)
  BY DEF Evaluate
<1>2. Verdict(c, contract.onMissing) = "VERIFIED" <=> IsComplete(c)
  BY DEF Verdict, WellFormed
<1>3. IsComplete(c) <=> required # {} /\ required \subseteq matched
  BY Counters DEF IsComplete
<1>4. required # {} /\ required \subseteq matched
         <=> Supported(contract, Contents(envelopes), epoch, now)
  BY MatchedIsSupported DEF RequiredSet, Supported
<1>5. QED
  BY <1>1, <1>2, <1>3, <1>4

\* New evidence never costs a subject its verdict: a contract VERIFIED on some
\* envelopes is VERIFIED on any list that contains them, in whatever order
\* (the stale candidates the loop skips do not count once one is good).
THEOREM EvidenceNeverHurts ==
    ASSUME NEW contract, NEW envelopes, NEW more, NEW epoch, NEW now,
           WellFormed(contract, envelopes, now), WellFormed(contract, more, now),
           Contents(envelopes) \subseteq Contents(more),
           Evaluate(contract, envelopes, epoch, now).state = "VERIFIED"
    PROVE  Evaluate(contract, more, epoch, now).state = "VERIFIED"
<1>1. Supported(contract, Contents(envelopes), epoch, now)
  BY VerifiedIffSupported
<1>2. Supported(contract, Contents(more), epoch, now)
  BY <1>1 DEF Supported
<1>3. QED
  BY <1>2, VerifiedIffSupported

\* A VERIFIED verdict names evidence: the list of verified envelopes, from which
\* the evidence root is computed, is not empty.
LEMMA VerifiedNamesEvidence ==
    ASSUME NEW contract, NEW envelopes, NEW epoch, NEW now,
           WellFormed(contract, envelopes, now),
           Evaluate(contract, envelopes, epoch, now).state = "VERIFIED"
    PROVE  Evaluate(contract, envelopes, epoch, now).verified # {}
<1> DEFINE c == Completeness(contract, envelopes, epoch, now)
           required == RequiredSet(contract)
           matched == MatchedSet(contract, envelopes, epoch, now)
<1>1. IsComplete(c)
  BY DEF Evaluate, Verdict, WellFormed
<1>2. required # {} /\ required \subseteq matched
  BY <1>1, Counters DEF IsComplete
<1>3. VerifiedEvidences(contract, envelopes, epoch, now) # {}
  BY <1>2 DEF VerifiedEvidences
<1> QED
  BY <1>3 DEF Evaluate

\* The verdict is VERIFIED, STALE, UNKNOWN, or what the contract names for
\* missing evidence.
LEMMA VerdictRange ==
    ASSUME NEW contract, NEW envelopes, NEW epoch, NEW now,
           contract.onMissing \in {"FAILED", "UNKNOWN"}
    PROVE  Evaluate(contract, envelopes, epoch, now).state
              \in {"VERIFIED", "STALE", "UNKNOWN", "FAILED"}
BY DEF Evaluate, Verdict

\* Support by some evidence is support by more of it.
LEMMA SupportedGrows ==
    ASSUME NEW contract, NEW few, NEW more, NEW epoch, NEW time,
           few \subseteq more, Supported(contract, few, epoch, time)
    PROVE  Supported(contract, more, epoch, time)
BY DEF Supported

\* A set of numbers that is not empty has a least element.
LEMMA LeastNumber ==
    ASSUME NEW T, T \subseteq Nat, T # {}
    PROVE  \E k \in T : \A j \in T : k <= j
<1>1. IsWellFoundedOn(OpToRel(<, Nat), Nat)
  BY NatLessThanWellFounded
<1>2. PICK k \in T : \A j \in T : ~ (<<j, k>> \in OpToRel(<, Nat))
  BY <1>1, WFMin
<1>3. \A j \in T : ~ (j < k)
  BY <1>2 DEF OpToRel
<1> QED
  BY <1>3

\* What Evaluate names as the evidence of its verdict, complete or not: the
\* loop over the candidates of a requirement stopped at it, and it supports
\* the requirement.
LEMMA NamedEvidenceSupports ==
    ASSUME NEW contract, NEW envelopes, NEW epoch, NEW now,
           WellFormed(contract, envelopes, now), DOMAIN envelopes \subseteq Nat,
           NEW e \in Evaluate(contract, envelopes, epoch, now).verified
    PROVE  /\ e \in Contents(envelopes)
           /\ \E r \in DOMAIN contract.requirements :
                 Supports(e, contract.requirements[r], epoch, now)
<1>1. e \in VerifiedEvidences(contract, envelopes, epoch, now)
  BY DEF Evaluate
<1>2. PICK r \in MatchedSet(contract, envelopes, epoch, now) :
         e = envelopes[First(Verifying(contract.requirements[r], envelopes, epoch, now))]
  BY <1>1 DEF VerifiedEvidences
<1> DEFINE req == contract.requirements[r]
           V == Verifying(req, envelopes, epoch, now)
<1>3. r \in DOMAIN contract.requirements /\ V # {}
  BY <1>2 DEF MatchedSet
<1>4. V \subseteq DOMAIN envelopes
  BY DEF Verifying, Candidates
<1>5. First(V) \in V
  <2> HIDE DEF V
  <2>1. \E k \in V : \A j \in V : k <= j
    BY <1>3, <1>4, LeastNumber
  <2> QED
    BY <2>1 DEF First
<1>6. req.maxAge \in Int /\ now \in Int /\ envelopes[First(V)].capturedAt \in Int
  BY <1>3, <1>4, <1>5 DEF WellFormed
<1>7. Supports(envelopes[First(V)], req, epoch, now)
  <2> DEFINE i == First(V)
  <2>1. i \in DOMAIN envelopes /\ i \in Verifying(req, envelopes, epoch, now)
    BY <1>4, <1>5
  <2> HIDE DEF req, i, V
  <2>2. Supports(envelopes[i], req, epoch, now)
    BY <1>6, <2>1, VerifyingIsSupport DEF i
  <2> QED
    BY <2>2 DEF i
<1> QED
  BY <1>2, <1>3, <1>4, <1>5, <1>7 DEF Contents
=============================================================================
