--------------------------- MODULE EvidenceContract ---------------------------
(***************************************************************************)
(* The evaluation kernel of core/assurance: epochs (epoch.go), evidence    *)
(* requirements and contracts (evidence.go).  Everything here is a pure    *)
(* function; the modules of the components that evaluate contracts extend  *)
(* this one.                                                               *)
(*                                                                         *)
(* An envelope is a record with the fields type, producer, capturedAt,     *)
(* epoch and artifact; a requirement has type, required, maxAge and        *)
(* accepted; a contract has requirements (a sequence) and onMissing.       *)
(***************************************************************************)
EXTENDS Integers, Sequences, FiniteSets

(***************************************************************************)
(* Epochs: one digest per dimension.  A digest is a tuple, and the empty   *)
(* tuple stands for the empty string of a dimension that is not set.       *)
(***************************************************************************)
Dimensions == {"subject", "implementation", "policy", "authority",
               "environment"}

Unset == <<>>

\* Faulty variant of Matches: a subject that drifted is not noticed.
MatchesAnySubject(epoch, other) ==
    \A d \in Dimensions \ {"subject"} :
        other[d] # Unset => epoch[d] = other[d]

\* AssuranceEpoch.Matches: the dimensions that `other' leaves empty are free.
Matches(epoch, other) ==
    \A d \in Dimensions : other[d] # Unset => epoch[d] = other[d]

(***************************************************************************)
(* Requirements.                                                           *)
(***************************************************************************)

\* EvidenceRequirement.IsFresh; MaxAge <= 0 switches the check off.
IsFresh(req, capturedAt, now) ==
    \/ req.maxAge <= 0
    \/ capturedAt <= now /\ now - capturedAt <= req.maxAge

\* Sequences s and t: s is an initial part of t, s is a final part of t.
InitialPart(s, t) == Len(s) <= Len(t) /\ SubSeq(t, 1, Len(s)) = s
FinalPart(s, t) == Len(s) <= Len(t) /\ SubSeq(t, Len(t) - Len(s) + 1, Len(t)) = s

(***************************************************************************)
(* One entry of AcceptedProducers.  A producer's canonical name            *)
(* scheme://a/b is the sequence <<scheme, a, b>> with case folded.  An     *)
(* open pattern is one that ends in "*" ("*" alone is the empty one); a    *)
(* closed one names a producer, or a scheme whose producers are accepted.  *)
(***************************************************************************)
AcceptedBy(pattern, producer) ==
    IF pattern.open
    THEN InitialPart(pattern.parts, producer)
    ELSE \/ pattern.parts = producer
         \/ Len(producer) > 1 /\ pattern.parts = <<producer[1]>>

IsProducerAccepted(req, producer) ==
    \/ req.accepted = {}
    \/ \E pattern \in req.accepted : AcceptedBy(pattern, producer)

\* Types are dotted names, here sequences of parts with case folded and "-"
\* read as "."; the rules of matchesEvidenceType then come down to one being
\* the other's tail.
matchesEvidenceType(obsType, reqType) ==
    FinalPart(reqType, obsType) \/ FinalPart(obsType, reqType)

(***************************************************************************)
(* EvidenceContract.Evaluate.                                              *)
(***************************************************************************)

\* The envelopes the loop over candidates considers for requirement req.
Candidates(req, envelopes) ==
    {i \in DOMAIN envelopes :
        /\ matchesEvidenceType(envelopes[i].type, req.type)
        /\ IsProducerAccepted(req, envelopes[i].producer)}

\* Those at which the loop stops: the epoch matches and the evidence is fresh.
Verifying(req, envelopes, epoch, now) ==
    {i \in Candidates(req, envelopes) :
        /\ Matches(envelopes[i].epoch, epoch)
        /\ IsFresh(req, envelopes[i].capturedAt, now)}

First(positions) == CHOOSE i \in positions : \A j \in positions : i <= j

RequiredSet(contract) ==
    {r \in DOMAIN contract.requirements : contract.requirements[r].required}

MatchedSet(contract, envelopes, epoch, now) ==
    {r \in DOMAIN contract.requirements :
        Verifying(contract.requirements[r], envelopes, epoch, now) # {}}

\* A requirement that is not met is stale if some candidate was rejected for
\* its epoch or its age, and missing if there was no candidate at all.
StaleSet(contract, envelopes, epoch, now) ==
    {r \in RequiredSet(contract) \ MatchedSet(contract, envelopes, epoch, now) :
        Candidates(contract.requirements[r], envelopes) # {}}

MissingSet(contract, envelopes, epoch, now) ==
    {r \in RequiredSet(contract) \ MatchedSet(contract, envelopes, epoch, now) :
        Candidates(contract.requirements[r], envelopes) = {}}

Completeness(contract, envelopes, epoch, now) ==
    [required |-> Cardinality(RequiredSet(contract)),
     present  |-> Cardinality(MatchedSet(contract, envelopes, epoch, now)),
     verified |-> Cardinality(MatchedSet(contract, envelopes, epoch, now)
                                \cap RequiredSet(contract)),
     stale    |-> Cardinality(StaleSet(contract, envelopes, epoch, now)),
     missing  |-> Cardinality(MissingSet(contract, envelopes, epoch, now))]

IsComplete(c) ==
    /\ c.required > 0
    /\ c.verified >= c.required
    /\ c.missing = 0
    /\ c.stale = 0

Verdict(c, onMissing) ==
    IF IsComplete(c) THEN "VERIFIED"
    ELSE IF c.stale > 0 /\ c.missing = 0 THEN "STALE"
    ELSE IF onMissing # "UNSPECIFIED" THEN onMissing
    ELSE "UNKNOWN"

\* The envelope chosen for every requirement that is met.
VerifiedEvidences(contract, envelopes, epoch, now) ==
    {envelopes[First(Verifying(contract.requirements[r], envelopes, epoch, now))]
        : r \in MatchedSet(contract, envelopes, epoch, now)}

Evaluate(contract, envelopes, epoch, now) ==
    LET c == Completeness(contract, envelopes, epoch, now) IN
    [completeness |-> c,
     verified |-> VerifiedEvidences(contract, envelopes, epoch, now),
     state |-> Verdict(c, contract.onMissing)]

(***************************************************************************)
(* What evaluation promises, said without loops, counters or the helpers   *)
(* above: something is required, and for everything required there is      *)
(* evidence of that type, from an accepted producer, recorded for this     *)
(* epoch, captured neither in the future nor longer ago than allowed.      *)
(***************************************************************************)
Supports(env, req, epoch, now) ==
    /\ matchesEvidenceType(env.type, req.type)
    /\ req.accepted = {} \/ \E p \in req.accepted : AcceptedBy(p, env.producer)
    /\ \A d \in Dimensions : epoch[d] = Unset \/ env.epoch[d] = epoch[d]
    /\ req.maxAge > 0 => env.capturedAt \in (now - req.maxAge) .. now

Supported(contract, evidence, epoch, now) ==
    /\ \E r \in DOMAIN contract.requirements : contract.requirements[r].required
    /\ \A r \in DOMAIN contract.requirements :
          contract.requirements[r].required =>
              \E env \in evidence :
                  Supports(env, contract.requirements[r], epoch, now)
=============================================================================
