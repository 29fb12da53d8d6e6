--------------------------- MODULE AssuranceService ---------------------------
(***************************************************************************)
(* The gRPC AssuranceService (internal/service/server.go) as the CLI       *)
(* serves it, with an evidence repository in memory, which never fails and *)
(* lives as long as the server.                                            *)
(*                                                                         *)
(* Every RPC runs in a goroutine of its own.  SubmitObservation and        *)
(* EvaluateSubject take the server's lock and the repository's lock one    *)
(* after the other, so each is cut where it lets go of a lock; the other   *)
(* RPCs take one lock once.                                                *)
(***************************************************************************)
EXTENDS EvidenceContract

CONSTANTS
    Callers,          \* goroutines that serve RPCs
    Subjects,         \* subject URIs
    Related,          \* <<s, t>>: matchSubject holds of an envelope about s
                      \* when t is asked for, though the URIs differ
    IDs,              \* observation IDs
    Types,            \* observation types
    EvidenceCounts,   \* how many evidence references an observation has
    Skews,            \* ObservedAt relative to the clock
    MaxAge,           \* 24 hours
    MaxTime,          \* bound: the clock runs from 0 to MaxTime
    MaxObservations   \* bound: calls of SubmitObservation

ASSUME ServiceAssumption ==
    /\ Related \subseteq Subjects \X Subjects
    /\ \A s \in Subjects : <<s, s>> \notin Related
    /\ EvidenceCounts \subseteq Nat
    /\ Skews \subseteq Int
    /\ MaxAge \in Nat \ {0}
    /\ MaxTime \in Nat
    /\ MaxObservations \in Nat

VARIABLES
    observations,   \* observations[s]: the server's map
    store,          \* the repository: envelopes in the order of their Put
    calls,          \* calls[c]: the RPC that c serves
    reply,          \* the last answer about a subject's state
    accepted,       \* history: envelopes of accepted observations
    submitted,      \* calls of SubmitObservation so far
    now             \* the clock

vars == <<observations, store, calls, reply, accepted, submitted, now>>

Idle == [pc |-> "idle"]

NoReply == [call |-> "none", subject |-> Unset, state |-> "UNKNOWN", at |-> 0,
            owed |-> {}]

(***************************************************************************)
(* Envelopes and the contract.  SubmitObservation and EvaluateSubject fill *)
(* in the same five digests; the fallback of EvaluateSubject only one.     *)
(***************************************************************************)
CurrentEpoch(s) ==
    [d \in Dimensions |-> IF d \in {"subject", "policy"} THEN <<d, s>> ELSE <<d>>]

SubjectEpoch(s) == [d \in Dimensions |-> IF d = "subject" THEN <<d, s>> ELSE Unset]

Envelope(obs, i, epoch) ==
    [id |-> <<obs.id, i>>, subject |-> obs.subject, type |-> obs.type,
     capturedAt |-> obs.observedAt, producer |-> <<"observer">>,
     epoch |-> epoch]

DefaultRequirement ==
    [type |-> <<"admission">>, required |-> TRUE, maxAge |-> MaxAge,
     accepted |-> {}]

DefaultContract ==
    [requirements |-> <<DefaultRequirement>>, onMissing |-> "UNKNOWN"]

\* Faulty variant of SummaryState: the contract's state is passed on.
SummaryStateRaw(state) == state

\* EvaluateSubject's switch on the contract's state.
SummaryState(state) ==
    IF state \in {"VERIFIED", "ASSURED"} THEN "ASSURED"
    ELSE IF state \in {"FAILED", "STALE"} THEN state
    ELSE "UNKNOWN"

(***************************************************************************)
(* ListBySubject: the envelopes filed under the subject, the first of each *)
(* ID; then, of those that are merely related to it, one of each ID not    *)
(* seen yet, in the order of a Go map.  The answer is a function on        *)
(* positions of the store, whose order evaluation does not depend on.      *)
(***************************************************************************)
Filed(s) ==
    {k \in DOMAIN store :
        /\ store[k].subject = s
        /\ \A j \in DOMAIN store :
              store[j].subject = s /\ store[j].id = store[k].id => k <= j}

RelatedTo(s) == {k \in DOMAIN store : <<store[k].subject, s>> \in Related}

\* Sets with one position of P for each ID at P.
OnePerID(P) ==
    {Q \in SUBSET P :
        \A k \in P : \E q \in Q :
            /\ store[q].id = store[k].id
            /\ \A r \in Q : store[r].id = store[k].id => r = q}

\* Faulty variant of ListBySubject: the related envelopes come first.
ListRelatedFirst(s) ==
    LET own == {k \in Filed(s) :
                  \A r \in RelatedTo(s) : store[r].id # store[k].id}
    IN {[k \in own \cup Q |-> store[k]] : Q \in OnePerID(RelatedTo(s))}

ListBySubject(s) ==
    LET unseen == {k \in RelatedTo(s) :
                     \A f \in Filed(s) : store[f].id # store[k].id}
    IN {[k \in Filed(s) \cup Q |-> store[k]] : Q \in OnePerID(unseen)}

\* Faulty variant of FallbackEpoch: all five digests are filled in.
FullFallbackEpoch(s) == CurrentEpoch(s)

FallbackEpoch(s) == SubjectEpoch(s)

\* The envelopes EvaluateSubject makes of observations when the repository has
\* none.  Those of one observation differ only in their ID and artifact, so the
\* first stands for all of them; they name no producer.  Observations without a time, which would get
\* that of the evaluation here, are left out of the model.
Fallback(s) ==
    [k \in {j \in DOMAIN observations[s] : observations[s][j].evidence > 0} |->
        [Envelope(observations[s][k], 1, FallbackEpoch(s))
           EXCEPT !.producer = Unset]]

Init ==
    /\ observations = [s \in Subjects |-> <<>>]
    /\ store = <<>>
    /\ calls = [c \in Callers |-> Idle]
    /\ reply = NoReply
    /\ accepted = {}
    /\ submitted = 0
    /\ now = 0

-----------------------------------------------------------------------------
(***************************************************************************)
(* SubmitObservation.                                                      *)
(***************************************************************************)

\* The observation is appended under the server's lock.
SubmitObservation(c, s) ==
    /\ calls[c].pc = "idle"
    /\ submitted < MaxObservations
    /\ \E id \in IDs, type \in Types, n \in EvidenceCounts, skew \in Skews :
         LET obs == [id |-> id, subject |-> s, type |-> type, evidence |-> n,
                     observedAt |-> now + skew]
         IN /\ observations' = [observations EXCEPT ![s] = Append(@, obs)]
            /\ calls' = [calls EXCEPT ![c] =
                           [pc |-> "ingest", obs |-> obs, next |-> 1]]
    /\ submitted' = submitted + 1
    /\ UNCHANGED <<store, reply, accepted, now>>

\* One round of the loop over its evidence: Put.
PutEvidence(c) ==
    /\ calls[c].pc = "ingest"
    /\ calls[c].next <= calls[c].obs.evidence
    /\ store' = Append(store, Envelope(calls[c].obs, calls[c].next,
                                       CurrentEpoch(calls[c].obs.subject)))
    /\ calls' = [calls EXCEPT ![c].next = @ + 1]
    /\ UNCHANGED <<observations, reply, accepted, submitted, now>>

\* The loop is over and the caller is told that the observation is ingested.
AcceptObservation(c) ==
    /\ calls[c].pc = "ingest"
    /\ calls[c].next > calls[c].obs.evidence
    /\ accepted' = accepted \cup
         {Envelope(calls[c].obs, i, CurrentEpoch(calls[c].obs.subject))
            : i \in 1 .. calls[c].obs.evidence}
    /\ calls' = [calls EXCEPT ![c] = Idle]
    /\ UNCHANGED <<observations, store, reply, submitted, now>>

(***************************************************************************)
(* EvaluateSubject.  The time is read first; `owed' is what the answer has *)
(* to count: envelopes accepted before the call, with an ID that no other  *)
(* envelope of the subject bears.                                          *)
(***************************************************************************)
Owed(s) ==
    {env \in accepted :
        /\ env.subject = s
        /\ \A k \in DOMAIN store :
              store[k].subject = s /\ store[k].id = env.id => store[k] = env}

EvaluateSubject(c, s) ==
    /\ calls[c].pc = "idle"
    /\ calls' = [calls EXCEPT ![c] = [pc |-> "list", subject |-> s, at |-> now,
                                      owed |-> Owed(s)]]
    /\ UNCHANGED <<observations, store, reply, accepted, submitted, now>>

\* The contract is evaluated on the envelopes found, and c answers.
Answer(c, envelopes) ==
    /\ reply' =
         [call |-> "EvaluateSubject", subject |-> calls[c].subject,
          state |-> SummaryState(
                      Evaluate(DefaultContract, envelopes,
                               CurrentEpoch(calls[c].subject), calls[c].at).state),
          at |-> calls[c].at, owed |-> calls[c].owed]
    /\ calls' = [calls EXCEPT ![c] = Idle]

\* The repository is asked, and if it has something the contract is evaluated.
ListEnvelopes(c) ==
    /\ calls[c].pc = "list"
    /\ \E envelopes \in ListBySubject(calls[c].subject) :
         IF DOMAIN envelopes # {}
         THEN Answer(c, envelopes)
         ELSE /\ calls' = [calls EXCEPT ![c].pc = "fallback"]
              /\ UNCHANGED reply
    /\ UNCHANGED <<observations, store, accepted, submitted, now>>

\* The repository had nothing: the observations are read under the server's
\* lock, by which time there may be some.
EvaluateFallback(c) ==
    /\ calls[c].pc = "fallback"
    /\ Answer(c, Fallback(calls[c].subject))
    /\ UNCHANGED <<observations, store, accepted, submitted, now>>

(***************************************************************************)
(* GetAssuranceState and ExplainClaim look at the observations only.       *)
(***************************************************************************)
ObservedState(s) == IF observations[s] = <<>> THEN "UNKNOWN" ELSE "ASSURED"

AnswerFromObservations(call, s) ==
    /\ reply' = [call |-> call, subject |-> s, state |-> ObservedState(s),
                 at |-> now, owed |-> {}]
    /\ UNCHANGED <<observations, store, calls, accepted, submitted, now>>

GetAssuranceState(s) == AnswerFromObservations("GetAssuranceState", s)

ExplainClaim(s) == AnswerFromObservations("ExplainClaim", s)

Tick ==
    /\ now < MaxTime
    /\ now' = now + 1
    /\ UNCHANGED <<observations, store, calls, reply, accepted, submitted>>

Next ==
    \/ \E c \in Callers :
         \/ \E s \in Subjects : SubmitObservation(c, s) \/ EvaluateSubject(c, s)
         \/ PutEvidence(c)
         \/ AcceptObservation(c)
         \/ ListEnvelopes(c)
         \/ EvaluateFallback(c)
    \/ \E s \in Subjects : GetAssuranceState(s) \/ ExplainClaim(s)
    \/ Tick

Spec == Init /\ [][Next]_vars

-----------------------------------------------------------------------------
(***************************************************************************)
(* Properties.                                                             *)
(***************************************************************************)

\* What the store holds about a subject, under exactly its URI.
StoredAbout(s) == {store[k] : k \in {j \in DOMAIN store : store[j].subject = s}}

\* Type invariant; every envelope in the store carries the epoch of its own
\* subject and comes from an observation that the server still has.
TypeOK ==
    /\ \A k \in DOMAIN store :
         LET env == store[k] IN
         /\ env.subject \in Subjects
         /\ env.capturedAt \in Int
         /\ env.epoch = CurrentEpoch(env.subject)
         /\ \E j \in DOMAIN observations[env.subject] :
               observations[env.subject][j].id = env.id[1]
    /\ \A c \in Callers :
         calls[c].pc \in {"idle", "ingest", "list", "fallback"}
    /\ reply.state \in {"UNKNOWN", "STALE", "FAILED", "ASSURED"}
    /\ now \in 0 .. MaxTime

\* Invariant I-02 at EvaluateSubject: an answer ASSURED rests on admission
\* evidence about exactly this subject, in the store and fresh when the call
\* began.  Neither envelopes of related subjects, which ListBySubject returns
\* too, nor observations whose evidence is not stored yet, which the fallback
\* sees, can bring it about (server.go 139-204).
AssuredIsStored ==
    reply.call = "EvaluateSubject" /\ reply.state = "ASSURED" =>
        /\ Supported(DefaultContract, StoredAbout(reply.subject),
                     CurrentEpoch(reply.subject), reply.at)
        /\ observations[reply.subject] # <<>>

\* No false alarm: evidence accepted before the call, fresh at its time and
\* under an ID of its own, is counted, whatever is being submitted meanwhile
\* about this or a related subject (server.go 139-204, cas.go 235-258).
FreshEvidenceCounts ==
    \A env \in reply.owed :
        Supports(env, DefaultRequirement, CurrentEpoch(reply.subject), reply.at)
            => reply.state = "ASSURED"

\* "Absence of evidence is UNKNOWN, never PASS" (the comment at server.go 404):
\* GetAssuranceState answers ASSURED only about a subject for which some
\* observation carried evidence.
NoEvidenceIsUnknown ==
    reply.call = "GetAssuranceState" /\ reply.state = "ASSURED" =>
        \E k \in DOMAIN observations[reply.subject] :
            observations[reply.subject][k].evidence > 0
=============================================================================
