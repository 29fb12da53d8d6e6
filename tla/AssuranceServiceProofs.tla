------------------------ MODULE AssuranceServiceProofs ------------------------
(***************************************************************************)
(* EvaluateSubject says ASSURED only on stored evidence about the subject  *)
(* itself, for any number of callers, subjects and observations and any    *)
(* relation between subjects.                                              *)
(***************************************************************************)
EXTENDS AssuranceService, EvidenceContractProofs

Observation == [id : IDs, subject : Subjects, type : Types, evidence : Nat,
                observedAt : Int]

\* What a goroutine knows of the RPC it serves.
CallOK(c) ==
    \/ calls[c] = Idle
    \/ /\ calls[c] \in [pc : {"ingest"}, obs : Observation, next : Nat]
       /\ observations[calls[c].obs.subject] # <<>>
    \/ /\ DOMAIN calls[c] = {"pc", "subject", "at", "owed"}
       /\ calls[c].pc \in {"list", "fallback"}
       /\ calls[c].subject \in Subjects
       /\ calls[c].at \in Int

\* What every stored envelope carries.
EnvelopeOK(env) ==
    /\ env.subject \in Subjects
    /\ env.capturedAt \in Int
    /\ env.epoch = CurrentEpoch(env.subject)
    /\ observations[env.subject] # <<>>

\* The inductive invariant: besides the claim itself, every stored envelope
\* carries the epoch of its own subject.
ServiceInv ==
    /\ observations \in [Subjects -> Seq(Observation)]
    /\ DOMAIN calls = Callers
    /\ \A c \in Callers : CallOK(c)
    /\ store \in Seq({store[k] : k \in DOMAIN store})
    /\ \A k \in DOMAIN store : EnvelopeOK(store[k])
    /\ now \in Int
    /\ AssuredIsStored
    /\ reply.call = "EvaluateSubject" => reply.subject \in Subjects

\* ListBySubject returns envelopes of the store.
LEMMA ListedIsStored ==
    ASSUME NEW s, NEW envelopes \in ListBySubject(s),
           NEW k \in DOMAIN envelopes
    PROVE  k \in DOMAIN store /\ envelopes[k] = store[k]
  <1> DEFINE unseen == {j \in RelatedTo(s) :
                          \A f \in Filed(s) : store[f].id # store[j].id}
  <1>1. PICK Q \in OnePerID(unseen) :
            envelopes = [j \in Filed(s) \cup Q |-> store[j]]
    BY DEF ListBySubject
  <1>2. Q \subseteq RelatedTo(s)
    BY DEF OnePerID
  <1>3. k \in Filed(s) \cup RelatedTo(s) /\ envelopes[k] = store[k]
    BY <1>1, <1>2
  <1> QED BY <1>3 DEF Filed, RelatedTo

\* EvaluateSubject says ASSURED exactly if the contract is VERIFIED, and then
\* the envelopes support it.
LEMMA AssuredIsSupported ==
    ASSUME NEW envelopes, NEW epoch, NEW time \in Int,
           \A k \in DOMAIN envelopes : envelopes[k].capturedAt \in Int,
           SummaryState(Evaluate(DefaultContract, envelopes, epoch, time).state)
              = "ASSURED"
    PROVE  Supported(DefaultContract, Contents(envelopes), epoch, time)
  <1> DEFINE state == Evaluate(DefaultContract, envelopes, epoch, time).state
  <1>1. state \in {"VERIFIED", "STALE", "UNKNOWN"}
    BY DEF Evaluate, Verdict, DefaultContract
  <1>2. state = "VERIFIED"
    BY <1>1 DEF SummaryState
  <1>3. /\ DOMAIN DefaultContract.requirements = 1 .. 1
        /\ DefaultContract.requirements[1] = DefaultRequirement
        /\ DefaultContract.onMissing = "UNKNOWN"
    BY DEF DefaultContract
  <1>4. DefaultRequirement.maxAge \in Int
    BY ServiceAssumption DEF DefaultRequirement
  <1>5. WellFormed(DefaultContract, envelopes, time)
    BY <1>3, <1>4 DEF WellFormed
  <1> QED BY <1>2, <1>5, VerifiedIffSupported

\* An envelope that supports the default contract has the digests of the epoch.
SupportsIn(env, s, time) ==
    /\ Supports(env, DefaultRequirement, CurrentEpoch(s), time)
    /\ env.epoch["subject"] = <<"subject", s>>
    /\ env.epoch["policy"] = <<"policy", s>>

\* What supports the default contract in the current epoch of s has the digests
\* of that epoch.
LEMMA SupportHasEpoch ==
    ASSUME NEW evidence, NEW s, NEW time,
           Supported(DefaultContract, evidence, CurrentEpoch(s), time)
    PROVE  \E env \in evidence : SupportsIn(env, s, time)
  <1>1. /\ 1 \in DOMAIN DefaultContract.requirements
        /\ DefaultContract.requirements[1] = DefaultRequirement
        /\ DefaultRequirement.required
    BY DEF DefaultContract, DefaultRequirement
  <1>2. PICK env \in evidence :
            Supports(env, DefaultRequirement, CurrentEpoch(s), time)
    BY <1>1 DEF Supported
  <1>3. /\ CurrentEpoch(s)["subject"] = <<"subject", s>>
        /\ CurrentEpoch(s)["policy"] = <<"policy", s>>
    BY DEF CurrentEpoch, Dimensions
  <1>4. <<"subject", s>> # Unset /\ <<"policy", s>> # Unset
    BY DEF Unset
  <1>5. /\ env.epoch["subject"] = CurrentEpoch(s)["subject"]
        /\ env.epoch["policy"] = CurrentEpoch(s)["policy"]
    BY <1>2, <1>3, <1>4 DEF Supports, Dimensions
  <1> QED BY <1>2, <1>3, <1>5 DEF SupportsIn

\* One supporting envelope is enough for the default contract.
LEMMA OneSupports ==
    ASSUME NEW evidence, NEW epoch, NEW time, NEW env \in evidence,
           Supports(env, DefaultRequirement, epoch, time)
    PROVE  Supported(DefaultContract, evidence, epoch, time)
  <1>1. /\ DOMAIN DefaultContract.requirements = {1}
        /\ DefaultContract.requirements[1] = DefaultRequirement
        /\ DefaultRequirement.required
    BY DEF DefaultContract, DefaultRequirement
  <1> QED BY <1>1 DEF Supported

\* The fields of an envelope the service makes.
LEMMA EnvelopeFields ==
    ASSUME NEW obs, NEW i, NEW epoch
    PROVE  /\ Envelope(obs, i, epoch).subject = obs.subject
           /\ Envelope(obs, i, epoch).capturedAt = obs.observedAt
           /\ Envelope(obs, i, epoch).epoch = epoch
  BY DEF Envelope

\* No call is under way at first.
LEMMA InitServiceInv == Init => ServiceInv
  <1> SUFFICES ASSUME Init PROVE ServiceInv
    OBVIOUS
  <1>1. observations \in [Subjects -> Seq(Observation)]
    BY DEF Init
  <1>2. store \in Seq({store[k] : k \in DOMAIN store}) /\ DOMAIN store = {}
    BY DEF Init
  <1>3. DOMAIN calls = Callers /\ \A c \in Callers : CallOK(c)
    BY DEF Init, CallOK
  <1>4. AssuredIsStored /\ reply.call # "EvaluateSubject" /\ now \in Int
    BY DEF Init, AssuredIsStored, NoReply
  <1> QED BY <1>1, <1>2, <1>3, <1>4 DEF ServiceInv

\* A step that keeps the answer and loses nothing that is stored or observed
\* keeps the claim.
LEMMA AnswerKept ==
    ASSUME ServiceInv,
           reply' = reply,
           \A s \in Subjects : StoredAbout(s) \subseteq StoredAbout(s)',
           \A s \in Subjects : observations[s] # <<>> => observations'[s] # <<>>
    PROVE  /\ AssuredIsStored'
           /\ (reply.call = "EvaluateSubject" => reply.subject \in Subjects)'
  <1>1. CASE reply.call = "EvaluateSubject" /\ reply.state = "ASSURED"
    <2>1. /\ reply.subject \in Subjects
          /\ Supported(DefaultContract, StoredAbout(reply.subject),
                       CurrentEpoch(reply.subject), reply.at)
          /\ observations[reply.subject] # <<>>
      BY <1>1 DEF ServiceInv, AssuredIsStored
    <2>2. Supported(DefaultContract, StoredAbout(reply.subject)',
                    CurrentEpoch(reply.subject), reply.at)
      BY <2>1, SupportedGrows
    <2> QED BY <1>1, <2>1, <2>2 DEF AssuredIsStored, StoredAbout
  <1>2. CASE ~(reply.call = "EvaluateSubject" /\ reply.state = "ASSURED")
    BY <1>2 DEF ServiceInv, AssuredIsStored
  <1> QED BY <1>1, <1>2

\* The answer of EvaluateSubject on envelopes of the store.
LEMMA AnswerFromStore ==
    ASSUME ServiceInv, NEW c \in Callers, calls[c].pc = "list",
           NEW envelopes \in ListBySubject(calls[c].subject),
           Answer(c, envelopes), UNCHANGED <<observations, store>>
    PROVE  AssuredIsStored' /\ reply'.subject \in Subjects
  <1>0. calls[c].subject \in Subjects /\ calls[c].at \in Int
    BY DEF ServiceInv, CallOK, Idle
  <1> SUFFICES ASSUME NEW s \in Subjects, s = calls[c].subject,
                      NEW at \in Int, at = calls[c].at
               PROVE  AssuredIsStored' /\ reply'.subject \in Subjects
    BY <1>0
  <1>2. /\ reply'.subject = s /\ reply'.at = at
        /\ reply'.state = SummaryState(Evaluate(DefaultContract, envelopes,
                                                CurrentEpoch(s), at).state)
    BY DEF Answer
  <1>3. \A k \in DOMAIN envelopes :
            k \in DOMAIN store /\ envelopes[k] = store[k]
    BY ListedIsStored
  <1>4. CASE reply'.state = "ASSURED"
    <2>1. \A k \in DOMAIN envelopes : envelopes[k].capturedAt \in Int
      BY <1>3 DEF ServiceInv, EnvelopeOK
    <2>2. Supported(DefaultContract, Contents(envelopes), CurrentEpoch(s), at)
      BY <1>2, <1>4, <2>1, AssuredIsSupported
    <2>3. PICK env \in Contents(envelopes) : SupportsIn(env, s, at)
      BY <2>2, SupportHasEpoch
    <2>4. PICK k \in DOMAIN store : env = store[k]
      BY <1>3, <2>3 DEF Contents
    <2>5. EnvelopeOK(env)
      BY <2>4 DEF ServiceInv
    <2>6. env.epoch["subject"] = <<"subject", env.subject>>
      BY <2>5 DEF EnvelopeOK, CurrentEpoch, Dimensions
    <2>7. env.subject = s
      BY <2>3, <2>6 DEF SupportsIn
    <2>8. env \in StoredAbout(s) /\ observations[s] # <<>>
      BY <2>4, <2>5, <2>7 DEF StoredAbout, EnvelopeOK
    <2>9. Supported(DefaultContract, StoredAbout(s), CurrentEpoch(s), at)
      BY <2>3, <2>8, OneSupports DEF SupportsIn
    <2>10. StoredAbout(s)' = StoredAbout(s)
      BY DEF StoredAbout
    <2> QED BY <1>2, <2>8, <2>9, <2>10 DEF AssuredIsStored, StoredAbout
  <1>5. CASE reply'.state # "ASSURED"
    BY <1>2, <1>5 DEF AssuredIsStored
  <1> QED BY <1>4, <1>5

\* The answer of EvaluateSubject on the fallback envelopes is not ASSURED.
LEMMA FallbackIsNotAssured ==
    ASSUME ServiceInv, NEW c \in Callers, calls[c].pc = "fallback",
           Answer(c, Fallback(calls[c].subject))
    PROVE  reply'.state # "ASSURED" /\ reply'.subject \in Subjects
  <1>0. calls[c].subject \in Subjects /\ calls[c].at \in Int
    BY DEF ServiceInv, CallOK, Idle
  <1> SUFFICES ASSUME NEW s \in Subjects, s = calls[c].subject,
                      NEW at \in Int, at = calls[c].at,
                      NEW envelopes, envelopes = Fallback(s)
               PROVE  reply'.state # "ASSURED" /\ reply'.subject \in Subjects
    BY <1>0
  <1>2. /\ reply'.subject = s
        /\ reply'.state = SummaryState(Evaluate(DefaultContract, envelopes,
                                                CurrentEpoch(s), at).state)
    BY DEF Answer
  <1>3. ASSUME reply'.state = "ASSURED" PROVE FALSE
    <2>1. \A k \in DOMAIN envelopes :
             /\ k \in DOMAIN observations[s]
             /\ envelopes[k] = [Envelope(observations[s][k], 1, SubjectEpoch(s))
                                  EXCEPT !.producer = Unset]
      BY DEF Fallback, FallbackEpoch
    <2>0. \A k \in DOMAIN observations[s] : observations[s][k] \in Observation
      BY DEF ServiceInv
    <2>2. ASSUME NEW k \in DOMAIN envelopes
          PROVE  /\ envelopes[k].capturedAt \in Int
                 /\ envelopes[k].epoch["policy"] = Unset
      <3>0. envelopes[k] = [Envelope(observations[s][k], 1, SubjectEpoch(s))
                              EXCEPT !.producer = Unset]
        BY <2>1
      <3>1. envelopes[k].capturedAt = observations[s][k].observedAt
        BY <3>0 DEF Envelope
      <3>2. envelopes[k].epoch = SubjectEpoch(s)
        BY <3>0 DEF Envelope
      <3>3. observations[s][k].observedAt \in Int
        BY <2>0, <2>1 DEF Observation
      <3> QED BY <3>1, <3>2, <3>3 DEF SubjectEpoch, Dimensions
    <2>3. Supported(DefaultContract, Contents(envelopes), CurrentEpoch(s), at)
      BY <1>2, <1>3, <2>2, AssuredIsSupported
    <2>4. PICK env \in Contents(envelopes) : SupportsIn(env, s, at)
      BY <2>3, SupportHasEpoch
    <2>5. env.epoch["policy"] = Unset
      BY <2>2, <2>4 DEF Contents
    <2> QED BY <2>4, <2>5 DEF Unset, SupportsIn
  <1> QED BY <1>2, <1>3

\* A stored envelope stays in order while observations only grow.
LEMMA EnvelopesKept ==
    ASSUME ServiceInv,
           \A s \in Subjects : observations[s] # <<>> => observations'[s] # <<>>
    PROVE  \A k \in DOMAIN store : EnvelopeOK(store[k])'
              \/ store'[k] # store[k]
  BY DEF ServiceInv, EnvelopeOK, CurrentEpoch

\* Every step of a call and of the store keeps the invariant.
LEMMA StepServiceInv == ServiceInv /\ [Next]_vars => ServiceInv'
  <1> SUFFICES ASSUME ServiceInv, [Next]_vars PROVE ServiceInv'
    OBVIOUS
  <1>1. ASSUME NEW c \in Callers, NEW s \in Subjects, SubmitObservation(c, s)
        PROVE  ServiceInv'
    <2>1. PICK obs \in Observation :
            /\ obs.subject = s
            /\ observations' = [observations EXCEPT ![s] = Append(@, obs)]
            /\ calls' = [calls EXCEPT ![c] =
                           [pc |-> "ingest", obs |-> obs, next |-> 1]]
      <3>1. PICK id \in IDs, type \in Types, n \in EvidenceCounts, skew \in Skews :
              LET obs == [id |-> id, subject |-> s, type |-> type,
                          evidence |-> n, observedAt |-> now + skew]
              IN /\ observations' = [observations EXCEPT ![s] = Append(@, obs)]
                 /\ calls' = [calls EXCEPT ![c] =
                                [pc |-> "ingest", obs |-> obs, next |-> 1]]
        BY <1>1 DEF SubmitObservation
      <3>2. n \in Nat /\ now + skew \in Int
        BY ServiceAssumption DEF ServiceInv
      <3>3. [id |-> id, subject |-> s, type |-> type, evidence |-> n,
             observedAt |-> now + skew] \in Observation
        BY <3>2 DEF Observation
      <3> QED BY <3>1, <3>3
    <2>2. /\ observations' \in [Subjects -> Seq(Observation)]
          /\ observations'[s] # <<>>
          /\ \A t \in Subjects :
                observations[t] # <<>> => observations'[t] # <<>>
      BY <2>1 DEF ServiceInv
    <2>3. UNCHANGED <<store, reply, now>>
      BY <1>1 DEF SubmitObservation
    <2>4. AssuredIsStored' /\ (reply.call = "EvaluateSubject" =>
                                  reply.subject \in Subjects)'
      <3>1. \A t \in Subjects : StoredAbout(t) \subseteq StoredAbout(t)'
        BY <2>3 DEF StoredAbout
      <3> QED BY <2>2, <2>3, <3>1, AnswerKept
    <2>5. DOMAIN calls' = Callers /\ \A d \in Callers : CallOK(d)'
      <3>1. CallOK(c)'
        BY <2>1, <2>2 DEF CallOK, ServiceInv
      <3>2. ASSUME NEW d \in Callers, d # c PROVE CallOK(d)'
        <4>1. calls'[d] = calls[d] /\ CallOK(d)
          BY <2>1, <3>2 DEF ServiceInv
        <4> QED BY <2>2, <4>1 DEF CallOK, Observation
      <3> QED BY <2>1, <3>1, <3>2 DEF ServiceInv
    <2>6. \A k \in DOMAIN store : EnvelopeOK(store[k])'
      BY <2>2, <2>3, EnvelopesKept
    <2> QED BY <2>2, <2>3, <2>4, <2>5, <2>6 DEF ServiceInv
  <1>2. ASSUME NEW c \in Callers, PutEvidence(c) PROVE ServiceInv'
    <2> DEFINE obs == calls[c].obs
               env == Envelope(obs, calls[c].next, CurrentEpoch(obs.subject))
    <2>1. /\ calls[c] \in [pc : {"ingest"}, obs : Observation, next : Nat]
          /\ observations[obs.subject] # <<>>
      BY <1>2 DEF PutEvidence, ServiceInv, CallOK, Idle
    <2>2. /\ store' = Append(store, env)
          /\ calls' = [calls EXCEPT ![c].next = @ + 1]
          /\ UNCHANGED <<observations, reply, now>>
      BY <1>2 DEF PutEvidence
    <2>3. /\ env.subject = obs.subject /\ env.capturedAt = obs.observedAt
          /\ env.epoch = CurrentEpoch(obs.subject)
      BY DEF Envelope
    <2>4. EnvelopeOK(env)
      BY <2>1, <2>3 DEF EnvelopeOK, Observation
    <2> HIDE DEF env
    <2>5. /\ DOMAIN store' = 1 .. Len(store) + 1
          /\ DOMAIN store = 1 .. Len(store)
          /\ Len(store) \in Nat
          /\ \A k \in DOMAIN store : store'[k] = store[k]
          /\ store'[Len(store) + 1] = env
      BY <2>2 DEF ServiceInv
    <2>6. store' \in Seq({store'[k] : k \in DOMAIN store'})
      <3> DEFINE T == {store'[k] : k \in DOMAIN store'}
      <3>1. env \in T /\ \A k \in DOMAIN store : store[k] \in T
        BY <2>5
      <3>2. store \in Seq(T)
        BY <3>1 DEF ServiceInv
      <3> QED BY <2>2, <3>1, <3>2
    <2>7. \A k \in DOMAIN store' : EnvelopeOK(store'[k])
      BY <2>4, <2>5 DEF ServiceInv
    <2>8. (\A k \in DOMAIN store : EnvelopeOK(store[k]))'
      BY <2>2, <2>7 DEF EnvelopeOK, CurrentEpoch
    <2>9. \A t \in Subjects : StoredAbout(t) \subseteq StoredAbout(t)'
      BY <2>5 DEF StoredAbout
    <2>10. AssuredIsStored' /\ (reply.call = "EvaluateSubject" =>
                                   reply.subject \in Subjects)'
      BY <2>2, <2>9, AnswerKept
    <2>11. \A d \in Callers : CallOK(d)'
      <3>1. CallOK(c)'
        BY <2>1, <2>2 DEF CallOK, ServiceInv
      <3>2. ASSUME NEW d \in Callers, d # c PROVE CallOK(d)'
        <4>1. calls'[d] = calls[d] /\ CallOK(d)
          BY <2>2, <3>2 DEF ServiceInv
        <4> QED BY <2>2, <4>1 DEF CallOK
      <3> QED BY <3>1, <3>2
    <2> QED BY <2>2, <2>6, <2>8, <2>10, <2>11 DEF ServiceInv
  <1>3. ASSUME NEW c \in Callers,
               \/ \E s \in Subjects : EvaluateSubject(c, s)
               \/ AcceptObservation(c)
        PROVE  ServiceInv'
    <2>1. UNCHANGED <<observations, store, reply, now>>
      BY <1>3 DEF EvaluateSubject, AcceptObservation
    <2>2. DOMAIN calls' = Callers /\ \A d \in Callers : CallOK(d)'
      <3>1. \/ calls' = [calls EXCEPT ![c] = Idle]
            \/ \E s \in Subjects :
                 calls' = [calls EXCEPT ![c] = [pc |-> "list", subject |-> s,
                                                at |-> now, owed |-> Owed(s)]]
        BY <1>3 DEF EvaluateSubject, AcceptObservation
      <3>2. CallOK(c)'
        BY <3>1 DEF CallOK, ServiceInv
      <3>3. ASSUME NEW d \in Callers, d # c PROVE CallOK(d)'
        <4>1. calls'[d] = calls[d] /\ CallOK(d)
          BY <3>1, <3>3 DEF ServiceInv
        <4> QED BY <2>1, <4>1 DEF CallOK
      <3> QED BY <3>1, <3>2, <3>3 DEF ServiceInv
    <2>3. AssuredIsStored' /\ (\A k \in DOMAIN store : EnvelopeOK(store[k]))'
      BY <2>1 DEF ServiceInv, AssuredIsStored, StoredAbout, EnvelopeOK
    <2> QED BY <2>1, <2>2, <2>3 DEF ServiceInv
  <1>4. ASSUME NEW c \in Callers, ListEnvelopes(c) \/ EvaluateFallback(c)
        PROVE  ServiceInv'
    <2>1. UNCHANGED <<observations, store, now>>
      BY <1>4 DEF ListEnvelopes, EvaluateFallback
    <2>2. /\ AssuredIsStored'
          /\ (reply.call = "EvaluateSubject" => reply.subject \in Subjects)'
          /\ \/ calls' = [calls EXCEPT ![c] = Idle]
             \/ /\ calls[c].pc = "list"
                /\ calls' = [calls EXCEPT ![c].pc = "fallback"]
      <3>1. CASE ListEnvelopes(c)
        <4>1. PICK envelopes \in ListBySubject(calls[c].subject) :
                IF DOMAIN envelopes # {}
                THEN Answer(c, envelopes)
                ELSE /\ calls' = [calls EXCEPT ![c].pc = "fallback"]
                     /\ UNCHANGED reply
          BY <3>1 DEF ListEnvelopes
        <4>2. calls[c].pc = "list"
          BY <3>1 DEF ListEnvelopes
        <4>3. CASE Answer(c, envelopes)
          <5>1. AssuredIsStored' /\ reply'.subject \in Subjects
            BY <2>1, <4>2, <4>3, AnswerFromStore
          <5> QED BY <4>3, <5>1 DEF Answer
        <4>4. CASE /\ calls' = [calls EXCEPT ![c].pc = "fallback"]
                   /\ UNCHANGED reply
          BY <2>1, <4>2, <4>4 DEF ServiceInv, AssuredIsStored, StoredAbout
        <4> QED BY <4>1, <4>3, <4>4
      <3>2. CASE EvaluateFallback(c)
        <4>1. calls[c].pc = "fallback" /\ Answer(c, Fallback(calls[c].subject))
          BY <3>2 DEF EvaluateFallback
        <4>2. reply'.state # "ASSURED" /\ reply'.subject \in Subjects
          BY <4>1, FallbackIsNotAssured
        <4> QED BY <4>1, <4>2 DEF Answer, AssuredIsStored
      <3> QED BY <1>4, <3>1, <3>2
    <2>3. DOMAIN calls' = Callers /\ \A d \in Callers : CallOK(d)'
      <3>1. CallOK(c)'
        <4>1. CASE calls' = [calls EXCEPT ![c] = Idle]
          BY <4>1 DEF CallOK, ServiceInv
        <4>2. CASE /\ calls[c].pc = "list"
                   /\ calls' = [calls EXCEPT ![c].pc = "fallback"]
          <5>1. /\ DOMAIN calls[c] = {"pc", "subject", "at", "owed"}
                /\ calls[c].subject \in Subjects /\ calls[c].at \in Int
            BY <4>2 DEF ServiceInv, CallOK, Idle
          <5>2. calls'[c] = [calls[c] EXCEPT !.pc = "fallback"]
            BY <4>2 DEF ServiceInv
          <5>3. /\ DOMAIN calls'[c] = {"pc", "subject", "at", "owed"}
                /\ calls'[c].pc = "fallback"
                /\ calls'[c].subject \in Subjects /\ calls'[c].at \in Int
            BY <5>1, <5>2
          <5> QED BY <5>3 DEF CallOK
        <4> QED BY <2>2, <4>1, <4>2
      <3>2. ASSUME NEW d \in Callers, d # c PROVE CallOK(d)'
        <4>1. calls'[d] = calls[d] /\ CallOK(d)
          BY <2>2, <3>2 DEF ServiceInv
        <4> QED BY <2>1, <4>1 DEF CallOK
      <3> QED BY <2>2, <3>1, <3>2 DEF ServiceInv
    <2>4. (\A k \in DOMAIN store : EnvelopeOK(store[k]))'
      BY <2>1 DEF ServiceInv, EnvelopeOK
    <2> QED BY <2>1, <2>2, <2>3, <2>4 DEF ServiceInv
  <1>5. ASSUME NEW s \in Subjects, GetAssuranceState(s) \/ ExplainClaim(s)
        PROVE  ServiceInv'
    <2>1. /\ UNCHANGED <<observations, store, calls, now>>
          /\ reply'.call # "EvaluateSubject"
      BY <1>5 DEF GetAssuranceState, ExplainClaim, AnswerFromObservations
    <2>2. AssuredIsStored' /\ (\A k \in DOMAIN store : EnvelopeOK(store[k]))'
      BY <2>1 DEF ServiceInv, AssuredIsStored, EnvelopeOK
    <2>3. \A d \in Callers : CallOK(d)'
      BY <2>1 DEF ServiceInv, CallOK
    <2> QED BY <2>1, <2>2, <2>3 DEF ServiceInv
  <1>6. CASE Tick \/ UNCHANGED vars
    <2>1. UNCHANGED <<observations, store, calls, reply>> /\ now' \in Int
      BY <1>6 DEF Tick, vars, ServiceInv
    <2>2. AssuredIsStored' /\ (\A k \in DOMAIN store : EnvelopeOK(store[k]))'
      BY <2>1 DEF ServiceInv, AssuredIsStored, StoredAbout, EnvelopeOK
    <2>3. \A d \in Callers : CallOK(d)'
      BY <2>1 DEF ServiceInv, CallOK
    <2>4. (reply.call = "EvaluateSubject" => reply.subject \in Subjects)'
      BY <2>1 DEF ServiceInv
    <2> QED BY <2>1, <2>2, <2>3, <2>4 DEF ServiceInv
  <1> QED BY <1>1, <1>2, <1>3, <1>4, <1>5, <1>6 DEF Next

\* Invariant I-02 at EvaluateSubject, for every number of callers, subjects and
\* observations, every relation between subjects and every clock: an answer
\* ASSURED rests on fresh evidence stored about that very subject
\* (server.go 128-204).
THEOREM ServiceAssuresOnEvidence == Spec => []AssuredIsStored
  <1>1. ServiceInv => AssuredIsStored
    BY DEF ServiceInv
  <1> QED BY <1>1, InitServiceInv, StepServiceInv, PTL DEF Spec

(***************************************************************************)
(* Evidence that was accepted before the call is counted.                  *)
(***************************************************************************)

\* The server has the observation.
Recorded(obs) ==
    \E j \in DOMAIN observations[obs.subject] : observations[obs.subject][j] = obs

\* How far SubmitObservation and EvaluateSubject have come: what the loop has put
\* is in the store; what the answer owes is filed under the subject, at the
\* position ListBySubject takes; and a call that found nothing owes nothing.
ProgressOK(c) ==
    /\ calls[c].pc = "ingest" =>
         /\ Recorded(calls[c].obs)
         /\ \A i \in 1 .. calls[c].next - 1 :
              Envelope(calls[c].obs, i, CurrentEpoch(calls[c].obs.subject))
                 \in Contents(store)
    /\ calls[c].pc = "list" =>
         \A env \in calls[c].owed : \E k \in Filed(calls[c].subject) : store[k] = env
    /\ calls[c].pc = "fallback" => calls[c].owed = {}

\* Every envelope comes from an observation the server has.
StoreRecorded ==
    \A k \in DOMAIN store :
        \E j \in DOMAIN observations[store[k].subject] :
            observations[store[k].subject][j].id = store[k].id[1]

\* The invariant that FreshEvidenceCounts and TypeOK need besides ServiceInv.
CountInv ==
    /\ \A c \in Callers : ProgressOK(c)
    /\ accepted \subseteq Contents(store)
    /\ StoreRecorded
    /\ FreshEvidenceCounts
    /\ reply.state \in {"UNKNOWN", "STALE", "FAILED", "ASSURED"}
    /\ now \in 0 .. MaxTime

\* The converse of AssuredIsSupported: what supports the contract brings the
\* answer ASSURED about.
LEMMA SupportedIsAssured ==
    ASSUME NEW envelopes, NEW epoch, NEW time \in Int,
           \A k \in DOMAIN envelopes : envelopes[k].capturedAt \in Int,
           Supported(DefaultContract, Contents(envelopes), epoch, time)
    PROVE  SummaryState(Evaluate(DefaultContract, envelopes, epoch, time).state)
              = "ASSURED"
  <1>1. /\ DOMAIN DefaultContract.requirements = 1 .. 1
        /\ DefaultContract.requirements[1] = DefaultRequirement
        /\ DefaultContract.onMissing = "UNKNOWN"
    BY DEF DefaultContract
  <1>2. DefaultRequirement.maxAge \in Int
    BY ServiceAssumption DEF DefaultRequirement
  <1>3. WellFormed(DefaultContract, envelopes, time)
    BY <1>1, <1>2 DEF WellFormed
  <1>4. Evaluate(DefaultContract, envelopes, epoch, time).state = "VERIFIED"
    BY <1>3, VerifiedIffSupported
  <1> QED BY <1>4 DEF SummaryState

\* ListBySubject returns all that is filed under the subject.
LEMMA FiledIsListed ==
    ASSUME NEW s, NEW envelopes \in ListBySubject(s)
    PROVE  /\ Filed(s) \subseteq DOMAIN envelopes
           /\ \A k \in Filed(s) : envelopes[k] = store[k]
  <1> DEFINE unseen == {j \in RelatedTo(s) :
                          \A f \in Filed(s) : store[f].id # store[j].id}
  <1>1. PICK Q \in OnePerID(unseen) :
            envelopes = [j \in Filed(s) \cup Q |-> store[j]]
    BY DEF ListBySubject
  <1> QED BY <1>1

\* Of the envelopes with the ID of one that is owed the first is filed, and it is
\* that one.
LEMMA OwedIsFiled ==
    ASSUME ServiceInv, CountInv, NEW s \in Subjects, NEW env \in Owed(s)
    PROVE  \E k \in Filed(s) : store[k] = env
  <1> DEFINE T == {k \in DOMAIN store : store[k].subject = s /\ store[k].id = env.id}
  <1>1. env \in Contents(store) /\ env.subject = s
    BY DEF CountInv, Owed
  <1>2. T # {}
    BY <1>1 DEF Contents
  <1>3. DOMAIN store = 1 .. Len(store) /\ Len(store) \in Nat
    BY DEF ServiceInv
  <1>4. T \subseteq Nat
    BY <1>3
  <1>5. PICK k \in T : \A j \in T : k <= j
    <2> HIDE DEF T
    <2> QED BY <1>2, <1>4, LeastNumber
  <1>6. store[k] = env
    BY <1>5 DEF Owed
  <1>7. k \in Filed(s)
    BY <1>5 DEF Filed
  <1> QED BY <1>6, <1>7

\* This step appends to the store, if it changes it at all.
StoreGrows ==
    /\ \A k \in DOMAIN store : k \in DOMAIN store' /\ store'[k] = store[k]
    /\ \A k \in DOMAIN store' \ DOMAIN store : \A j \in DOMAIN store : j <= k

\* This step appends to observations, if it changes them at all.
ObservationsGrow ==
    \A s \in Subjects : \A j \in DOMAIN observations[s] :
        j \in DOMAIN observations'[s] /\ observations'[s][j] = observations[s][j]

\* What is filed stays filed when the store grows: a later envelope with the same
\* ID does not take its place.
LEMMA FiledKept ==
    ASSUME StoreGrows, NEW s, NEW k \in Filed(s)
    PROVE  k \in Filed(s)' /\ store'[k] = store[k]
  <1>1. k \in DOMAIN store /\ store[k].subject = s
    BY DEF Filed
  <1>2. ASSUME NEW j \in DOMAIN store', store'[j].subject = s, store'[j].id = store'[k].id
        PROVE  k <= j
    <2>1. CASE j \in DOMAIN store
      BY <1>1, <1>2, <2>1 DEF StoreGrows, Filed
    <2>2. CASE j \notin DOMAIN store
      BY <1>1, <2>2 DEF StoreGrows
    <2> QED BY <2>1, <2>2
  <1> QED BY <1>1, <1>2 DEF StoreGrows, Filed

\* A caller whose call does not move keeps its progress.
LEMMA ProgressKept ==
    ASSUME ServiceInv, CountInv, StoreGrows, ObservationsGrow,
           NEW c \in Callers, calls'[c] = calls[c]
    PROVE  ProgressOK(c)'
  <1>1. Contents(store) \subseteq Contents(store)'
    BY DEF StoreGrows, Contents
  <1>2. ProgressOK(c) /\ CallOK(c)
    BY DEF CountInv, ServiceInv
  <1>3. ASSUME calls[c].pc = "ingest"
        PROVE  /\ Recorded(calls[c].obs)'
               /\ \A i \in 1 .. calls[c].next - 1 :
                    Envelope(calls[c].obs, i, CurrentEpoch(calls[c].obs.subject))
                       \in Contents(store)'
    <2>1. calls[c].obs.subject \in Subjects
      BY <1>2, <1>3 DEF CallOK, Idle, Observation
    <2>2. Recorded(calls[c].obs)'
      BY <1>2, <1>3, <2>1 DEF ProgressOK, Recorded, ObservationsGrow
    <2> QED BY <1>1, <1>2, <1>3, <2>2 DEF ProgressOK
  <1>4. ASSUME calls[c].pc = "list", NEW env \in calls[c].owed
        PROVE  \E k \in Filed(calls[c].subject)' : store'[k] = env
    BY <1>2, <1>4, FiledKept DEF ProgressOK
  <1> QED BY <1>2, <1>3, <1>4 DEF ProgressOK, Recorded, Contents, Filed, CurrentEpoch, Envelope

\* The envelopes keep their observations.
LEMMA RecordedKept ==
    ASSUME ServiceInv, CountInv, ObservationsGrow, NEW k \in DOMAIN store
    PROVE  \E j \in DOMAIN observations'[store[k].subject] :
              observations'[store[k].subject][j].id = store[k].id[1]
  BY DEF ServiceInv, EnvelopeOK, CountInv, StoreRecorded, ObservationsGrow

\* Nothing is accepted and nothing owed at first.
LEMMA InitCountInv == Init => CountInv
  <1> SUFFICES ASSUME Init PROVE CountInv
    OBVIOUS
  <1>1. \A c \in Callers : calls[c].pc = "idle"
    BY DEF Init, Idle
  <1>2. DOMAIN store = {} /\ accepted = {}
    BY DEF Init
  <1>3. reply.owed = {} /\ reply.state = "UNKNOWN"
    BY DEF Init, NoReply
  <1>4. now \in 0 .. MaxTime
    BY ServiceAssumption DEF Init
  <1> QED BY <1>1, <1>2, <1>3, <1>4 DEF CountInv, ProgressOK, StoreRecorded,
             FreshEvidenceCounts

\* The answer EvaluateSubject gives on what it listed counts what it owes.
LEMMA AnswerCounts ==
    ASSUME ServiceInv, CountInv, NEW c \in Callers, calls[c].pc = "list",
           NEW envelopes \in ListBySubject(calls[c].subject), Answer(c, envelopes)
    PROVE  FreshEvidenceCounts'
  <1>1. calls[c].subject \in Subjects /\ calls[c].at \in Int
    BY DEF ServiceInv, CallOK, Idle
  <1> SUFFICES ASSUME NEW s \in Subjects, s = calls[c].subject,
                      NEW at \in Int, at = calls[c].at,
                      NEW env \in calls[c].owed,
                      Supports(env, DefaultRequirement, CurrentEpoch(s), at)
               PROVE  SummaryState(Evaluate(DefaultContract, envelopes,
                                            CurrentEpoch(s), at).state) = "ASSURED"
    BY <1>1 DEF Answer, FreshEvidenceCounts
  <1>2. PICK k \in Filed(s) : store[k] = env
    BY DEF CountInv, ProgressOK
  <1>3. env \in Contents(envelopes)
    BY <1>2, FiledIsListed DEF Contents
  <1>4. Supported(DefaultContract, Contents(envelopes), CurrentEpoch(s), at)
    BY <1>3, OneSupports
  <1>5. \A j \in DOMAIN envelopes : envelopes[j].capturedAt \in Int
    BY ListedIsStored DEF ServiceInv, EnvelopeOK
  <1> QED BY <1>4, <1>5, SupportedIsAssured

\* The summary is one of four states.
LEMMA SummaryRange ==
    ASSUME NEW c, NEW envelopes, Answer(c, envelopes)
    PROVE  reply'.state \in {"UNKNOWN", "STALE", "FAILED", "ASSURED"}
  BY DEF Answer, SummaryState

\* What all steps but the answers share: if store and observations grow, the
\* answer stays and every call made progress, the invariant is kept.
LEMMA CountKept ==
    ASSUME ServiceInv, CountInv, StoreGrows, ObservationsGrow, StoreRecorded',
           \A c \in Callers : ProgressOK(c)',
           accepted' \subseteq Contents(store)', reply' = reply, now' \in 0 .. MaxTime
    PROVE  CountInv'
  <1>1. FreshEvidenceCounts'
    BY DEF CountInv, FreshEvidenceCounts
  <1> QED BY <1>1 DEF CountInv

\* A submission is owed to nobody before its evidence is stored.
LEMMA SubmitCounts ==
    ASSUME ServiceInv, CountInv, NEW c \in Callers, NEW s \in Subjects,
           SubmitObservation(c, s)
    PROVE  CountInv'
  <1>1. PICK obs :
          /\ obs \in Observation /\ obs.subject = s
          /\ observations' = [observations EXCEPT ![s] = Append(@, obs)]
          /\ calls' = [calls EXCEPT ![c] = [pc |-> "ingest", obs |-> obs, next |-> 1]]
    <2>1. PICK id \in IDs, type \in Types, n \in EvidenceCounts, skew \in Skews :
            LET obs == [id |-> id, subject |-> s, type |-> type,
                        evidence |-> n, observedAt |-> now + skew]
            IN /\ observations' = [observations EXCEPT ![s] = Append(@, obs)]
               /\ calls' = [calls EXCEPT ![c] =
                              [pc |-> "ingest", obs |-> obs, next |-> 1]]
      BY DEF SubmitObservation
    <2>2. n \in Nat /\ now + skew \in Int
      BY ServiceAssumption DEF ServiceInv
    <2>3. [id |-> id, subject |-> s, type |-> type, evidence |-> n,
           observedAt |-> now + skew] \in Observation
      BY <2>2 DEF Observation
    <2> QED BY <2>1, <2>3
  <1>2. UNCHANGED <<store, reply, accepted, now>>
    BY DEF SubmitObservation
  <1>3. observations[s] \in Seq(Observation)
    BY DEF ServiceInv
  <1>4. /\ DOMAIN observations'[s] = 1 .. Len(observations[s]) + 1
        /\ DOMAIN observations[s] = 1 .. Len(observations[s])
        /\ Len(observations[s]) \in Nat
        /\ observations'[s][Len(observations[s]) + 1] = obs
        /\ \A j \in DOMAIN observations[s] : observations'[s][j] = observations[s][j]
        /\ \A t \in Subjects : t # s => observations'[t] = observations[t]
    BY <1>1, <1>3 DEF ServiceInv
  <1>5. ObservationsGrow
    BY <1>4 DEF ObservationsGrow
  <1>6. StoreGrows
    BY <1>2 DEF StoreGrows
  <1>7. calls'[c] = [pc |-> "ingest", obs |-> obs, next |-> 1]
    BY <1>1 DEF ServiceInv
  <1>8. ProgressOK(c)'
    <2>1. Recorded(obs)'
      BY <1>1, <1>4 DEF Recorded
    <2>2. 1 .. calls'[c].next - 1 = {}
      BY <1>7
    <2> QED BY <1>7, <2>1, <2>2 DEF ProgressOK, Recorded
  <1>9. ASSUME NEW d \in Callers, d # c PROVE ProgressOK(d)'
    <2>1. calls'[d] = calls[d]
      BY <1>1, <1>9 DEF ServiceInv
    <2> QED BY <1>5, <1>6, <2>1, ProgressKept
  <1>10. StoreRecorded'
    BY <1>2, <1>5, RecordedKept DEF StoreRecorded
  <1>11. accepted' \subseteq Contents(store)' /\ now' \in 0 .. MaxTime
    BY <1>2 DEF CountInv, Contents
  <1> QED BY <1>2, <1>5, <1>6, <1>8, <1>9, <1>10, <1>11, CountKept

\* What is put under an ID of its own is found by every later evaluation.
LEMMA PutCounts ==
    ASSUME ServiceInv, CountInv, NEW c \in Callers, PutEvidence(c)
    PROVE  CountInv'
  <1> DEFINE obs == calls[c].obs
             n == calls[c].next
             env == Envelope(obs, n, CurrentEpoch(obs.subject))
  <1>1. calls[c] \in [pc : {"ingest"}, obs : Observation, next : Nat]
    BY DEF PutEvidence, ServiceInv, CallOK, Idle
  <1>2. /\ store' = Append(store, env)
        /\ calls' = [calls EXCEPT ![c].next = @ + 1]
        /\ UNCHANGED <<observations, reply, accepted, now>>
    BY DEF PutEvidence
  <1>3. env.subject = obs.subject /\ env.id = <<obs.id, n>>
    BY DEF Envelope
  <1>4. obs.subject \in Subjects /\ n \in Nat
    BY <1>1 DEF Observation
  <1>5. /\ DOMAIN calls' = Callers
        /\ calls'[c] = [pc |-> "ingest", obs |-> obs, next |-> n + 1]
        /\ \A d \in Callers : d # c => calls'[d] = calls[d]
    BY <1>1, <1>2 DEF ServiceInv
  <1> HIDE DEF env
  <1>6. /\ DOMAIN store' = 1 .. Len(store) + 1
        /\ DOMAIN store = 1 .. Len(store)
        /\ Len(store) \in Nat
        /\ \A k \in DOMAIN store : store'[k] = store[k]
        /\ store'[Len(store) + 1] = env
    BY <1>2 DEF ServiceInv
  <1>7. StoreGrows
    BY <1>6 DEF StoreGrows
  <1>8. ObservationsGrow
    BY <1>2 DEF ObservationsGrow
  <1>9. Contents(store) \subseteq Contents(store)' /\ env \in Contents(store)'
    BY <1>6 DEF Contents
  <1>10. ProgressOK(c) /\ calls[c].pc = "ingest"
    BY <1>1 DEF CountInv
  <1>11. ProgressOK(c)'
    <2>1. ASSUME NEW i \in 1 .. n
          PROVE  Envelope(obs, i, CurrentEpoch(obs.subject)) \in Contents(store)'
      <3>1. CASE i = n
        BY <1>9, <3>1 DEF env
      <3>2. CASE i # n
        <4>1. i \in 1 .. n - 1
          BY <1>4, <3>2
        <4> QED BY <1>9, <1>10, <4>1 DEF ProgressOK
      <3> QED BY <3>1, <3>2
    <2>2. (n + 1) - 1 = n
      BY <1>4
    <2>3. Recorded(obs)'
      BY <1>2, <1>10 DEF ProgressOK, Recorded
    <2> QED BY <1>5, <2>1, <2>2, <2>3 DEF ProgressOK, Recorded, Envelope, CurrentEpoch
  <1>12. ASSUME NEW d \in Callers, d # c PROVE ProgressOK(d)'
    BY <1>5, <1>7, <1>8, <1>12, ProgressKept
  <1>13. StoreRecorded'
    <2> SUFFICES ASSUME NEW k \in DOMAIN store'
                 PROVE  \E j \in DOMAIN observations[store'[k].subject] :
                           observations[store'[k].subject][j].id = store'[k].id[1]
      BY <1>2 DEF StoreRecorded
    <2>1. CASE k \in DOMAIN store
      BY <1>6, <2>1 DEF CountInv, StoreRecorded
    <2>2. CASE k \notin DOMAIN store
      <3>1. store'[k] = env
        BY <1>6, <2>2
      <3>2. PICK j \in DOMAIN observations[obs.subject] : observations[obs.subject][j] = obs
        BY <1>10 DEF ProgressOK, Recorded
      <3>3. env.id[1] = obs.id
        BY <1>3
      <3> QED BY <1>3, <3>1, <3>2, <3>3
    <2> QED BY <2>1, <2>2
  <1>14. accepted' \subseteq Contents(store)' /\ now' \in 0 .. MaxTime
    BY <1>2, <1>9 DEF CountInv
  <1> QED BY <1>2, <1>7, <1>8, <1>11, <1>12, <1>13, <1>14, CountKept

\* Accepting an observation adds to the accepted envelopes what the loop has put,
\* and the start of an evaluation notes what it owes.
LEMMA CallCounts ==
    ASSUME ServiceInv, CountInv, NEW c \in Callers,
           AcceptObservation(c) \/ \E s \in Subjects : EvaluateSubject(c, s)
    PROVE  CountInv'
  <1>1. UNCHANGED <<observations, store, reply, now>>
    BY DEF AcceptObservation, EvaluateSubject
  <1>2. StoreGrows /\ ObservationsGrow /\ now' \in 0 .. MaxTime
    BY <1>1 DEF StoreGrows, ObservationsGrow, CountInv
  <1>3. StoreRecorded'
    BY <1>1 DEF CountInv, StoreRecorded
  <1>4. ASSUME NEW d \in Callers, d # c PROVE ProgressOK(d)'
    <2>1. calls'[d] = calls[d]
      BY <1>4 DEF AcceptObservation, EvaluateSubject, ServiceInv
    <2> QED BY <1>2, <2>1, ProgressKept
  <1>5. CASE AcceptObservation(c)
    <2>1. calls'[c].pc = "idle"
      BY <1>5 DEF AcceptObservation, ServiceInv, Idle
    <2>2. ProgressOK(c)'
      BY <2>1 DEF ProgressOK
    <2>3. calls[c] \in [pc : {"ingest"}, obs : Observation, next : Nat]
      BY <1>5 DEF AcceptObservation, ServiceInv, CallOK, Idle
    <2>4. \A i \in 1 .. calls[c].obs.evidence : i \in 1 .. calls[c].next - 1
      BY <1>5, <2>3 DEF AcceptObservation, Observation
    <2>5. accepted' \subseteq Contents(store)
      BY <1>5, <2>3, <2>4 DEF AcceptObservation, CountInv, ProgressOK
    <2>6. accepted' \subseteq Contents(store)'
      BY <1>1, <2>5 DEF Contents
    <2> QED BY <1>1, <1>2, <1>3, <1>4, <2>2, <2>6, CountKept
  <1>6. ASSUME NEW s \in Subjects, EvaluateSubject(c, s) PROVE CountInv'
    <2>1. /\ calls'[c] = [pc |-> "list", subject |-> s, at |-> now, owed |-> Owed(s)]
          /\ accepted' = accepted
      BY <1>6 DEF EvaluateSubject, ServiceInv
    <2>2. \A env \in Owed(s) : \E k \in Filed(s) : store[k] = env
      BY OwedIsFiled
    <2>3. Filed(s)' = Filed(s)
      BY <1>1 DEF Filed
    <2>4. ProgressOK(c)'
      BY <1>1, <2>1, <2>2, <2>3 DEF ProgressOK, Filed
    <2>5. accepted' \subseteq Contents(store)'
      BY <1>1, <2>1 DEF CountInv, Contents
    <2> QED BY <1>1, <1>2, <1>3, <1>4, <2>4, <2>5, CountKept
  <1> QED BY <1>5, <1>6

\* The answers: on what was listed, or on the fallback, which owes nothing.
LEMMA AnswersCount ==
    ASSUME ServiceInv, CountInv, NEW c \in Callers, ListEnvelopes(c) \/ EvaluateFallback(c)
    PROVE  CountInv'
  <1>1. UNCHANGED <<observations, store, accepted, now>>
    BY DEF ListEnvelopes, EvaluateFallback
  <1>2. StoreGrows /\ ObservationsGrow /\ now' \in 0 .. MaxTime
    BY <1>1 DEF StoreGrows, ObservationsGrow, CountInv
  <1>3. StoreRecorded' /\ accepted' \subseteq Contents(store)'
    BY <1>1 DEF CountInv, StoreRecorded, Contents
  <1>4. ASSUME NEW d \in Callers, d # c PROVE ProgressOK(d)'
    <2>1. calls'[d] = calls[d]
      BY <1>4 DEF ListEnvelopes, EvaluateFallback, Answer, ServiceInv
    <2> QED BY <1>2, <2>1, ProgressKept
  <1>5. ASSUME NEW envelopes, Answer(c, envelopes), FreshEvidenceCounts'
        PROVE  CountInv'
    <2>1. calls'[c].pc = "idle"
      BY <1>5 DEF Answer, ServiceInv, Idle
    <2>2. ProgressOK(c)'
      BY <2>1 DEF ProgressOK
    <2>3. reply'.state \in {"UNKNOWN", "STALE", "FAILED", "ASSURED"}
      BY <1>5, SummaryRange
    <2> QED BY <1>2, <1>3, <1>4, <1>5, <2>2, <2>3 DEF CountInv
  <1>6. CASE ListEnvelopes(c)
    <2>1. calls[c].pc = "list"
      BY <1>6 DEF ListEnvelopes
    <2>2. PICK envelopes \in ListBySubject(calls[c].subject) :
            IF DOMAIN envelopes # {}
            THEN Answer(c, envelopes)
            ELSE /\ calls' = [calls EXCEPT ![c].pc = "fallback"]
                 /\ UNCHANGED reply
      BY <1>6 DEF ListEnvelopes
    <2>3. CASE DOMAIN envelopes # {}
      BY <1>5, <2>1, <2>2, <2>3, AnswerCounts
    <2>4. CASE DOMAIN envelopes = {}
      <3>1. Filed(calls[c].subject) = {}
        BY <2>4, FiledIsListed
      <3>2. calls[c].owed = {}
        BY <2>1, <3>1 DEF CountInv, ProgressOK
      <3>3. DOMAIN calls[c] = {"pc", "subject", "at", "owed"}
        BY <2>1 DEF ServiceInv, CallOK, Idle
      <3>4. calls'[c].pc = "fallback" /\ calls'[c].owed = {}
        BY <2>2, <2>4, <3>2, <3>3 DEF ServiceInv
      <3>5. ProgressOK(c)'
        BY <3>4 DEF ProgressOK
      <3> QED BY <1>1, <1>2, <1>3, <1>4, <2>2, <2>4, <3>5, CountKept
    <2> QED BY <2>3, <2>4
  <1>7. CASE EvaluateFallback(c)
    <2>1. calls[c].owed = {} /\ Answer(c, Fallback(calls[c].subject))
      BY <1>7 DEF EvaluateFallback, CountInv, ProgressOK
    <2>2. FreshEvidenceCounts'
      BY <2>1 DEF Answer, FreshEvidenceCounts
    <2> QED BY <1>5, <2>1, <2>2
  <1> QED BY <1>6, <1>7

\* Every step keeps what an answer must have counted.
LEMMA StepCountInv == ServiceInv /\ CountInv /\ [Next]_vars => CountInv'
  <1> SUFFICES ASSUME ServiceInv, CountInv, [Next]_vars PROVE CountInv'
    OBVIOUS
  <1>1. ASSUME NEW c \in Callers, NEW s \in Subjects, SubmitObservation(c, s)
        PROVE  CountInv'
    BY <1>1, SubmitCounts
  <1>2. ASSUME NEW c \in Callers, PutEvidence(c) PROVE CountInv'
    BY <1>2, PutCounts
  <1>3. ASSUME NEW c \in Callers,
               AcceptObservation(c) \/ \E s \in Subjects : EvaluateSubject(c, s)
        PROVE  CountInv'
    BY <1>3, CallCounts
  <1>4. ASSUME NEW c \in Callers, ListEnvelopes(c) \/ EvaluateFallback(c) PROVE CountInv'
    BY <1>4, AnswersCount
  <1>5. ASSUME UNCHANGED <<observations, store, calls, accepted>>, now' \in 0 .. MaxTime,
               FreshEvidenceCounts',
               reply'.state \in {"UNKNOWN", "STALE", "FAILED", "ASSURED"}
        PROVE  CountInv'
    <2>1. StoreGrows /\ ObservationsGrow
      BY <1>5 DEF StoreGrows, ObservationsGrow
    <2>2. \A c \in Callers : ProgressOK(c)'
      BY <1>5, <2>1, ProgressKept
    <2>3. StoreRecorded' /\ accepted' \subseteq Contents(store)'
      BY <1>5 DEF CountInv, StoreRecorded, Contents
    <2> QED BY <1>5, <2>2, <2>3 DEF CountInv
  <1>6. ASSUME NEW s \in Subjects, GetAssuranceState(s) \/ ExplainClaim(s)
        PROVE  CountInv'
    <2>1. /\ UNCHANGED <<observations, store, calls, accepted, now>>
          /\ reply'.owed = {}
          /\ reply'.state \in {"UNKNOWN", "STALE", "FAILED", "ASSURED"}
      BY <1>6 DEF GetAssuranceState, ExplainClaim, AnswerFromObservations, ObservedState
    <2>2. FreshEvidenceCounts' /\ now' \in 0 .. MaxTime
      BY <2>1 DEF FreshEvidenceCounts, CountInv
    <2> QED BY <1>5, <2>1, <2>2
  <1>7. CASE Tick \/ UNCHANGED vars
    <2>1. UNCHANGED <<observations, store, calls, accepted, reply>>
      BY <1>7 DEF Tick, vars
    <2>2. now' \in 0 .. MaxTime
      BY <1>7, ServiceAssumption DEF Tick, vars, CountInv
    <2>3. /\ FreshEvidenceCounts'
          /\ reply'.state \in {"UNKNOWN", "STALE", "FAILED", "ASSURED"}
      BY <2>1 DEF FreshEvidenceCounts, CountInv
    <2> QED BY <1>5, <2>1, <2>2, <2>3
  <1> QED BY <1>1, <1>2, <1>3, <1>4, <1>6, <1>7 DEF Next

\* Both invariants hold in every state of the service.
LEMMA ServiceInvariants == Spec => [](ServiceInv /\ CountInv)
  BY InitServiceInv, StepServiceInv, InitCountInv, StepCountInv, PTL DEF Spec

\* The store's envelopes are well formed and come from observations the server
\* has, and the answers and the clock keep their ranges.
THEOREM ServiceTypeOK == Spec => []TypeOK
  <1>1. ServiceInv /\ CountInv => TypeOK
    <2> SUFFICES ASSUME ServiceInv, CountInv PROVE TypeOK
      OBVIOUS
    <2>1. \A c \in Callers : calls[c].pc \in {"idle", "ingest", "list", "fallback"}
      BY DEF ServiceInv, CallOK, Idle
    <2> QED BY <2>1 DEF ServiceInv, EnvelopeOK, CountInv, StoreRecorded, TypeOK
  <1> QED BY <1>1, ServiceInvariants, PTL

\* No false alarm, for any number of concurrent submissions and evaluations:
\* evidence accepted before the call under an ID of its own is counted if it is
\* fresh (server.go 139-204, cas.go 235-258).
THEOREM ServiceCountsFreshEvidence == Spec => []FreshEvidenceCounts
  <1>1. CountInv => FreshEvidenceCounts
    BY DEF CountInv
  <1> QED BY <1>1, ServiceInvariants, PTL
=============================================================================
