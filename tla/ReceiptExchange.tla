---------------------------- MODULE ReceiptExchange ----------------------------
(***************************************************************************)
(* The Go SDK (pkg/oskal) and the receipts that cross process borders: a   *)
(* program with a ReceiptManager and an InProcessClient, and an            *)
(* AssuranceService server that the program calls through the gRPC client, *)
(* whose calls end at a deadline while the request may still be handled.   *)
(*                                                                         *)
(* The server is either built with the program's manager and lives in its  *)
(* process (NewServer(mgr)), or is a daemon with a key pair of its own     *)
(* (NewServer(nil), as in `oskal serve').  Keys and maps live in memory.   *)
(***************************************************************************)
EXTENDS Receipts, SequencesExt

CONSTANTS
    Subjects,    \* URIs of subjects
    Controls,    \* [namespace, id, version]
    Evidence,    \* digests of evidence
    Outcomes,    \* states that receipts are issued for, as wire numbers
    Altered,     \* wire states that may replace the one that was issued
    Queries,     \* the queries that are called
    MaxIssued,   \* bound: receipts issued
    MaxCalls,    \* bound: remote calls
    MaxKeys,     \* bound: key pairs generated, hence starts of a process
    MaxObserved  \* bound: observations kept in process, per subject

\* Receipts are issued for states that have a name.
ASSUME ExchangeAssumption ==
    /\ Outcomes \subseteq 1 .. 6
    /\ Altered \subseteq Nat
    /\ \A c \in Controls :
         c \in [namespace : {c.namespace}, id : {c.id}, version : {c.version}]

VARIABLES
    embedded,       \* the server shares the program's manager and process
    managerKey,     \* key pair of the program's ReceiptManager
    serverKey,      \* key pair of the server's ReceiptManager
    nextKey,        \* the next key pair GenerateKey returns
    issued,         \* history: receipts issued
    clientReceipts, \* InProcessClient.receipts: digest -> receipt
    serverReceipts, \* Server.receipts: digest -> receipt
    observations,   \* InProcessClient.observations: subject -> sequence
    calls           \* the remote calls made so far

keys == <<embedded, managerKey, serverKey, nextKey>>
receipts == <<clientReceipts, serverReceipts>>
exchangeVars == <<keys, issued, receipts, observations, calls>>

Manager == [key |-> managerKey, evaluator |-> "evaluator"]

\* States on the wire; 7 stands for numbers this version does not know.
WireStates == 0 .. 7

\* Sets d to r in a map of receipts.
Store(m, d, r) == [x \in DOMAIN m \cup {d} |-> IF x = d THEN r ELSE m[x]]

-----------------------------------------------------------------------------

(***************************************************************************)
(* From the wire.  The server casts the number of a state, the SDK maps it *)
(* and has UNSPECIFIED for numbers it does not know.  Neither copies the   *)
(* version of the control.                                                 *)
(***************************************************************************)

\* Faulty variant of mapProtoState: one state has no case.
mapProtoStateNoFailed(n) ==
    AssuranceState(IF n \in DOMAIN StateName \ {6} THEN n ELSE 0)

mapProtoState(n) == AssuranceState(IF n \in DOMAIN StateName THEN n ELSE 0)

ServerReceipt(r) ==
    [r EXCEPT !.control.version = Empty, !.state = AssuranceState(@)]

ClientReceipt(r) ==
    [r EXCEPT !.control.version = Empty, !.state = mapProtoState(@)]

\* A receipt as the program puts it on the wire: with its state's number.
WireState(state) == CHOOSE n \in WireStates : AssuranceState(n) = state

OnWire(r) == [r EXCEPT !.state = WireState(@)]

\* What may be presented: a receipt that was issued, or one in which a field
\* changed on the way.
Presented ==
    UNION {{r, [r EXCEPT !.signature = NotHex]}
             \cup {[r EXCEPT !.state = n] : n \in Altered}
             \cup {[r EXCEPT !.control = c] : c \in Controls}
             \cup {[r EXCEPT !.evidenceRoot = NoRoot(Evidence)]}
           : r \in {OnWire(i) : i \in issued}}

-----------------------------------------------------------------------------

\* NewReceiptManager, NewServer and NewInProcessClient.
ExchangeInit ==
    /\ embedded \in BOOLEAN
    /\ managerKey = 1
    /\ serverKey = IF embedded THEN 1 ELSE 2
    /\ nextKey = 3
    /\ issued = {}
    /\ clientReceipts = <<>> /\ serverReceipts = <<>>
    /\ observations = [s \in Subjects |-> <<>>]
    /\ calls = <<>>

\* The program issues a receipt on the evidence refs (IssueReceipt).
Issue(s, c, n, refs) ==
    /\ Cardinality(issued) < MaxIssued
    /\ issued' = issued \cup
         {IssueReceipt(Manager, s, c, AssuranceState(n), "epoch",
                       ComputeEvidenceRoot(refs, Evidence), 1)}
    /\ UNCHANGED <<keys, receipts, observations, calls>>

\* It has one signed that names neither evaluator nor time (SignReceipt).
HaveSigned(s, c, n) ==
    LET blank == [subject |-> s, control |-> c, state |-> AssuranceState(n),
                  epoch |-> "epoch", evidenceRoot |-> ComputeEvidenceRoot(<<>>, Evidence),
                  evaluator |-> Empty, evaluatedAt |-> 0, signature |-> Unsigned]
    IN /\ Cardinality(issued) < MaxIssued
       /\ issued' = issued \cup {SignReceipt(Manager, blank, 1)}
       /\ UNCHANGED <<keys, receipts, observations, calls>>

\* InProcessClient.SubmitReceipt.
SubmitLocally(r) ==
    LET core == ClientReceipt(r)
        verified == VerifyIndependentReceipt(core, managerKey) = "valid"
    IN /\ clientReceipts' = IF verified
                            THEN Store(clientReceipts, ReceiptDigest(core), r)
                            ELSE clientReceipts
       /\ UNCHANGED <<keys, issued, serverReceipts, observations, calls>>

(***************************************************************************)
(* Remote calls.  requested: the request has not been handled yet; answer: *)
(* what the handler returned; client: what the caller has got.             *)
(***************************************************************************)
Waiting == <<"waiting">>
Error == <<"error">>

Call(kind, arguments) ==
    /\ Len(calls) < MaxCalls
    /\ calls' = Append(calls, [kind |-> kind, receipts |-> arguments,
                               requested |-> TRUE, answer |-> <<>>,
                               key |-> serverKey, client |-> Waiting])
    /\ UNCHANGED <<keys, issued, receipts, observations>>

\* grpcClient.SubmitReceipt, and the three queries of grpcClient.
CallSubmitReceipt(r) == Call("receipt", {r})
CallQuery(kind) == Call(kind, {})

\* Faulty variant of Kept: the receipt is stored whatever was found.
KeptAlways(verified, core, r) ==
    Store(serverReceipts, ReceiptDigest(core), r)

\* Faulty variant of Kept: the receipt is verified and not stored.
KeptNever(verified, core, r) == serverReceipts

\* The map after a receipt was verified.
Kept(verified, core, r) ==
    IF verified THEN Store(serverReceipts, ReceiptDigest(core), r)
    ELSE serverReceipts

\* Server.SubmitReceipt; it does not look at the caller's deadline.
HandleSubmitReceipt(i) ==
    /\ calls[i].requested
    /\ \E r \in calls[i].receipts :
         LET core == ServerReceipt(r)
             verified == VerifyIndependentReceipt(core, serverKey) = "valid"
         IN /\ calls' = [calls EXCEPT
                  ![i].requested = FALSE,
                  ![i].answer = IF verified THEN <<"verified">> ELSE <<"refused">>]
            /\ serverReceipts' = Kept(verified, core, r)
    /\ UNCHANGED <<keys, issued, clientReceipts, observations>>

\* The server answers a query with some state.
HandleQuery(i, n) ==
    /\ calls[i].requested
    /\ calls[i].kind # "receipt"
    /\ calls' = [calls EXCEPT ![i].requested = FALSE, ![i].answer = <<n>>]
    /\ UNCHANGED <<keys, issued, receipts, observations>>

\* What grpcClient makes of the state n that a query was answered with.
Freshness(state) ==
    CASE state = <<"UNKNOWN">> -> "unknown"
      [] state = <<"STALE">> -> "stale"
      [] OTHER -> "current"

View(kind, n) ==
    IF kind = "state" THEN mapProtoState(n) \o <<Freshness(mapProtoState(n))>>
    ELSE mapProtoState(n)

\* The answer arrives in time.
Receive(i) ==
    LET call == calls[i] IN
    /\ call.client = Waiting
    /\ call.answer # <<>>
    /\ calls' = [calls EXCEPT ![i].client =
                   IF call.kind = "receipt" THEN call.answer
                   ELSE View(call.kind, call.answer[1])]
    /\ UNCHANGED <<keys, issued, receipts, observations>>

\* The deadline of withTimeout passes first, and the caller gets an error.
Expire(i) ==
    /\ calls[i].client = Waiting
    /\ calls' = [calls EXCEPT ![i].client = Error]
    /\ UNCHANGED <<keys, issued, receipts, observations>>

\* The calls of a server that stops: nobody handles or answers them.
BrokenCall(call) ==
    [call EXCEPT !.requested = FALSE, !.client = IF @ = Waiting THEN Error ELSE @]

Broken == [i \in DOMAIN calls |-> BrokenCall(calls[i])]

\* The program stops and starts again, with a new key pair and empty maps.
RestartProgram ==
    /\ nextKey <= MaxKeys
    /\ managerKey' = nextKey
    /\ nextKey' = nextKey + 1
    /\ clientReceipts' = <<>>
    /\ observations' = [s \in Subjects |-> <<>>]
    /\ IF embedded
       THEN serverKey' = nextKey /\ serverReceipts' = <<>> /\ calls' = Broken
       ELSE UNCHANGED <<serverKey, serverReceipts, calls>>
    /\ UNCHANGED <<embedded, issued>>

\* So does the daemon.
RestartServer ==
    /\ ~embedded
    /\ nextKey <= MaxKeys
    /\ serverKey' = nextKey
    /\ nextKey' = nextKey + 1
    /\ serverReceipts' = <<>>
    /\ calls' = Broken
    /\ UNCHANGED <<embedded, managerKey, issued, clientReceipts, observations>>

-----------------------------------------------------------------------------

\* An observation that ObservationBuilder.Build lets through (it has an ID
\* and a subject) is appended; refs are the digests of its evidence.
SubmitObservation(s, refs) ==
    /\ Len(observations[s]) < MaxObserved
    /\ observations' = [observations EXCEPT ![s] = Append(@, refs)]
    /\ UNCHANGED <<keys, issued, receipts, calls>>

(***************************************************************************)
(* The three queries of InProcessClient.                                   *)
(***************************************************************************)
EvidenceRefs(s) == FlattenSeq(observations[s])

PolicyDigest(s, root) == <<s, root>>

LocalState(s) ==
    IF observations[s] = <<>>
    THEN [state |-> "UNKNOWN", root |-> NoRoot(Evidence), freshness |-> "unknown"]
    ELSE [state |-> "ASSURED", root |-> ComputeEvidenceRoot(EvidenceRefs(s), Evidence),
          freshness |-> "current"]

\* Faulty variant of LocalEvaluation: it asks for evidence, not observations.
LocalEvaluationOfEvidence(s, controls) ==
    LET has == EvidenceRefs(s) # <<>>
        root == IF has THEN ComputeEvidenceRoot(EvidenceRefs(s), Evidence)
                ELSE NoRoot(Evidence)
        state == IF has THEN "ASSURED" ELSE "UNKNOWN"
    IN [summary |-> state,
        evaluations |-> [c \in controls |-> [state |-> state, root |-> root,
                                             policy |-> PolicyDigest(s, root)]],
        required |-> Cardinality(controls),
        missing |-> IF has THEN 0 ELSE Cardinality(controls)]

LocalEvaluation(s, controls) ==
    LET has == observations[s] # <<>>
        root == IF has THEN ComputeEvidenceRoot(EvidenceRefs(s), Evidence)
                ELSE NoRoot(Evidence)
        state == IF has THEN "ASSURED" ELSE "UNKNOWN"
    IN [summary |-> state,
        evaluations |-> [c \in controls |-> [state |-> state, root |-> root,
                                             policy |-> PolicyDigest(s, root)]],
        required |-> Cardinality(controls),
        missing |-> IF has THEN 0 ELSE Cardinality(controls)]

\* Explainer.BuildExplainGraph: six atoms and six pieces of evidence that
\* are all there or all missing.
Atoms == {"non-root execution", "capability restriction", "bounded ServiceAccount",
          "network isolation", "workload identity", "approved artifact"}

BuildExplainGraph(control, state, root) ==
    LET shown == state \in {"ASSURED", "STALE"} IN
    [control |-> IF control.namespace = "ckodex" THEN Canonical(control)
                 ELSE <<"ckodex", "least-privilege">>,
     satisfied |-> IF shown THEN Atoms ELSE {},
     verified |-> IF shown THEN 6 ELSE 0,
     missing |-> IF shown THEN 0 ELSE 6,
     freshness |-> CASE state = "STALE" -> "stale"
                     [] state = "ASSURED" -> "current"
                     [] OTHER -> "unknown",
     authority |-> CASE state = "STALE" -> "expired"
                     [] state = "ASSURED" -> "verified"
                     [] OTHER -> "unverified",
     state |-> state,
     root |-> root]

LocalExplanation(s, control) ==
    IF observations[s] = <<>>
    THEN BuildExplainGraph(control, "UNKNOWN", NoRoot(Evidence))
    ELSE BuildExplainGraph(control, "ASSURED",
                           ComputeEvidenceRoot(EvidenceRefs(s), Evidence))

-----------------------------------------------------------------------------

ReceiptsNext ==
    \/ \E s \in Subjects, c \in Controls, n \in Outcomes :
         \/ \E d \in Evidence : Issue(s, c, n, <<d>>)
         \/ HaveSigned(s, c, n)
    \/ \E r \in Presented : SubmitLocally(r) \/ CallSubmitReceipt(r)
    \/ \E kind \in Queries : CallQuery(kind)
    \/ \E i \in DOMAIN calls :
         \/ HandleSubmitReceipt(i)
         \/ \E n \in DOMAIN StateName : HandleQuery(i, n)
         \/ Receive(i)
         \/ Expire(i)
    \/ RestartProgram
    \/ RestartServer

ObserveNext ==
    \E s \in Subjects : \/ SubmitObservation(s, <<>>)
                        \/ \E d \in Evidence : SubmitObservation(s, <<d>>)

ExchangeNext == ReceiptsNext \/ ObserveNext

ExchangeSpec == ExchangeInit /\ [][ExchangeNext]_exchangeVars

(***************************************************************************)
(* Properties.                                                             *)
(***************************************************************************)

\* What a map of receipts holds was issued with the key of the process that
\* accepted it, in its present life, and reads as it was issued except for
\* the version of the control, which SubmitReceipt drops before it verifies.
HoldsIssued(m, key) ==
    \A d \in DOMAIN m : \E r \in issued :
        /\ r.signature.key = key
        /\ ReceiptDigest(r) = d
        /\ [OnWire(r) EXCEPT !.control.version = Empty]
             = [m[d] EXCEPT !.control.version = Empty]

\* Neither the server nor the in-process client ever keeps a receipt that
\* changed on the way or that another key signed, whatever is submitted, in
\* whatever order, before and after restarts.
AcceptedWasIssued ==
    /\ HoldsIssued(clientReceipts, managerKey)
    /\ HoldsIssued(serverReceipts, serverKey)

\* A receipt for a control without a version that is submitted as issued to
\* a process that holds the key is verified: the conversions to and from
\* the wire lose nothing the signature covers.
IssuedIsAccepted ==
    \A r \in {OnWire(i) : i \in issued} : r.control.version = Empty =>
        /\ r.signature.key = managerKey =>
             VerifyIndependentReceipt(ClientReceipt(r), managerKey) = "valid"
        /\ \A i \in DOMAIN calls :
             (r \in calls[i].receipts /\ r.signature.key = calls[i].key)
             => calls[i].answer \in {<<>>, <<"verified">>}

\* A caller that was told "verified" can rely on the server's map for as long
\* as the server lives, also when other calls timed out or were repeated.
VerifiedIsHeld ==
    \A i \in DOMAIN calls :
        (calls[i].client = <<"verified">> /\ calls[i].key = serverKey)
        => \A r \in calls[i].receipts :
             ReceiptDigest(ServerReceipt(r)) \in DOMAIN serverReceipts

\* The three queries of the in-process client, each of which derives state
\* and root anew, tell the same story about a subject.
ReadsAgree ==
    \A s \in Subjects, c \in Controls :
        LET st == LocalState(s)
            ev == LocalEvaluation(s, {c})
            ex == LocalExplanation(s, c)
        IN /\ st.state = ev.summary /\ st.state = ex.state
           /\ st.root = ev.evaluations[c].root /\ st.root = ex.root
           /\ st.freshness = ex.freshness
           /\ ev.missing = 0 <=> ex.missing = 0
=============================================================================
