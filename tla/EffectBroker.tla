----------------------------- MODULE EffectBroker -----------------------------
(***************************************************************************)
(* The workcell effect broker (internal/adapters/workcell/broker.go) and   *)
(* the capability leases it gates (core/assurance/lease.go).               *)
(*                                                                         *)
(* Every broker method runs under EffectBroker.mu, so each is one action.  *)
(* Requests come from any number of agents, which may hold any hash they   *)
(* were ever given, may retry, and may send hashes nobody issued.  The     *)
(* broker reads the wall clock (time.Now().UTC() drops Go's monotonic      *)
(* reading), so the clock may also be set back.                            *)
(***************************************************************************)
EXTENDS Naturals, Sequences, FiniteSets

CONSTANTS
    LeaseIDs,          \* lease identifiers
    Capabilities,      \* capabilities an agent may ask for
    Payloads,          \* payloads, told apart by their SHA-256
    Grants,            \* sets of capabilities a lease may be created with
    TurnLimits,        \* values of MaxTurns, 0 meaning unlimited
    TTLs,              \* lease lifetimes
    MaxTime,           \* bound: the clock runs from 0 to MaxTime
    MaxTurn,           \* bound: admitted turns per lease object
    MaxRegistrations   \* bound: calls of RegisterLease

\* The entry of AllowedCapabilities that admits every capability.
Wildcard == "*"

ASSUME BrokerAssumption ==
    /\ TurnLimits \subseteq Nat
    /\ TTLs \subseteq Nat
    /\ MaxTime \in Nat
    /\ MaxTurn \in Nat
    /\ MaxRegistrations \in Nat
    /\ Grants \subseteq SUBSET (Capabilities \cup {Wildcard})

VARIABLES
    leases,         \* leases[id]: the lease object the broker's map points to
    now,            \* the wall clock
    reply,          \* disposition and reason the last RequestExecution returned
    chain,          \* history: receipts admitted by the lease object leases[id]
    seen,           \* history: hashes of every receipt that was ever admitted
    registrations   \* number of RegisterLease calls so far

vars == <<leases, now, reply, chain, seen, registrations>>

NoLease == [registered |-> FALSE, allowed |-> {}, maxTurns |-> 0,
            currentTurn |-> 0, expiresAt |-> 0, revoked |-> FALSE,
            lastReceiptHash |-> <<>>]

\* LastReceiptHash of a new lease, 64 zeros: the hash of no receipt.
GenesisHash == <<>>

\* Stands for every value that is not the hash of an admitted receipt: what an
\* agent makes up, and the hashes of denied receipts, whose Disposition field
\* keeps them apart from those of admitted ones.
ForgedHash == <<"forged">>

\* No call of RequestExecution has returned a receipt yet.
NoReply == [disposition |-> "NONE", reason |-> "none"]

\* What the model keeps of the receipt and error a call returned.
ReplyOf(r) == [disposition |-> r.disposition, reason |-> r.reason]

(***************************************************************************)
(* CheckReceipt.ComputeHash.  SHA-256 is taken to be injective, so a hash  *)
(* is the tuple of the fields it covers.  ReceiptID is a function of the   *)
(* lease and the turn; Reason is not covered.                              *)
(***************************************************************************)
ComputeHash(r) == <<r.lease, r.turn, r.capability, r.disposition, r.payload,
                    r.prev, r.timestamp>>

\* Faulty variant of NewCapabilityLease: the lifetime is subtracted.
NewCapabilityLeaseInThePast(allowed, maxTurns, ttl) ==
    [registered |-> TRUE, allowed |-> allowed, maxTurns |-> maxTurns,
     currentTurn |-> 0, expiresAt |-> now - ttl, revoked |-> FALSE,
     lastReceiptHash |-> GenesisHash]

NewCapabilityLease(allowed, maxTurns, ttl) ==
    [registered |-> TRUE, allowed |-> allowed, maxTurns |-> maxTurns,
     currentTurn |-> 0, expiresAt |-> now + ttl, revoked |-> FALSE,
     lastReceiptHash |-> GenesisHash]

\* Faulty variants of Phase: an off-by-one in the turn budget, no budget at all,
\* and a revocation flag that is not looked at.
PhaseOffByOne(l, t) ==
    IF l.revoked THEN "REVOKED"
    ELSE IF t > l.expiresAt THEN "EXPIRED"
    ELSE IF l.maxTurns > 0 /\ l.currentTurn > l.maxTurns THEN "EXHAUSTED"
    ELSE "ACTIVE"

PhaseNoBudget(l, t) ==
    IF l.revoked THEN "REVOKED"
    ELSE IF t > l.expiresAt THEN "EXPIRED"
    ELSE "ACTIVE"

PhaseIgnoresRevoked(l, t) ==
    IF t > l.expiresAt THEN "EXPIRED"
    ELSE IF l.maxTurns > 0 /\ l.currentTurn >= l.maxTurns THEN "EXHAUSTED"
    ELSE "ACTIVE"

Phase(l, t) ==
    IF l.revoked THEN "REVOKED"
    ELSE IF t > l.expiresAt THEN "EXPIRED"
    ELSE IF l.maxTurns > 0 /\ l.currentTurn >= l.maxTurns THEN "EXHAUSTED"
    ELSE "ACTIVE"

Allows(l, capability) == capability \in l.allowed \/ Wildcard \in l.allowed

\* Faulty variant of Reason: the previous receipt hash is not compared.
ReasonUnchained(l, capability, prevHash, t) ==
    IF Phase(l, t) # "ACTIVE" THEN "lease not active"
    ELSE IF ~Allows(l, capability) THEN "capability exceeds lease"
    ELSE "admitted"

\* The first check of EvaluateTurn that fails decides the reason.
Reason(l, capability, prevHash, t) ==
    IF prevHash # l.lastReceiptHash THEN "chain violation"
    ELSE IF Phase(l, t) # "ACTIVE" THEN "lease not active"
    ELSE IF ~Allows(l, capability) THEN "capability exceeds lease"
    ELSE "admitted"

\* The receipt EvaluateTurn returns: Turn is CurrentTurn + 1 even when denied.
Receipt(id, capability, payload, prevHash) ==
    LET reason == Reason(leases[id], capability, prevHash, now) IN
    [lease |-> id, turn |-> leases[id].currentTurn + 1,
     capability |-> capability,
     disposition |-> IF reason = "admitted" THEN "ADMIT" ELSE "DENY",
     reason |-> reason, payload |-> payload, prev |-> prevHash,
     timestamp |-> now]

\* Faulty variants of EvaluateTurn: the head is not moved; the turn is counted
\* before the checks.
EvaluateTurnKeepsHead(l, r) ==
    IF r.disposition = "ADMIT" THEN [l EXCEPT !.currentTurn = @ + 1] ELSE l

EvaluateTurnCountsFirst(l, r) ==
    [l EXCEPT !.currentTurn = @ + 1,
              !.lastReceiptHash = IF r.disposition = "ADMIT"
                                  THEN ComputeHash(r) ELSE @]

\* What EvaluateTurn does to the lease for which it returns receipt r.
EvaluateTurn(l, r) ==
    IF r.disposition = "ADMIT"
    THEN [l EXCEPT !.currentTurn = @ + 1, !.lastReceiptHash = ComputeHash(r)]
    ELSE l

Init ==
    /\ leases = [id \in LeaseIDs |-> NoLease]
    /\ now = 0
    /\ reply = NoReply
    /\ chain = [id \in LeaseIDs |-> <<>>]
    /\ seen = {}
    /\ registrations = 0

(***************************************************************************)
(* RegisterLease stores the new lease under its ID; a lease registered     *)
(* before under that ID is replaced, whatever its turn and its revocation. *)
(***************************************************************************)
RegisterLease(id) ==
    /\ registrations < MaxRegistrations
    /\ \E allowed \in Grants, maxTurns \in TurnLimits, ttl \in TTLs :
          leases' = [leases EXCEPT
                       ![id] = NewCapabilityLease(allowed, maxTurns, ttl)]
    /\ chain' = [chain EXCEPT ![id] = <<>>]
    /\ registrations' = registrations + 1
    /\ UNCHANGED <<now, reply, seen>>

\* The hashes an agent may present as prevReceiptHash.
Presentable == {GenesisHash, ForgedHash} \cup seen

RequestExecution(id) ==
    /\ leases[id].registered
    /\ \E capability \in Capabilities, payload \in Payloads,
          prevHash \in Presentable :
         LET r == Receipt(id, capability, payload, prevHash) IN
         /\ r.disposition = "ADMIT" => leases[id].currentTurn < MaxTurn
         /\ reply' = ReplyOf(r)
         /\ leases' = [leases EXCEPT ![id] = EvaluateTurn(@, r)]
         /\ IF r.disposition = "ADMIT"
            THEN /\ chain' = [chain EXCEPT ![id] = Append(@, r)]
                 /\ seen' = seen \cup {ComputeHash(r)}
            ELSE UNCHANGED <<chain, seen>>
    /\ UNCHANGED <<now, registrations>>

\* No lease of that ID: an error and no receipt.
RequestWithoutLease(id) ==
    /\ ~leases[id].registered
    /\ reply' = NoReply
    /\ UNCHANGED <<leases, now, chain, seen, registrations>>

Revoke(id) ==
    /\ leases[id].registered
    /\ leases' = [leases EXCEPT ![id].revoked = TRUE]
    /\ UNCHANGED <<now, reply, chain, seen, registrations>>

\* The wall clock advances, or is set back.
ClockMoves ==
    /\ now' \in 0 .. MaxTime
    /\ UNCHANGED <<leases, reply, chain, seen, registrations>>

Next ==
    \/ \E id \in LeaseIDs :
         \/ RegisterLease(id)
         \/ RequestExecution(id)
         \/ RequestWithoutLease(id)
         \/ Revoke(id)
    \/ ClockMoves

Spec == Init /\ [][Next]_vars

-----------------------------------------------------------------------------
(***************************************************************************)
(* Properties.                                                             *)
(***************************************************************************)

Dispositions == {"NONE", "ADMIT", "DENY"}

LeaseFields == {"registered", "allowed", "maxTurns", "currentTurn", "expiresAt",
                "revoked", "lastReceiptHash"}

\* The elements of a sequence.
Elements(s) == {s[i] : i \in DOMAIN s}

\* Type invariant: the lease map, the clock and the history keep the shapes
\* the Go structs give them (lease.go 51-63, broker.go 14-17).
TypeOK ==
    /\ \A id \in LeaseIDs :
         /\ DOMAIN leases[id] = LeaseFields
         /\ leases[id].registered \in BOOLEAN
         /\ leases[id].revoked \in BOOLEAN
         /\ leases[id].allowed \subseteq Capabilities \cup {Wildcard}
         /\ leases[id].maxTurns \in Nat
         /\ leases[id].currentTurn \in Nat
         /\ leases[id].expiresAt \in Nat
         /\ chain[id] \in Seq(Elements(chain[id]))
    /\ DOMAIN leases = LeaseIDs
    /\ DOMAIN chain = LeaseIDs
    /\ now \in Nat
    /\ registrations \in Nat
    /\ reply.disposition \in Dispositions

\* The hash that position i of a lease's receipt chain must point back to.
Previous(c, i) == IF i = 1 THEN GenesisHash ELSE ComputeHash(c[i - 1])

\* Whatever agents present, in whatever order, the receipts a lease admits
\* form one chain: the i-th carries turn i and the hash of its predecessor, and
\* the lease's CurrentTurn and LastReceiptHash are the chain's length and head
\* (EvaluateTurn, lease.go 109-125 and 151-158).
ChainLinked ==
    \A id \in LeaseIDs :
        /\ leases[id].currentTurn = Len(chain[id])
        /\ leases[id].lastReceiptHash =
               Previous(chain[id], Len(chain[id]) + 1)
        /\ \A i \in 1 .. Len(chain[id]) :
               /\ chain[id][i].turn = i
               /\ chain[id][i].prev = Previous(chain[id], i)

\* Two agents that read the same head cannot both be admitted on it: no two
\* admitted receipts of a lease name the same predecessor (the chain check of
\* EvaluateTurn, lease.go 119-125), so the audit trail has no forks.
NoFork ==
    \A id \in LeaseIDs :
        \A i, j \in 1 .. Len(chain[id]) :
            chain[id][i].prev = chain[id][j].prev => i = j

\* Every receipt in a chain was within the lease's authority when it was
\* admitted: turn within MaxTurns, capability granted, clock not past
\* ExpiresAt (Phase, lease.go 83-94, and the capability check, 135-149).
AdmittedWithinLease ==
    \A id \in LeaseIDs :
        \A i \in 1 .. Len(chain[id]) :
            LET r == chain[id][i] IN
            /\ leases[id].maxTurns > 0 => i <= leases[id].maxTurns
            /\ Allows(leases[id], r.capability)
            /\ r.timestamp <= leases[id].expiresAt
            /\ r.lease = id

\* Revoke terminates the lease: from then on its chain does not grow and it is
\* not reactivated, until RegisterLease puts another lease in its place
\* (lease.go 97-100, broker.go 70-83).
RevokedIsFinal ==
    [][\A id \in LeaseIDs :
          leases[id].revoked =>
              \/ /\ leases'[id].revoked
                 /\ chain'[id] = chain[id]
              \/ registrations' # registrations]_vars

\* A denied request leaves every lease as it was: a caller that is refused
\* cannot burn a turn of, or move the head of, someone else's lease
\* (the early returns of EvaluateTurn, lease.go 119-149).
DenialIsInert ==
    [][(reply' # reply /\ reply'.disposition = "DENY") =>
          \A id \in LeaseIDs : /\ leases'[id] = leases[id]
                               /\ chain'[id] = chain[id]]_vars

\* The authority the broker's lease object stands for.
GrantOf(id) == [live |-> leases[id].registered /\ ~leases[id].revoked,
                limit |-> leases[id].maxTurns,
                used |-> Len(chain[id])]

Grant == INSTANCE CapabilityGrant WITH
            Grants <- LeaseIDs, Limits <- TurnLimits,
            grant <- [id \in LeaseIDs |-> GrantOf(id)]

\* The broker implements the bounded grant: what is admitted under a lease are
\* uses of a grant of MaxTurns that revocation withdraws.
ImplementsGrant == Grant!Spec
=============================================================================
