-------------------------- MODULE EffectBrokerProofs --------------------------
(***************************************************************************)
(* The safety of the effect broker for every number of leases, requests,   *)
(* capabilities, turns and registrations, and for every movement of the    *)
(* clock.                                                                  *)
(***************************************************************************)
EXTENDS EffectBroker, TLAPS

(***************************************************************************)
(* ChainLinked is needed to know what head a request was compared with;    *)
(* AdmittedWithinLease alone is not inductive, because the budget is       *)
(* checked on CurrentTurn and not on the chain.                            *)
(***************************************************************************)
IInv == TypeOK /\ ChainLinked /\ AdmittedWithinLease

-----------------------------------------------------------------------------
\* What appending one element does to a sequence whose element set is not
\* known in advance (the receipts of a chain refer to earlier receipts).
LEMMA AppendFacts ==
    ASSUME NEW s, s \in Seq(Elements(s)), NEW e
    PROVE  /\ Append(s, e) \in Seq(Elements(Append(s, e)))
           /\ Len(Append(s, e)) = Len(s) + 1
           /\ Len(s) \in Nat
           /\ \A i \in 1 .. Len(s) : Append(s, e)[i] = s[i]
           /\ Append(s, e)[Len(s) + 1] = e
<1> DEFINE S == Elements(s) \cup {e}
<1>1. s \in Seq(S)
  BY DEF Elements
<1>2. /\ Append(s, e) \in Seq(S)
      /\ Len(Append(s, e)) = Len(s) + 1
      /\ Len(s) \in Nat
      /\ DOMAIN Append(s, e) = 1 .. (Len(s) + 1)
      /\ \A i \in 1 .. Len(s) : Append(s, e)[i] = s[i]
      /\ Append(s, e)[Len(s) + 1] = e
  BY <1>1
<1>3. Append(s, e) \in Seq(Elements(Append(s, e)))
  BY <1>2 DEF Elements
<1>4. QED
  BY <1>2, <1>3


\* The part of IInv that speaks of the lease of one ID.
LeaseOK(id) ==
    /\ DOMAIN leases[id] = LeaseFields
    /\ leases[id].registered \in BOOLEAN
    /\ leases[id].revoked \in BOOLEAN
    /\ leases[id].allowed \subseteq Capabilities \cup {Wildcard}
    /\ leases[id].maxTurns \in Nat
    /\ leases[id].currentTurn \in Nat
    /\ leases[id].expiresAt \in Nat
    /\ chain[id] \in Seq(Elements(chain[id]))
    /\ leases[id].currentTurn = Len(chain[id])
    /\ leases[id].lastReceiptHash = Previous(chain[id], Len(chain[id]) + 1)
    /\ \A i \in 1 .. Len(chain[id]) :
           /\ chain[id][i].turn = i
           /\ chain[id][i].prev = Previous(chain[id], i)
           /\ leases[id].maxTurns > 0 => i <= leases[id].maxTurns
           /\ Allows(leases[id], chain[id][i].capability)
           /\ chain[id][i].timestamp <= leases[id].expiresAt
           /\ chain[id][i].lease = id

\* IInv is the conjunction of the lease parts and the global types.
LEMMA IInvByLease ==
    IInv <=> /\ \A id \in LeaseIDs : LeaseOK(id)
             /\ DOMAIN leases = LeaseIDs
             /\ DOMAIN chain = LeaseIDs
             /\ now \in Nat
             /\ registrations \in Nat
             /\ reply.disposition \in Dispositions
<1>1. IInv => \A id \in LeaseIDs : LeaseOK(id)
  BY DEF IInv, TypeOK, ChainLinked, AdmittedWithinLease, LeaseOK
<1>2. (\A id \in LeaseIDs : LeaseOK(id)) => ChainLinked /\ AdmittedWithinLease
  BY DEF ChainLinked, AdmittedWithinLease, LeaseOK
<1>3. QED
  BY <1>1, <1>2 DEF IInv, TypeOK, LeaseOK

\* The same, one step later: enough to show IInv'.
LEMMA IInvNext ==
    ASSUME \A id \in LeaseIDs : LeaseOK(id)',
           DOMAIN leases' = LeaseIDs, DOMAIN chain' = LeaseIDs,
           now' \in Nat, registrations' \in Nat,
           reply'.disposition \in Dispositions
    PROVE  IInv'
<1>1. ChainLinked' /\ AdmittedWithinLease'
  BY DEF ChainLinked, AdmittedWithinLease, LeaseOK
<1>2. TypeOK'
  BY DEF TypeOK, LeaseOK
<1>3. QED
  BY <1>1, <1>2 DEF IInv

\* A lease that a step does not touch stays as it should be.
LEMMA Frame ==
    ASSUME NEW id \in LeaseIDs, LeaseOK(id),
           leases'[id] = leases[id], chain'[id] = chain[id]
    PROVE  LeaseOK(id)'
BY DEF LeaseOK

\* Every ID starts without a lease and with an empty chain.
LEMMA InitIInv == Init => IInv
<1> SUFFICES ASSUME Init PROVE IInv
  OBVIOUS
<1>1. ASSUME NEW id \in LeaseIDs PROVE LeaseOK(id)
  <2>1. leases[id] = NoLease /\ chain[id] = <<>>
    BY DEF Init
  <2>2. <<>> \in Seq(Elements(<<>>)) /\ Len(<<>>) = 0
    OBVIOUS
  <2>3. /\ DOMAIN NoLease = LeaseFields
        /\ NoLease.registered \in BOOLEAN /\ NoLease.revoked \in BOOLEAN
        /\ NoLease.allowed = {}
        /\ NoLease.maxTurns = 0 /\ NoLease.currentTurn = 0
        /\ NoLease.expiresAt = 0 /\ NoLease.lastReceiptHash = <<>>
    BY DEF NoLease, LeaseFields
  <2>4. QED
    BY <2>1, <2>2, <2>3 DEF LeaseOK, Previous, GenesisHash
<1>2. QED
  BY <1>1, IInvByLease DEF Init, NoReply, Dispositions

\* Replacing the lease of an ID by a new one starts a new, empty chain.
LEMMA RegisterIInv ==
    ASSUME IInv, NEW id \in LeaseIDs, RegisterLease(id)
    PROVE  IInv'
<1>1. PICK allowed \in Grants, maxTurns \in TurnLimits, ttl \in TTLs :
          leases' = [leases EXCEPT
                       ![id] = NewCapabilityLease(allowed, maxTurns, ttl)]
  BY DEF RegisterLease
<1>2. leases'[id] = NewCapabilityLease(allowed, maxTurns, ttl)
  BY <1>1, IInvByLease
<1>3. chain'[id] = <<>>
  BY IInvByLease DEF RegisterLease
<1>4. LeaseOK(id)'
  <2>1. /\ DOMAIN leases'[id] = LeaseFields
        /\ leases'[id].registered \in BOOLEAN
        /\ leases'[id].revoked \in BOOLEAN
        /\ leases'[id].allowed = allowed
        /\ leases'[id].maxTurns = maxTurns
        /\ leases'[id].currentTurn = 0
        /\ leases'[id].expiresAt = now + ttl
        /\ leases'[id].lastReceiptHash = <<>>
    BY <1>2 DEF NewCapabilityLease, GenesisHash, LeaseFields
  <2>2. <<>> \in Seq(Elements(<<>>)) /\ Len(<<>>) = 0
    OBVIOUS
  <2>3. now + ttl \in Nat /\ maxTurns \in Nat
        /\ allowed \subseteq Capabilities \cup {Wildcard}
    BY BrokerAssumption, IInvByLease
  <2>4. QED
    BY <1>3, <2>1, <2>2, <2>3 DEF LeaseOK, Previous, GenesisHash
<1>5. ASSUME NEW x \in LeaseIDs, x # id PROVE LeaseOK(x)'
  <2>1. leases'[x] = leases[x] /\ chain'[x] = chain[x]
    BY <1>1, <1>5, IInvByLease DEF RegisterLease
  <2>2. LeaseOK(x)
    BY IInvByLease
  <2>3. QED
    BY <2>1, <2>2, Frame
<1>6. /\ (DOMAIN leases = LeaseIDs)' /\ (DOMAIN chain = LeaseIDs)'
      /\ (now \in Nat)' /\ (registrations \in Nat)'
      /\ (reply.disposition \in Dispositions)'
  BY <1>1, IInvByLease DEF RegisterLease
<1>7. QED
  BY <1>4, <1>5, <1>6, IInvNext

\* An admitted receipt was compared with the head, found the lease active and
\* asked for a granted capability; it becomes the new head.
LEMMA AdmitLeaseOK ==
    ASSUME NEW id \in LeaseIDs, LeaseOK(id), now \in Nat,
           NEW capability \in Capabilities, NEW payload, NEW prevHash,
           NEW r, r = Receipt(id, capability, payload, prevHash),
           r.disposition = "ADMIT",
           leases'[id] = EvaluateTurn(leases[id], r),
           chain'[id] = Append(chain[id], r)
    PROVE  LeaseOK(id)'
<1> DEFINE l == leases[id]
           c == chain[id]
           n == Len(chain[id])
<1>1. Reason(l, capability, prevHash, now) = "admitted"
  BY DEF Receipt
<1>2. /\ prevHash = l.lastReceiptHash
      /\ Phase(l, now) = "ACTIVE"
      /\ Allows(l, capability)
  BY <1>1 DEF Reason
<1>3. /\ now <= l.expiresAt
      /\ l.maxTurns > 0 => l.currentTurn < l.maxTurns
  BY <1>2 DEF Phase, LeaseOK
<1>4. /\ r.lease = id /\ r.turn = l.currentTurn + 1
      /\ r.capability = capability /\ r.prev = prevHash
      /\ r.timestamp = now
  BY DEF Receipt
<1>5. leases'[id] = [l EXCEPT !.currentTurn = @ + 1,
                              !.lastReceiptHash = ComputeHash(r)]
  BY DEF EvaluateTurn
<1>6. /\ DOMAIN leases'[id] = DOMAIN l
      /\ leases'[id].registered = l.registered
      /\ leases'[id].revoked = l.revoked
      /\ leases'[id].allowed = l.allowed
      /\ leases'[id].maxTurns = l.maxTurns
      /\ leases'[id].expiresAt = l.expiresAt
  BY <1>5
<1>7. leases'[id].currentTurn = n + 1
      /\ leases'[id].lastReceiptHash = ComputeHash(r)
  BY <1>5 DEF LeaseOK, LeaseFields
<1>8. /\ chain'[id] \in Seq(Elements(chain'[id]))
      /\ Len(chain'[id]) = n + 1
      /\ n \in Nat
      /\ \A i \in 1 .. n : chain'[id][i] = c[i]
      /\ chain'[id][n + 1] = r
  <2>1. c \in Seq(Elements(c))
    BY DEF LeaseOK
  <2>2. QED
    BY <2>1, AppendFacts
<1>9. ASSUME NEW i \in 1 .. n + 1
      PROVE  /\ chain'[id][i].turn = i
             /\ chain'[id][i].prev = Previous(chain'[id], i)
             /\ l.maxTurns > 0 => i <= l.maxTurns
             /\ Allows(l, chain'[id][i].capability)
             /\ chain'[id][i].timestamp <= l.expiresAt
             /\ chain'[id][i].lease = id
  <2>1. CASE i \in 1 .. n
    <3>1. chain'[id][i] = c[i]
      BY <1>8, <2>1
    <3>2. Previous(chain'[id], i) = Previous(c, i)
      <4>1. i # 1 => i - 1 \in 1 .. n
        BY <1>8, <2>1
      <4>2. QED
        BY <1>8, <4>1 DEF Previous
    <3>3. QED
      BY <2>1, <3>1, <3>2 DEF LeaseOK
  <2>2. CASE i = n + 1
    <3>1. chain'[id][i] = r
      BY <1>8, <2>2
    <3>2. l.currentTurn = n /\ l.lastReceiptHash = Previous(c, n + 1)
      BY DEF LeaseOK
    <3>3. Previous(chain'[id], n + 1) = Previous(c, n + 1)
      <4>1. n + 1 # 1 => n + 1 - 1 \in 1 .. n
        BY <1>8
      <4>2. QED
        BY <1>8, <4>1 DEF Previous
    <3>4. l.maxTurns > 0 => n + 1 <= l.maxTurns
      BY <1>3, <1>8, <3>2 DEF LeaseOK
    <3>5. QED
      BY <1>2, <1>3, <1>4, <2>2, <3>1, <3>2, <3>3, <3>4
  <2>3. QED
    BY <1>8, <2>1, <2>2
<1>10. leases'[id].lastReceiptHash = Previous(chain'[id], n + 2)
  BY <1>7, <1>8 DEF Previous
<1>11. ASSUME NEW i \in 1 .. n + 1
       PROVE  Allows(leases'[id], chain'[id][i].capability)
  BY <1>6, <1>9 DEF Allows
<1>12. QED
  BY <1>6, <1>7, <1>8, <1>9, <1>10, <1>11 DEF LeaseOK

\* RequestExecution: an admission extends one chain, a denial changes nothing
\* but the reply.
LEMMA RequestIInv ==
    ASSUME IInv, NEW id \in LeaseIDs, RequestExecution(id)
    PROVE  IInv'
<1>1. PICK capability \in Capabilities, payload \in Payloads,
           prevHash \in Presentable :
         LET r == Receipt(id, capability, payload, prevHash) IN
         /\ reply' = ReplyOf(r)
         /\ leases' = [leases EXCEPT ![id] = EvaluateTurn(@, r)]
         /\ IF r.disposition = "ADMIT"
            THEN chain' = [chain EXCEPT ![id] = Append(@, r)]
            ELSE chain' = chain
  BY DEF RequestExecution
<1> DEFINE r == Receipt(id, capability, payload, prevHash)
<1>2. /\ now' = now /\ registrations' = registrations
  BY DEF RequestExecution
<1>3. r.disposition \in {"ADMIT", "DENY"}
  BY DEF Receipt
<1>4. reply'.disposition \in Dispositions
  BY <1>1, <1>3 DEF ReplyOf, Dispositions
<1>5. /\ leases'[id] = EvaluateTurn(leases[id], r)
      /\ DOMAIN leases' = LeaseIDs
      /\ \A x \in LeaseIDs : x # id => leases'[x] = leases[x]
  BY <1>1, IInvByLease
<1>6. CASE r.disposition = "ADMIT"
  <2>1. /\ chain'[id] = Append(chain[id], r)
        /\ DOMAIN chain' = LeaseIDs
        /\ \A x \in LeaseIDs : x # id => chain'[x] = chain[x]
    BY <1>1, <1>6, IInvByLease
  <2>2. LeaseOK(id)'
    BY <1>5, <1>6, <2>1, IInvByLease, AdmitLeaseOK
  <2>3. ASSUME NEW x \in LeaseIDs, x # id PROVE LeaseOK(x)'
    BY <1>5, <2>1, <2>3, IInvByLease, Frame
  <2>4. QED
    BY <1>2, <1>4, <1>5, <2>1, <2>2, <2>3, IInvByLease, IInvNext
<1>7. CASE r.disposition = "DENY"
  <2>1. chain' = chain
    BY <1>1, <1>7
  <2>2. leases'[id] = leases[id]
    BY <1>5, <1>7 DEF EvaluateTurn
  <2>3. ASSUME NEW x \in LeaseIDs PROVE LeaseOK(x)'
    BY <1>5, <2>1, <2>2, IInvByLease, Frame
  <2>4. QED
    BY <1>2, <1>4, <1>5, <2>1, <2>3, IInvByLease, IInvNext
<1>8. QED
  BY <1>3, <1>6, <1>7

\* Revoke sets a flag of one lease.
LEMMA RevokeIInv ==
    ASSUME IInv, NEW id \in LeaseIDs, Revoke(id)
    PROVE  IInv'
<1>1. /\ leases' = [leases EXCEPT ![id].revoked = TRUE]
      /\ UNCHANGED <<now, reply, chain, registrations>>
  BY DEF Revoke
<1>2. /\ DOMAIN leases' = LeaseIDs
      /\ leases'[id] = [leases[id] EXCEPT !.revoked = TRUE]
      /\ \A x \in LeaseIDs : x # id => leases'[x] = leases[x]
  BY <1>1, IInvByLease
<1>3. LeaseOK(id)'
  <2>1. /\ DOMAIN leases'[id] = DOMAIN leases[id]
        /\ leases'[id].registered = leases[id].registered
        /\ leases'[id].allowed = leases[id].allowed
        /\ leases'[id].maxTurns = leases[id].maxTurns
        /\ leases'[id].currentTurn = leases[id].currentTurn
        /\ leases'[id].expiresAt = leases[id].expiresAt
        /\ leases'[id].lastReceiptHash = leases[id].lastReceiptHash
    BY <1>2
  <2>2. leases'[id].revoked \in BOOLEAN
    BY <1>2, IInvByLease DEF LeaseOK, LeaseFields
  <2>3. chain'[id] = chain[id]
    BY <1>1
  <2>4. LeaseOK(id)
    BY IInvByLease
  <2>5. QED
    BY <2>1, <2>2, <2>3, <2>4 DEF LeaseOK, Allows
<1>4. ASSUME NEW x \in LeaseIDs, x # id PROVE LeaseOK(x)'
  BY <1>1, <1>2, <1>4, IInvByLease, Frame
<1>5. QED
  BY <1>1, <1>2, <1>3, <1>4, IInvByLease, IInvNext

\* No step of any agent, owner or clock breaks the invariant.
LEMMA StepIInv == IInv /\ [Next]_vars => IInv'
<1> SUFFICES ASSUME IInv, [Next]_vars PROVE IInv'
  OBVIOUS
<1>1. ASSUME NEW id \in LeaseIDs, RegisterLease(id) PROVE IInv'
  BY <1>1, RegisterIInv
<1>2. ASSUME NEW id \in LeaseIDs, RequestExecution(id) PROVE IInv'
  BY <1>2, RequestIInv
<1>3. ASSUME NEW id \in LeaseIDs, RequestWithoutLease(id) PROVE IInv'
  <2>1. /\ UNCHANGED <<leases, now, chain, registrations>>
        /\ reply'.disposition \in Dispositions
    BY <1>3 DEF RequestWithoutLease, NoReply, Dispositions
  <2>2. ASSUME NEW x \in LeaseIDs PROVE LeaseOK(x)'
    BY <2>1, IInvByLease, Frame
  <2>3. QED
    BY <2>1, <2>2, IInvByLease, IInvNext
<1>4. ASSUME NEW id \in LeaseIDs, Revoke(id) PROVE IInv'
  BY <1>4, RevokeIInv
<1>5. CASE ClockMoves
  <2>1. /\ UNCHANGED <<leases, chain, registrations, reply>>
        /\ now' \in Nat
    BY <1>5, BrokerAssumption DEF ClockMoves
  <2>2. ASSUME NEW x \in LeaseIDs PROVE LeaseOK(x)'
    BY <2>1, IInvByLease, Frame
  <2>3. QED
    BY <2>1, <2>2, IInvByLease, IInvNext
<1>6. CASE UNCHANGED vars
  <2>1. UNCHANGED <<leases, chain, now, registrations, reply>>
    BY <1>6 DEF vars
  <2>2. ASSUME NEW x \in LeaseIDs PROVE LeaseOK(x)'
    BY <2>1, IInvByLease, Frame
  <2>3. QED
    BY <2>1, <2>2, IInvByLease, IInvNext
<1>7. QED
  BY <1>1, <1>2, <1>3, <1>4, <1>5, <1>6 DEF Next

\* The invariant of the broker holds in every reachable state.
THEOREM BrokerInvariant == Spec => []IInv
<1>1. QED
  BY InitIInv, StepIInv, PTL DEF Spec

\* Type correctness.
THEOREM BrokerTypeOK == Spec => []TypeOK
<1>1. IInv => TypeOK
  BY DEF IInv
<1>2. QED
  BY <1>1, BrokerInvariant, PTL

\* For any set of agents and any interleaving of their requests, every lease's
\* admitted receipts form one hash chain that its counter and head describe.
THEOREM BrokerChainLinked == Spec => []ChainLinked
<1>1. IInv => ChainLinked
  BY DEF IInv
<1>2. QED
  BY <1>1, BrokerInvariant, PTL

\* No request is ever admitted beyond MaxTurns, after ExpiresAt or outside the
\* granted capabilities.
THEOREM BrokerAdmittedWithinLease == Spec => []AdmittedWithinLease
<1>1. IInv => AdmittedWithinLease
  BY DEF IInv
<1>2. QED
  BY <1>1, BrokerInvariant, PTL

-----------------------------------------------------------------------------
\* Receipts with the same hash carry the same turn, and no receipt hashes to
\* the genesis value.
LEMMA HashTurn ==
    ASSUME NEW r, NEW q
    PROVE  /\ ComputeHash(r) = ComputeHash(q) => r.turn = q.turn
           /\ ComputeHash(r) # GenesisHash
<1>1. ComputeHash(r)[2] = r.turn /\ ComputeHash(q)[2] = q.turn
  BY DEF ComputeHash
<1>2. Len(ComputeHash(r)) = 7 /\ Len(GenesisHash) = 0
  BY DEF ComputeHash, GenesisHash
<1>3. QED
  BY <1>1, <1>2

\* A chain whose i-th receipt carries turn i cannot name a predecessor twice.
LEMMA LinkedHasNoFork == ChainLinked => NoFork
<1> SUFFICES ASSUME ChainLinked, NEW id \in LeaseIDs,
                    NEW i \in 1 .. Len(chain[id]),
                    NEW j \in 1 .. Len(chain[id]),
                    chain[id][i].prev = chain[id][j].prev
             PROVE  i = j
  BY DEF NoFork
<1> DEFINE c == chain[id]
<1>1. Previous(c, i) = Previous(c, j)
  BY DEF ChainLinked
<1>2. /\ i # 1 => i - 1 \in 1 .. Len(c)
      /\ j # 1 => j - 1 \in 1 .. Len(c)
  OBVIOUS
<1>3. /\ i # 1 => c[i - 1].turn = i - 1
      /\ j # 1 => c[j - 1].turn = j - 1
  BY <1>2 DEF ChainLinked
<1>4. CASE i = 1 \/ j = 1
  BY <1>1, <1>4, HashTurn DEF Previous
<1>5. CASE i # 1 /\ j # 1
  <2>1. ComputeHash(c[i - 1]) = ComputeHash(c[j - 1])
    BY <1>1, <1>5 DEF Previous
  <2>2. c[i - 1].turn = c[j - 1].turn
    BY <2>1, HashTurn
  <2>3. QED
    BY <1>3, <1>5, <2>2
<1>6. QED
  BY <1>4, <1>5

\* However many agents race on a lease, no two of them are admitted on the same
\* head: the audit trail is linear.
THEOREM BrokerNoFork == Spec => []NoFork
<1>1. QED
  BY LinkedHasNoFork, BrokerChainLinked, PTL

-----------------------------------------------------------------------------
\* A request on a revoked lease is denied.
LEMMA RevokedDenied ==
    ASSUME NEW id \in LeaseIDs, leases[id].revoked,
           NEW capability, NEW payload, NEW prevHash
    PROVE  Receipt(id, capability, payload, prevHash).disposition = "DENY"
<1>1. Phase(leases[id], now) = "REVOKED"
  BY DEF Phase
<1>2. Reason(leases[id], capability, prevHash, now) # "admitted"
  BY <1>1 DEF Reason
<1>3. QED
  BY <1>2 DEF Receipt

\* A denied receipt leaves its lease, and a request leaves every other lease,
\* alone.
LEMMA RequestTouches ==
    ASSUME IInv, NEW id \in LeaseIDs, RequestExecution(id)
    PROVE  /\ \A x \in LeaseIDs : x # id =>
                  leases'[x] = leases[x] /\ chain'[x] = chain[x]
           /\ (leases[id].revoked \/ reply'.disposition = "DENY") =>
                  leases'[id] = leases[id] /\ chain'[id] = chain[id]
<1>1. PICK capability \in Capabilities, payload \in Payloads,
           prevHash \in Presentable :
         LET r == Receipt(id, capability, payload, prevHash) IN
         /\ reply' = ReplyOf(r)
         /\ leases' = [leases EXCEPT ![id] = EvaluateTurn(@, r)]
         /\ IF r.disposition = "ADMIT"
            THEN chain' = [chain EXCEPT ![id] = Append(@, r)]
            ELSE chain' = chain
  BY DEF RequestExecution
<1> DEFINE r == Receipt(id, capability, payload, prevHash)
<1>2. DOMAIN leases = LeaseIDs /\ DOMAIN chain = LeaseIDs
  BY IInvByLease
<1>3. \A x \in LeaseIDs : x # id =>
          leases'[x] = leases[x] /\ chain'[x] = chain[x]
  BY <1>1, <1>2
<1>4. ASSUME leases[id].revoked \/ reply'.disposition = "DENY"
      PROVE  leases'[id] = leases[id] /\ chain'[id] = chain[id]
  <2>1. r.disposition = "DENY"
    BY <1>1, <1>4, RevokedDenied DEF ReplyOf
  <2>2. EvaluateTurn(leases[id], r) = leases[id]
    BY <2>1 DEF EvaluateTurn
  <2>3. chain' = chain
    BY <1>1, <2>1
  <2>4. QED
    BY <1>1, <1>2, <2>2, <2>3
<1>5. QED
  BY <1>3, <1>4

\* Revocation is final for the lease object it was called on.
THEOREM BrokerRevokedIsFinal == Spec => RevokedIsFinal
<1> DEFINE A == \A id \in LeaseIDs :
                   leases[id].revoked =>
                       \/ /\ leases'[id].revoked
                          /\ chain'[id] = chain[id]
                       \/ registrations' # registrations
<1>1. ASSUME IInv, Next, NEW id \in LeaseIDs, leases[id].revoked,
             registrations' = registrations
      PROVE  leases'[id].revoked /\ chain'[id] = chain[id]
  <2>1. ASSUME NEW x \in LeaseIDs, RegisterLease(x) PROVE FALSE
    BY <1>1, <2>1, IInvByLease DEF RegisterLease
  <2>2. ASSUME NEW x \in LeaseIDs, RequestExecution(x)
        PROVE  leases'[id].revoked /\ chain'[id] = chain[id]
    BY <1>1, <2>2, RequestTouches
  <2>3. ASSUME NEW x \in LeaseIDs, RequestWithoutLease(x)
        PROVE  leases'[id].revoked /\ chain'[id] = chain[id]
    BY <1>1, <2>3 DEF RequestWithoutLease
  <2>4. ASSUME NEW x \in LeaseIDs, Revoke(x)
        PROVE  leases'[id].revoked /\ chain'[id] = chain[id]
    <3>1. LeaseOK(id) /\ DOMAIN leases = LeaseIDs
      BY <1>1, IInvByLease
    <3>2. CASE x = id
      <4>1. leases'[id] = [leases[id] EXCEPT !.revoked = TRUE]
        BY <2>4, <3>1, <3>2 DEF Revoke
      <4>2. leases'[id].revoked
        BY <3>1, <4>1 DEF LeaseOK, LeaseFields
      <4>3. QED
        BY <2>4, <4>2 DEF Revoke
    <3>3. CASE x # id
      <4>1. leases'[id] = leases[id]
        BY <2>4, <3>1, <3>3 DEF Revoke
      <4>2. QED
        BY <1>1, <2>4, <4>1 DEF Revoke
    <3>4. QED
      BY <3>2, <3>3
  <2>5. CASE ClockMoves
    BY <1>1, <2>5 DEF ClockMoves
  <2>6. QED
    BY <1>1, <2>1, <2>2, <2>3, <2>4, <2>5 DEF Next
<1>2. IInv /\ [Next]_vars => [A]_vars
  BY <1>1
<1>3. QED
  BY <1>2, BrokerInvariant, PTL DEF Spec, RevokedIsFinal

\* A refused caller cannot change any lease.
THEOREM BrokerDenialIsInert == Spec => DenialIsInert
<1> DEFINE A == (reply' # reply /\ reply'.disposition = "DENY") =>
                   \A id \in LeaseIDs : /\ leases'[id] = leases[id]
                                        /\ chain'[id] = chain[id]
<1>1. ASSUME IInv, Next, reply' # reply, reply'.disposition = "DENY",
             NEW id \in LeaseIDs
      PROVE  leases'[id] = leases[id] /\ chain'[id] = chain[id]
  <2>1. ASSUME NEW x \in LeaseIDs, RegisterLease(x) PROVE FALSE
    BY <1>1, <2>1 DEF RegisterLease
  <2>2. ASSUME NEW x \in LeaseIDs, RequestExecution(x)
        PROVE  leases'[id] = leases[id] /\ chain'[id] = chain[id]
    BY <1>1, <2>2, RequestTouches
  <2>3. ASSUME NEW x \in LeaseIDs, RequestWithoutLease(x) PROVE FALSE
    BY <1>1, <2>3 DEF RequestWithoutLease, NoReply
  <2>4. ASSUME NEW x \in LeaseIDs, Revoke(x) PROVE FALSE
    BY <1>1, <2>4 DEF Revoke
  <2>5. CASE ClockMoves
    BY <1>1, <2>5 DEF ClockMoves
  <2>6. QED
    BY <1>1, <2>1, <2>2, <2>3, <2>4, <2>5 DEF Next
<1>2. IInv /\ [Next]_vars => [A]_vars
  BY <1>1
<1>3. QED
  BY <1>2, BrokerInvariant, PTL DEF Spec, DenialIsInert

-----------------------------------------------------------------------------
(***************************************************************************)
(* The broker implements CapabilityGrant.                                  *)
(***************************************************************************)
Granted == [id \in LeaseIDs |-> GrantOf(id)]

\* Without leases there are no grants.
LEMMA InitGrant == Init => Grant!Init
<1> SUFFICES ASSUME Init PROVE Granted = [g \in LeaseIDs |-> Grant!NoGrant]
  BY DEF Grant!Init, Granted
<1>1. ASSUME NEW id \in LeaseIDs PROVE GrantOf(id) = Grant!NoGrant
  <2>1. leases[id] = NoLease /\ chain[id] = <<>>
    BY DEF Init
  <2>2. /\ (NoLease.registered /\ ~NoLease.revoked) = FALSE
        /\ NoLease.maxTurns = 0
        /\ Len(<<>>) = 0
    BY DEF NoLease
  <2>3. QED
    BY <2>1, <2>2 DEF GrantOf, Grant!NoGrant
<1>2. QED
  BY <1>1 DEF Granted

\* A lease whose record and chain a step leaves alone stands for the same
\* grant.
LEMMA SameGrant ==
    ASSUME NEW id \in LeaseIDs, leases'[id] = leases[id], chain'[id] = chain[id]
    PROVE  GrantOf(id)' = GrantOf(id)
BY DEF GrantOf

\* When at most the lease of one ID changes, so does at most its grant.
LEMMA OneGrant ==
    ASSUME NEW id \in LeaseIDs,
           \A x \in LeaseIDs : x # id => /\ leases'[x] = leases[x]
                                         /\ chain'[x] = chain[x]
    PROVE  Granted' = [Granted EXCEPT ![id] = GrantOf(id)']
<1>1. ASSUME NEW x \in LeaseIDs, x # id PROVE GrantOf(x)' = GrantOf(x)
  BY <1>1, SameGrant
<1>2. QED
  BY <1>1 DEF Granted

\* Every step of the broker gives, uses or withdraws a grant, or leaves the
\* grants alone.
LEMMA StepGrant ==
    IInv /\ [Next]_vars => [Grant!Next]_Granted
<1> SUFFICES ASSUME IInv, [Next]_vars
             PROVE  Grant!Next \/ Granted' = Granted
  BY DEF Granted
<1>1. ASSUME NEW id \in LeaseIDs, RegisterLease(id) PROVE Grant!Give(id)
  <2>1. PICK allowed \in Grants, maxTurns \in TurnLimits, ttl \in TTLs :
            leases' = [leases EXCEPT
                         ![id] = NewCapabilityLease(allowed, maxTurns, ttl)]
    BY <1>1 DEF RegisterLease
  <2>2. DOMAIN leases = LeaseIDs /\ DOMAIN chain = LeaseIDs
    BY IInvByLease
  <2>3. leases'[id] = NewCapabilityLease(allowed, maxTurns, ttl)
        /\ chain'[id] = <<>>
    BY <1>1, <2>1, <2>2 DEF RegisterLease
  <2>4. /\ (leases'[id].registered /\ ~leases'[id].revoked) = TRUE
        /\ leases'[id].maxTurns = maxTurns
        /\ Len(chain'[id]) = 0
    BY <2>3 DEF NewCapabilityLease
  <2>5. GrantOf(id)' = [live |-> TRUE, limit |-> maxTurns, used |-> 0]
    BY <2>4 DEF GrantOf
  <2>6. \A x \in LeaseIDs : x # id => leases'[x] = leases[x]
                                      /\ chain'[x] = chain[x]
    BY <1>1, <2>1, <2>2 DEF RegisterLease
  <2>7. Granted' = [Granted EXCEPT
                      ![id] = [live |-> TRUE, limit |-> maxTurns, used |-> 0]]
    BY <2>5, <2>6, OneGrant
  <2>8. QED
    BY <2>7 DEF Grant!Give, Granted
<1>2. ASSUME NEW id \in LeaseIDs, RequestExecution(id)
      PROVE  Grant!Use(id) \/ Granted' = Granted
  <2>1. PICK capability \in Capabilities, payload \in Payloads,
             prevHash \in Presentable :
           LET r == Receipt(id, capability, payload, prevHash) IN
           /\ reply' = ReplyOf(r)
           /\ leases' = [leases EXCEPT ![id] = EvaluateTurn(@, r)]
           /\ IF r.disposition = "ADMIT"
              THEN chain' = [chain EXCEPT ![id] = Append(@, r)]
              ELSE chain' = chain
    BY <1>2 DEF RequestExecution
  <2> DEFINE r == Receipt(id, capability, payload, prevHash)
  <2>2. LeaseOK(id) /\ DOMAIN leases = LeaseIDs /\ DOMAIN chain = LeaseIDs
    BY IInvByLease
  <2>3. \A x \in LeaseIDs : x # id => leases'[x] = leases[x]
                                      /\ chain'[x] = chain[x]
    BY <1>2, RequestTouches
  <2>4. CASE r.disposition = "ADMIT"
    <3>1. Reason(leases[id], capability, prevHash, now) = "admitted"
      BY <2>4 DEF Receipt
    <3>2. Phase(leases[id], now) = "ACTIVE"
      BY <3>1 DEF Reason
    <3>3. /\ ~leases[id].revoked
          /\ leases[id].maxTurns > 0 =>
                 leases[id].currentTurn < leases[id].maxTurns
      BY <2>2, <3>2 DEF Phase, LeaseOK
    <3>4. leases[id].registered
      BY <1>2 DEF RequestExecution
    <3>5. leases'[id] = [leases[id] EXCEPT !.currentTurn = @ + 1,
                            !.lastReceiptHash = ComputeHash(r)]
      BY <2>1, <2>2, <2>4 DEF EvaluateTurn
    <3>6. /\ leases'[id].registered = leases[id].registered
          /\ leases'[id].revoked = leases[id].revoked
          /\ leases'[id].maxTurns = leases[id].maxTurns
      BY <3>5
    <3>7. Len(chain'[id]) = Len(chain[id]) + 1
      <4>1. chain'[id] = Append(chain[id], r)
        BY <2>1, <2>2, <2>4
      <4>2. chain[id] \in Seq(Elements(chain[id]))
        BY <2>2 DEF LeaseOK
      <4>3. QED
        BY <4>1, <4>2, AppendFacts
    <3>8. GrantOf(id)' = [GrantOf(id) EXCEPT !.used = @ + 1]
      BY <3>6, <3>7 DEF GrantOf
    <3>9. Grant!Usable(GrantOf(id))
      <4>1. GrantOf(id).live
        BY <3>3, <3>4 DEF GrantOf
      <4>2. GrantOf(id).limit = leases[id].maxTurns
            /\ GrantOf(id).used = leases[id].currentTurn
        BY <2>2 DEF GrantOf, LeaseOK
      <4>3. leases[id].maxTurns \in Nat
        BY <2>2 DEF LeaseOK
      <4>4. QED
        BY <3>3, <4>1, <4>2, <4>3 DEF Grant!Usable
    <3>10. Granted[id] = GrantOf(id)
      BY DEF Granted
    <3>11. Granted' = [Granted EXCEPT ![id].used = @ + 1]
      BY <2>3, <3>8, <3>10, OneGrant
    <3>12. QED
      BY <3>9, <3>10, <3>11 DEF Grant!Use, Granted
  <2>5. CASE r.disposition # "ADMIT"
    <3>1. leases'[id] = leases[id] /\ chain'[id] = chain[id]
      BY <2>1, <2>2, <2>5 DEF EvaluateTurn
    <3>2. \A x \in LeaseIDs : GrantOf(x)' = GrantOf(x)
      BY <2>3, <3>1, SameGrant
    <3>3. QED
      BY <3>2 DEF Granted
  <2>6. QED
    BY <2>4, <2>5
<1>3. ASSUME NEW id \in LeaseIDs, Revoke(id)
      PROVE  Grant!Withdraw(id) \/ Granted' = Granted
  <2>1. LeaseOK(id) /\ DOMAIN leases = LeaseIDs
    BY IInvByLease
  <2>2. /\ leases' = [leases EXCEPT ![id].revoked = TRUE]
        /\ chain' = chain
        /\ leases[id].registered
    BY <1>3 DEF Revoke
  <2>3. /\ leases'[id] = [leases[id] EXCEPT !.revoked = TRUE]
        /\ \A x \in LeaseIDs : x # id => leases'[x] = leases[x]
    BY <2>1, <2>2
  <2>4. /\ leases'[id].revoked
        /\ leases'[id].registered = leases[id].registered
        /\ leases'[id].maxTurns = leases[id].maxTurns
    BY <2>1, <2>3 DEF LeaseOK, LeaseFields
  <2>5. GrantOf(id)' = [live |-> FALSE, limit |-> leases[id].maxTurns,
                        used |-> Len(chain[id])]
    BY <2>2, <2>4 DEF GrantOf
  <2>6. Granted' = [Granted EXCEPT ![id] = GrantOf(id)']
    BY <2>2, <2>3, OneGrant
  <2>7. CASE leases[id].revoked
    <3>1. GrantOf(id)' = GrantOf(id)
      BY <2>5, <2>7 DEF GrantOf
    <3>2. QED
      BY <2>6, <3>1 DEF Granted
  <2>8. CASE ~leases[id].revoked
    <3>1. GrantOf(id).live
      BY <2>2, <2>8 DEF GrantOf
    <3>2. GrantOf(id).limit = leases[id].maxTurns
          /\ GrantOf(id).used = Len(chain[id])
      BY DEF GrantOf
    <3>3. Granted[id] = GrantOf(id)
      BY DEF Granted
    <3>4. Granted' = [Granted EXCEPT ![id] = [live |-> FALSE, limit |-> @.limit,
                                              used |-> @.used]]
      BY <2>5, <2>6, <3>2, <3>3
    <3>5. QED
      BY <3>1, <3>3, <3>4 DEF Grant!Withdraw, Granted
  <2>9. QED
    BY <2>7, <2>8
<1>4. ASSUME UNCHANGED <<leases, chain>> PROVE Granted' = Granted
  BY <1>4 DEF Granted, GrantOf
<1>5. ASSUME NEW id \in LeaseIDs, RequestWithoutLease(id)
      PROVE  Granted' = Granted
  BY <1>4, <1>5 DEF RequestWithoutLease
<1>6. ASSUME ClockMoves \/ UNCHANGED vars PROVE Granted' = Granted
  BY <1>4, <1>6 DEF ClockMoves, vars
<1>7. QED
  BY <1>1, <1>2, <1>3, <1>5, <1>6 DEF Next, Grant!Next

\* The detailed broker, with hashes, clocks and concurrent agents, implements
\* the abstract bounded grant.
THEOREM BrokerImplementsGrant == Spec => ImplementsGrant
<1>1. IInv /\ [Next]_vars => [Grant!Next]_Granted
  BY StepGrant
<1>2. QED
  BY <1>1, InitGrant, BrokerInvariant, PTL
     DEF Spec, ImplementsGrant, Grant!Spec, Granted
=============================================================================
