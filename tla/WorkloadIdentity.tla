--------------------------- MODULE WorkloadIdentity ---------------------------
(***************************************************************************)
(* SPIFFE identities: X.509 SVIDs and the trust bundle (spire/svid.go),    *)
(* and which producer may assert which evidence (spire/authority.go).      *)
(*                                                                         *)
(* A certificate has uris (a sequence of [scheme, domain, path]), root     *)
(* (the CA that signed it), notBefore and notAfter in seconds.  An         *)
(* authority is its canonical name <<scheme, trust domain, rest>>.         *)
(***************************************************************************)
EXTENDS EvidenceContract, SequencesExt

CONSTANTS
    Roots,         \* root certificates
    Domains,       \* trust domains
    Certificates,  \* the SVIDs that are presented
    Skew,          \* clockSkewTolerance, in seconds
    MaxClock       \* bound: the validator's clock

ASSUME IdentityAssumption ==
    /\ Skew \in Nat /\ MaxClock \in Nat
    /\ \A cert \in Certificates :
         /\ cert.uris \in Seq({cert.uris[i] : i \in DOMAIN cert.uris})
         /\ \A i \in DOMAIN cert.uris :
              cert.uris[i].scheme = "spiffe" => cert.uris[i].domain \in Domains \cup {""}
         /\ cert.notBefore \in Int /\ cert.notAfter \in Int

VARIABLES
    pools,         \* TrustBundle: trust domain -> set of roots
    checked,       \* history: the SVID validated last, since the pools changed
    attested       \* history: what WorkloadIdentityAttestation made of it

identityVars == <<pools, checked, attested>>

\* TrustBundle.GetCertPool finds a pool once AddRootCA was called.
NoPool == [pool |-> FALSE, roots |-> {}]

\* The first URI with the scheme spiffe, as a set with at most one element.
SpiffeURI(cert) ==
    LET found == {i \in DOMAIN cert.uris : cert.uris[i].scheme = "spiffe"} IN
    IF found = {} THEN {} ELSE {cert.uris[First(found)]}

\* Faulty variant of VerifyTime: the chain is verified at the current time.
VerifyTimeNow(cert, now) == now

\* The time at which the chain is verified: inside the certificate's window.
VerifyTime(cert, now) ==
    LET started == IF now < cert.notBefore THEN cert.notBefore + 1 ELSE now
    IN IF started > cert.notAfter THEN cert.notAfter - 1 ELSE started

\* x509 Certificate.Verify; the roots do not expire.
ChainVerifies(cert, roots, at) ==
    cert.root \in roots /\ cert.notBefore <= at /\ at <= cert.notAfter

\* ValidateSVID: "valid", or why it is not.
ValidateSVID(cert, now) ==
    IF now + Skew < cert.notBefore THEN "not yet valid"
    ELSE IF now - Skew > cert.notAfter THEN "expired"
    ELSE IF SpiffeURI(cert) = {} THEN "no SPIFFE ID"
    ELSE IF \E u \in SpiffeURI(cert) : u.domain = "" THEN "no trust domain"
    ELSE IF \E u \in SpiffeURI(cert) : ~pools[u.domain].pool THEN "untrusted domain"
    ELSE IF \A u \in SpiffeURI(cert) :
              ChainVerifies(cert, pools[u.domain].roots, VerifyTime(cert, now))
    THEN "valid" ELSE "chain"

\* The values of the path /ns/<namespace>/sa/<account>, read in pairs; the
\* last pair with a key counts.
Selector(path, key) ==
    LET pairs == {i \in DOMAIN path : i % 2 = 1 /\ i < Len(path) /\ path[i] = key}
    IN IF pairs = {} THEN "" ELSE path[1 + CHOOSE i \in pairs : \A j \in pairs : j <= i]

\* SVIDs that do not say where they run contradict nothing.
Contradicts(asserted, expected) ==
    expected # "" /\ asserted # "" /\ asserted # expected

\* WorkloadIdentityAttestation: the envelopes it returns.  The producer's
\* subject is the whole SPIFFE ID, so its canonical name has two schemes.
WorkloadIdentityAttestation(cert, now, namespace, account) ==
    {[type |-> <<"workload", "identity">>, capturedAt |-> now,
      producer |-> <<"spiffe", "spiffe:", u.domain>> \o u.path]
       : u \in {u \in SpiffeURI(cert) :
                  /\ ValidateSVID(cert, now) = "valid"
                  /\ ~Contradicts(Selector(u.path, "ns"), namespace)
                  /\ ~Contradicts(Selector(u.path, "sa"), account)}}

-----------------------------------------------------------------------------

(***************************************************************************)
(* The authority policy.                                                   *)
(***************************************************************************)
NewDefaultAuthorityPolicy ==
    [domains |-> {"prod", "ckodex.local"},
     permissions |->
       {[producer |-> <<"spiffe", "prod", "cel-admission-observer">>,
         types |-> {<<"kubernetes", "admission">>}],
        [producer |-> <<"spiffe", "prod", "tetragon-collector">>,
         types |-> {<<"workload", "runtime", "process">>,
                    <<"workload", "runtime", "capabilities">>}],
        [producer |-> <<"spiffe", "prod", "cilium-collector">>,
         types |-> {<<"network", "flow", "isolation">>}],
        [producer |-> <<"spiffe", "prod", "sigstore-verifier">>,
         types |-> {<<"supply", "chain", "signature">>,
                    <<"supply", "chain", "provenance">>}]}]

\* SpireAuthorityResolver.ValidateIdentity.
ValidateIdentity(policy, authority) ==
    /\ Len(authority) > 1
    /\ authority[1] = "spiffe"
    /\ authority[2] # ""
    /\ {authority[2], "*"} \cap policy.domains # {}

\* SpireAuthorityResolver.IsAuthorizedProducer.
IsAuthorizedProducer(policy, producer, type) ==
    /\ ValidateIdentity(policy, producer)
    /\ \E entry \in policy.permissions :
         /\ entry.producer = producer
         /\ {type, <<"*">>} \cap entry.types # {}

-----------------------------------------------------------------------------

Unchecked == [cert |-> CHOOSE c \in Certificates : TRUE, now |-> 0, verdict |-> "none"]

\* NewTrustBundle and NewSVIDValidator.
IdentityInit ==
    /\ pools = [d \in Domains |-> NoPool]
    /\ checked = Unchecked
    /\ attested = {}

\* AddRootCA makes the pool before it parses; what does not parse is an error.
AddRootCA(domain, root, parses) ==
    /\ pools' = [pools EXCEPT ![domain] =
         [pool |-> TRUE, roots |-> IF parses THEN @.roots \cup {root} ELSE @.roots]]
    /\ checked' = Unchecked
    /\ attested' = {}

\* A workload presents its SVID; now is the validator's clock.
Attest(cert, now, namespace, account) ==
    /\ checked' = [cert |-> cert, now |-> now, verdict |-> ValidateSVID(cert, now)]
    /\ attested' = WorkloadIdentityAttestation(cert, now, namespace, account)
    /\ UNCHANGED pools

IdentityNext ==
    \/ \E d \in Domains, r \in Roots, parses \in BOOLEAN : AddRootCA(d, r, parses)
    \/ \E c \in Certificates, now \in 0 .. MaxClock :
         Attest(c, now, "", "") \/ Attest(c, now, "payments", "api")

IdentitySpec == IdentityInit /\ [][IdentityNext]_identityVars

(***************************************************************************)
(* Properties.                                                             *)
(***************************************************************************)

\* An SVID that lives at least a second is accepted exactly when some clock
\* that is at most Skew off shows a time in its window and its own trust
\* domain's pool has its root: the two comparisons, the
\* clamped verification time and the chain check neither widen nor narrow
\* the tolerance, and no other domain's root can vouch for it.
SkewIsTolerance ==
    LET cert == checked.cert
        reachable == \E t \in checked.now - Skew .. checked.now + Skew :
                       cert.notBefore <= t /\ t <= cert.notAfter
        vouched == \E u \in SpiffeURI(cert) :
                     u.domain # "" /\ cert.root \in pools[u.domain].roots
    IN (checked.verdict # "none" /\ cert.notBefore < cert.notAfter)
       => (checked.verdict = "valid" <=> reachable /\ vouched)
=============================================================================
