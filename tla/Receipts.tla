------------------------------- MODULE Receipts -------------------------------
(***************************************************************************)
(* Control receipts (core/assurance/claim.go, internal/receipts): what a   *)
(* signature covers, how receipts are issued, signed and verified, and the *)
(* evidence root.  Pure functions; SHA-256 and hex are injective, Ed25519  *)
(* signatures are values only their key can make.                          *)
(*                                                                         *)
(* A receipt is a record with the fields subject (its URI), control        *)
(* (namespace, id, version), state, epoch (its composite digest),          *)
(* evidenceRoot, evaluator, evaluatedAt and signature.                     *)
(***************************************************************************)
EXTENDS Integers, Sequences, FiniteSets

\* The strings that are empty in a record that was not filled in.
Empty == ""

\* AssuranceState.String of the states 0 to 6.
StateName == <<"UNKNOWN", "OBSERVED", "VERIFIED", "ASSURED", "STALE", "FAILED">>

\* AssuranceState(n).String(): a number without a name keeps its number.
AssuranceState(n) ==
    IF n = 0 THEN <<"UNSPECIFIED">>
    ELSE IF n \in DOMAIN StateName THEN <<StateName[n]>>
    ELSE <<"AssuranceState", n>>

\* ControlRef.Canonical.
Canonical(control) ==
    IF control.version # Empty
    THEN <<control.namespace, control.id, control.version>>
    ELSE <<control.namespace, control.id>>

\* ControlReceipt.CanonicalBytes.
CanonicalBytes(r) ==
    <<r.subject, Canonical(r.control), r.state, r.epoch, r.evidenceRoot,
      r.evaluator, r.evaluatedAt>>

\* ControlReceipt.Digest.
ReceiptDigest(r) == <<"sha256", CanonicalBytes(r)>>

-----------------------------------------------------------------------------

(***************************************************************************)
(* Signatures.  A key pair is a positive number; 0 is a key that does not  *)
(* decode.                                                                 *)
(***************************************************************************)
BadKey == 0
Unsigned == [key |-> BadKey, bytes |-> <<>>]       \* the empty string
NotHex == [key |-> BadKey - 1, bytes |-> <<>>]     \* does not decode

Sign(key, bytes) == [key |-> key, bytes |-> bytes]

\* ReceiptManager.IssueReceipt by the manager m.
IssueReceipt(m, subject, control, state, epoch, root, evaluatedAt) ==
    LET r == [subject |-> subject, control |-> control, state |-> state,
              epoch |-> epoch, evidenceRoot |-> root,
              evaluator |-> m.evaluator, evaluatedAt |-> evaluatedAt,
              signature |-> Unsigned]
    IN [r EXCEPT !.signature = Sign(m.key, CanonicalBytes(r))]

\* ReceiptManager.SignReceipt: evaluator and time are filled in when missing.
SignReceipt(m, r, now) ==
    LET filled == [r EXCEPT
            !.evaluator = IF r.evaluator = Empty THEN m.evaluator ELSE @,
            !.evaluatedAt = IF r.evaluatedAt = 0 THEN now ELSE @]
    IN [filled EXCEPT !.signature = Sign(m.key, CanonicalBytes(filled))]

\* VerifyIndependentReceipt: "error" where the code returns one.
VerifyIndependentReceipt(r, publicKey) ==
    IF publicKey = BadKey \/ r.signature = NotHex THEN "error"
    ELSE IF r.signature = Sign(publicKey, CanonicalBytes(r)) THEN "valid"
    ELSE "invalid"

-----------------------------------------------------------------------------

(***************************************************************************)
(* Evidence roots over the digests D.  The leaves are sorted, so only how  *)
(* often each digest occurs matters.                                       *)
(***************************************************************************)
Leaves(digests, D) ==
    [d \in D |-> Cardinality({i \in DOMAIN digests : digests[i] = d})]

\* The string "none" that callers use where there is no root.
NoRoot(D) == [kind |-> "none", leaves |-> Leaves(<<>>, D)]

\* receipts.ComputeEvidenceRoot; no digests give the root of "empty".
ComputeEvidenceRoot(digests, D) ==
    [kind |-> "root", leaves |-> Leaves(digests, D)]
=============================================================================
