----------------------------- MODULE MCEvidenceCAS -----------------------------
(***************************************************************************)
(* Small instances of EvidenceCAS.                                         *)
(***************************************************************************)
EXTENDS EvidenceCAS

Envelope(id, subject, capturedAt, uri) ==
    [id |-> id, subject |-> subject, capturedAt |-> capturedAt, uri |-> uri]

\* The same ID captured again later, and the same digest with another URI.
Old == Envelope("a", "web", 0, "u")
Renewed == Envelope("a", "web", 1, "u")
Moved == Envelope("a", "web", 0, "v")
\* One that came with the directory.
Exported == Envelope("b", "db", 1, "u")

MCEnvelopes == {Old, Renewed, Moved, Exported}
MCRoot == {Exported}
MCOne == {Old}
=============================================================================
