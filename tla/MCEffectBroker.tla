--------------------------- MODULE MCEffectBroker ---------------------------
(***************************************************************************)
(* A small instance of EffectBroker: two leases, one of which may be       *)
(* registered again; a capability that is never granted by name; budgets   *)
(* of one and two turns and an unlimited one; a lease that can expire.     *)
(***************************************************************************)
EXTENDS EffectBroker

MCCapabilities == {"read", "delete"}
MCGrants == {{"read"}, {Wildcard}}
=============================================================================
