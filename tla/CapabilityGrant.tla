--------------------------- MODULE CapabilityGrant ---------------------------
(***************************************************************************)
(* What a bounded execution grant promises, without hashes, clocks or      *)
(* capabilities: a grant is used at most `limit' times, and never again    *)
(* once it has been withdrawn.  EffectBroker implements this module.       *)
(***************************************************************************)
EXTENDS Naturals

CONSTANTS
    Grants,     \* the names under which authority is granted
    Limits      \* how many uses a grant may allow

VARIABLE grant      \* grant[g]: the authority currently held under g

NoGrant == [live |-> FALSE, limit |-> 0, used |-> 0]

\* A limit of 0 means that the number of uses is not bounded.
Usable(x) == x.live /\ (x.limit = 0 \/ x.used < x.limit)

Init == grant = [g \in Grants |-> NoGrant]

Give(g) == \E n \in Limits :
    grant' = [grant EXCEPT ![g] = [live |-> TRUE, limit |-> n, used |-> 0]]

Use(g) ==
    /\ Usable(grant[g])
    /\ grant' = [grant EXCEPT ![g].used = @ + 1]

Withdraw(g) ==
    /\ grant[g].live
    /\ grant' = [grant EXCEPT ![g] = [live |-> FALSE, limit |-> @.limit,
                                      used |-> @.used]]

Next == \E g \in Grants : Give(g) \/ Use(g) \/ Withdraw(g)

Spec == Init /\ [][Next]_grant
=============================================================================
