------------------------------ MODULE MCDecider ------------------------------
(***************************************************************************)
(* Proxies before three tools, one of each tier; a standing grant for the  *)
(* two that need one, and a single-use grant for the critical one, the     *)
(* only one whose calls pend.  A run picks the proxies, the requests and   *)
(* the grants it is about.                                                 *)
(***************************************************************************)
EXTENDS Decider, TLC

CONSTANTS p1, p2, cli, routineCall, sensitiveCall, criticalCall, durable, onceCritical

Listed(tier) ==
    [entry |-> [tier |-> tier, source |-> "pack", allow |-> FALSE, deny |-> FALSE],
     unknown |-> "sensitive", destructive |-> FALSE]

ThreeTools ==
    (routineCall :> Listed("routine")) @@ (sensitiveCall :> Listed("sensitive"))
        @@ (criticalCall :> Listed("critical"))

Bindings ==
    [g \in Grants |->
        Requests \cap CASE g = durable       -> {sensitiveCall, criticalCall}
                        [] g = onceCritical  -> {criticalCall}]

Caps == [g \in Grants |-> "critical"]

CONSTANT ExpiryOfDurable
Expiries == [g \in Grants |-> IF g = durable THEN ExpiryOfDurable ELSE Horizon + 1]

CONSTANT Seconds
Ttls == [t \in {"routine", "sensitive"} |-> Seconds]

Symmetry == Permutations(Proxies)

=============================================================================
