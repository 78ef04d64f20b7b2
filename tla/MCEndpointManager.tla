-------------------------- MODULE MCEndpointManager --------------------------
(* Two create requests, for two containers or for the same one, a user of   *)
(* handles and two deletions, on one or two ids.                            *)
EXTENDS EndpointManager

CONSTANTS r1, r2, a, b

MCRequests == {r1, r2}
MCContainers == {a, b}

Distinct == [r \in MCRequests |-> IF r = r1 THEN a ELSE b]
Same == [r \in MCRequests |-> a]
=============================================================================
