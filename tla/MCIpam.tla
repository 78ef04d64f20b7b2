------------------------------- MODULE MCIpam -------------------------------
(* Two clients compete for one IPv4 and two IPv6 addresses, in two pools.  *)
EXTENDS Ipam, TLC

CONSTANTS c1, c2

MCClients == {c1, c2}
MCFamilies == {"ipv4", "ipv6"}
MCCapacity == [f \in MCFamilies |-> IF f = "ipv4" THEN 1 ELSE 2]
MCPools == {"default", "custom"}
MCExcludable == {<<"default", <<"ipv6", 0>>>>, <<"default", <<"ipv4", 0>>>>}

ClientSymmetry == Permutations(MCClients)
=============================================================================
