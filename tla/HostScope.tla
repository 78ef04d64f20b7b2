------------------------------ MODULE HostScope ------------------------------
(***************************************************************************)
(* The address arithmetic of a host scope allocator (sarena-services,      *)
(* ipam/host_scope.rs): which addresses of a network the bitmap's offsets  *)
(* stand for.                                                              *)
(*                                                                         *)
(* A network is a record of its family, its network address and its prefix *)
(* length.  Addresses are numbers of Width[family] bits, where the code    *)
(* has 32 and 128; the bitmap of an IPv6 network has at most 2^CapBits     *)
(* addresses, where the code has 2^16.  An Option is a set with at most    *)
(* one element.                                                            *)
(***************************************************************************)
EXTENDS Integers, FiniteSets

CONSTANTS Width,   \* per family: bits of an address
          CapBits  \* host bits an IPv6 bitmap covers

ASSUME HostScopeAssumption ==
    /\ DOMAIN Width = {"ipv4", "ipv6"}
    /\ Width["ipv4"] \in Nat
    /\ Width["ipv6"] \in Nat
    /\ CapBits \in Nat

(* 2^n, by doubling. *)
Pow2[n \in Nat] == IF n = 0 THEN 1 ELSE 2 * Pow2[n - 1]

HostBits(net) == Width[net.family] - net.prefix

(* IpNet::contains. *)
InNet(net, ip) == ip >= net.network /\ ip < net.network + Pow2[HostBits(net)]

(* The networks of all or half of the addresses have size 0. *)
Size(net) ==
    IF HostBits(net) >= Width[net.family] - 1 THEN 0
    ELSE IF net.family = "ipv6" /\ HostBits(net) >= CapBits THEN Pow2[CapBits]
    ELSE Pow2[HostBits(net)]

(* Faulty variant: the broadcast address is not set aside. *)
MaxOffsetWithBroadcast(net) ==
    IF Size(net) > 2 THEN Size(net) - 1 ELSE Size(net)

(* The number of bits of the bitmap: not the first and the last address. *)
MaxOffset(net) == IF Size(net) > 2 THEN Size(net) - 2 ELSE Size(net)

Base(net) == IF Size(net) > 2 THEN net.network + 1 ELSE net.network

(* The offset of an address, if the allocator serves it. *)
Contains(net, ip) ==
    {o \in {ip - Base(net)} : InNet(net, ip) /\ o >= 0 /\ o < MaxOffset(net)}

OffsetToIp(net, offset) == (Base(net) + offset) % Pow2[Width[net.family]]

-----------------------------------------------------------------------------
(* The addresses an allocator should serve: the network's, without its      *)
(* first and last one if there are more than two, and of a large IPv6       *)
(* network only those of its first 2^CapBits; none of a network that is     *)
(* half of the address space or all of it.                                  *)
IsUsable(net, ip) ==
    LET all == {x \in 0 .. Pow2[Width[net.family]] - 1 :
                  /\ InNet(net, x)
                  /\ net.family = "ipv6" => x < net.network + Pow2[CapBits]}
    IN  /\ net.prefix > 1
        /\ ip \in all
        /\ Cardinality(all) > 2 => \E first, last \in all : first < ip /\ ip < last

(* The offsets are those of the usable addresses, one to one. *)
OffsetsAreExact(net, ip) ==
    /\ Contains(net, ip) # {} <=> IsUsable(net, ip)
    /\ \A o \in Contains(net, ip) : OffsetToIp(net, o) = ip
    /\ \A o \in 0 .. MaxOffset(net) - 1 : Contains(net, OffsetToIp(net, o)) = {o}
=============================================================================
