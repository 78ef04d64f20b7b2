-------------------------------- MODULE Ipam --------------------------------
(***************************************************************************)
(* The IP address management service (sarena-services, ipam/): a bitmap    *)
(* allocator per address family, the table of owners per pool and the list *)
(* of excluded addresses.                                                  *)
(*                                                                         *)
(* Requests of several clients run concurrently.  Each visit to the        *)
(* service's state is one step under its write lock, but a request for     *)
(* both families visits it up to three times: IPv6, IPv4 and, if IPv4      *)
(* fails, the release of the IPv6 address.  An address is its family and   *)
(* its offset in the family's bitmap (module HostScope relates offsets to  *)
(* addresses).  All pools share the bitmaps: the pool of a request only    *)
(* selects the owner table and the exclusions.                             *)
(***************************************************************************)
EXTENDS Integers, FiniteSets

CONSTANTS
    Clients,      \* callers of the service; a client's name is its owner string
    Families,     \* {"ipv4", "ipv6"}
    Configured,   \* families with an allocator
    Capacity,     \* per family: the number of bits of its bitmap
    Pools,        \* pool names
    PoolDefault,  \* POOL_DEFAULT
    Excludable    \* bound: the pool and address pairs that may be excluded

ASSUME IpamAssumption ==
    /\ Families = {"ipv4", "ipv6"}
    /\ Configured \subseteq Families
    /\ Capacity \in [Families -> Nat]
    /\ PoolDefault \in Pools

Offsets(f) == 0 .. Capacity[f] - 1

(* The addresses of the bitmaps: a family and an offset. *)
Addresses == UNION {{f} \X Offsets(f) : f \in Families}

ASSUME ExcludableAssumption == Excludable \subseteq Pools \X Addresses

NoOwner == "nobody"
ExcludedOwner == "excluded"   \* "<owner> (excluded)"
Owners == Clients \cup {NoOwner, ExcludedOwner}

(* The marker is a suffix no caller ends its owner string with. *)
ASSUME OwnerAssumption == NoOwner \notin Clients /\ ExcludedOwner \notin Clients

VARIABLES
    bits,       \* per family: the offsets whose bit is set
    count,      \* per family: the bitmap's count of set bits
    owner,      \* per pool and address: the registered owner
    excluded,   \* pairs of a pool and an address
    phase,      \* per client: where its request for both families stands
    pool,       \* per client: the pool of that request
    transit,    \* per client: the IPv6 address that request has so far
    leases      \* per client: addresses it was given, each with the pool it was told

vars == <<bits, count, owner, excluded, phase, pool, transit, leases>>

-----------------------------------------------------------------------------
(* The bitmap allocator (bitmap.rs). *)

Free(f) == Offsets(f) \ bits[f]

(* Faulty variant: the bit next to the offset is set. *)
SetBitsOffByOne(f, set) ==
    /\ bits' = [bits EXCEPT ![f] = @ \cup {o + 1 : o \in set}]
    /\ count' = [count EXCEPT ![f] = @ + Cardinality(set)]

SetBits(f, set) ==
    /\ bits' = [bits EXCEPT ![f] = @ \cup set]
    /\ count' = [count EXCEPT ![f] = @ + Cardinality(set)]

(* Faulty variant: releasing a free offset lowers the count too. *)
ClearBitUnchecked(f, o) ==
    /\ bits' = [bits EXCEPT ![f] = @ \ {o}]
    /\ count' = [count EXCEPT ![f] = @ - 1]

(* Releasing an offset that is out of range or not set changes nothing. *)
ClearBit(f, o) ==
    IF o \in Offsets(f) /\ o \in bits[f]
    THEN /\ bits' = [bits EXCEPT ![f] = @ \ {o}]
         /\ count' = [count EXCEPT ![f] = @ - 1]
    ELSE UNCHANGED <<bits, count>>

-----------------------------------------------------------------------------
(* The owner tables and the exclusions (service.rs State). *)

RegisterOwner(p, f, offset, c, skipped) ==
    owner' = [owner EXCEPT ![p] =
        [a \in Addresses |->
            CASE a = <<f, offset>> -> c
              [] a[1] = f /\ a[2] \in skipped -> ExcludedOwner
              [] OTHER -> owner[p][a]]]

(* Faulty variant: the owner of a released address stays in the table. *)
ReleaseOwnerKept(p, a) == UNCHANGED owner

ReleaseOwner(p, a) == owner' = [owner EXCEPT ![p][a] = NoOwner]

Excluded(p, f) == {o \in Offsets(f) : <<p, <<f, o>>>> \in excluded}

-----------------------------------------------------------------------------
Init ==
    /\ bits = [f \in Families |-> {}]
    /\ count = [f \in Families |-> 0]
    /\ owner = [p \in Pools |-> [a \in Addresses |-> NoOwner]]
    /\ excluded = {}
    /\ phase = [c \in Clients |-> "idle"]
    /\ pool = [c \in Clients |-> PoolDefault]
    /\ transit = [c \in Clients |-> {}]
    /\ leases = [c \in Clients |-> {}]

(* exclude_ip. *)
Exclude(p, a) ==
    /\ <<p, a>> \in Excludable
    /\ excluded' = excluded \cup {<<p, a>>}
    /\ UNCHANGED <<bits, count, owner, phase, pool, transit, leases>>

-----------------------------------------------------------------------------
(* allocate_next_family: the loop takes free offsets from a random start    *)
(* until one is not excluded.  The excluded ones it meets, `skipped`, stay  *)
(* allocated under a name of their own.                                     *)

(* Faulty variant: an excluded address is handed out like any other. *)
TakeNextIgnoresExclusion(c, f, p, offset, skipped) ==
    /\ skipped = {}
    /\ offset \in Free(f)
    /\ count[f] < Capacity[f]
    /\ SetBits(f, {offset})
    /\ RegisterOwner(p, f, offset, c, {})

TakeNext(c, f, p, offset, skipped) ==
    /\ skipped \subseteq Free(f) \cap Excluded(p, f)
    /\ offset \in Free(f) \ Excluded(p, f)
    /\ count[f] + Cardinality(skipped) < Capacity[f]
    /\ SetBits(f, skipped \cup {offset})
    /\ RegisterOwner(p, f, offset, c, skipped)

(* RangeFull: by then the loop has taken every excluded offset it met. *)
RangeFull(f, p, skipped) ==
    /\ skipped \subseteq Free(f) \cap Excluded(p, f)
    /\ \/ count[f] + Cardinality(skipped) >= Capacity[f]
       \/ skipped = Free(f)
    /\ SetBits(f, skipped)
    /\ owner' = [owner EXCEPT ![p] =
          [a \in Addresses |->
             IF a[1] = f /\ a[2] \in skipped THEN ExcludedOwner ELSE owner[p][a]]]

(* What a client is told: the address and POOL_DEFAULT, whatever the pool.  *)
Lease(a) == <<a, PoolDefault>>

-----------------------------------------------------------------------------
(* A request for one family, or for both when only one is configured. *)
AllocateOne(c, f, p) ==
    /\ phase[c] = "idle"
    /\ f \in Configured
    /\ \/ \E offset \in Offsets(f), skipped \in SUBSET Offsets(f) :
             /\ TakeNext(c, f, p, offset, skipped)
             /\ leases' = [leases EXCEPT ![c] = @ \cup {Lease(<<f, offset>>)}]
       \/ \E skipped \in SUBSET Offsets(f) :
             RangeFull(f, p, skipped) /\ UNCHANGED leases
    /\ UNCHANGED <<excluded, phase, pool, transit>>

(* A request for both families takes IPv6 first and gives up if it fails ... *)
AllocateIpv6(c, p) ==
    /\ phase[c] = "idle"
    /\ Configured = Families
    /\ \/ \E offset \in Offsets("ipv6"), skipped \in SUBSET Offsets("ipv6") :
             /\ TakeNext(c, "ipv6", p, offset, skipped)
             /\ phase' = [phase EXCEPT ![c] = "ipv4"]
             /\ pool' = [pool EXCEPT ![c] = p]
             /\ transit' = [transit EXCEPT ![c] = {<<"ipv6", offset>>}]
       \/ \E skipped \in SUBSET Offsets("ipv6") :
             RangeFull("ipv6", p, skipped) /\ UNCHANGED <<phase, pool, transit>>
    /\ UNCHANGED <<excluded, leases>>

(* ... then IPv4, and answers with both ... *)
AllocateIpv4(c) ==
    /\ phase[c] = "ipv4"
    /\ \/ \E offset \in Offsets("ipv4"), skipped \in SUBSET Offsets("ipv4") :
             /\ TakeNext(c, "ipv4", pool[c], offset, skipped)
             /\ phase' = [phase EXCEPT ![c] = "idle"]
             /\ transit' = [transit EXCEPT ![c] = {}]
             /\ leases' = [leases EXCEPT ![c] =
                   @ \cup {Lease(a) : a \in transit[c]} \cup {Lease(<<"ipv4", offset>>)}]
       \/ \E skipped \in SUBSET Offsets("ipv4") :
             /\ RangeFull("ipv4", pool[c], skipped)
             /\ phase' = [phase EXCEPT ![c] = "rollback"]
             /\ UNCHANGED <<transit, leases>>
    /\ UNCHANGED <<excluded, pool>>

(* release_ip_locked. *)
ReleaseIp(a, p) ==
    /\ ClearBit(a[1], a[2])
    /\ ReleaseOwner(p, a)

(* Faulty variant: the error is returned without the release. *)
RollbackForgotten(c) ==
    /\ phase[c] = "rollback"
    /\ phase' = [phase EXCEPT ![c] = "idle"]
    /\ transit' = [transit EXCEPT ![c] = {}]
    /\ UNCHANGED <<bits, count, owner, excluded, pool, leases>>

(* ... or, if IPv4 is exhausted, gives the IPv6 address back, under the     *)
(* pool of the result, which is POOL_DEFAULT.                               *)
Rollback(c) ==
    /\ phase[c] = "rollback"
    /\ \E a \in transit[c] : ReleaseIp(a, Lease(a)[2])
    /\ phase' = [phase EXCEPT ![c] = "idle"]
    /\ transit' = [transit EXCEPT ![c] = {}]
    /\ UNCHANGED <<excluded, pool, leases>>

(* Faulty variant: the bit of a specific address is not tested. *)
AllocateSpecificUnchecked(c, a, p) ==
    /\ phase[c] = "idle"
    /\ a[1] \in Configured
    /\ <<p, a>> \notin excluded
    /\ SetBits(a[1], {a[2]})
    /\ RegisterOwner(p, a[1], a[2], c, {})
    /\ leases' = [leases EXCEPT ![c] = @ \cup {<<a, p>>}]
    /\ UNCHANGED <<excluded, phase, pool, transit>>

(* allocate_ip: refused for an excluded, an allocated or a foreign address.  *)
(* The answer names no pool: the client knows the one it asked for.          *)
AllocateSpecific(c, a, p) ==
    /\ phase[c] = "idle"
    /\ a[1] \in Configured
    /\ <<p, a>> \notin excluded
    /\ a[2] \in Free(a[1])
    /\ SetBits(a[1], {a[2]})
    /\ RegisterOwner(p, a[1], a[2], c, {})
    /\ leases' = [leases EXCEPT ![c] = @ \cup {<<a, p>>}]
    /\ UNCHANGED <<excluded, phase, pool, transit>>

(* A client gives a lease back, with the pool it was told. *)
Release(c, lease) ==
    /\ phase[c] = "idle"
    /\ lease \in leases[c]
    /\ ReleaseIp(lease[1], lease[2])
    /\ leases' = [leases EXCEPT ![c] = @ \ {lease}]
    /\ UNCHANGED <<excluded, phase, pool, transit>>

(* The addresses a client has: its leases and the one in transit. *)
Holds(c) == {l[1] : l \in leases[c]} \cup transit[c]

(* A release of an address nobody has: one that is repeated because its      *)
(* answer was lost, or one of an excluded address.  The service does not     *)
(* ask who calls.                                                            *)
ReleaseUnheld(a, p) ==
    /\ a[1] \in Configured
    /\ \A c \in Clients : a \notin Holds(c)
    /\ ReleaseIp(a, p)
    /\ UNCHANGED <<excluded, phase, pool, transit, leases>>

-----------------------------------------------------------------------------
Next ==
    \/ \E p \in Pools, a \in Addresses : Exclude(p, a) \/ ReleaseUnheld(a, p)
    \/ \E c \in Clients, p \in Pools :
          \/ \E f \in Families : AllocateOne(c, f, p)
          \/ AllocateIpv6(c, p)
          \/ \E a \in Addresses : AllocateSpecific(c, a, p)
    \/ \E c \in Clients : AllocateIpv4(c) \/ Rollback(c)
    \/ \E c \in Clients : \E lease \in leases[c] : Release(c, lease)

Spec == Init /\ [][Next]_vars

-----------------------------------------------------------------------------
(* Properties. *)

(* The tables have their types, and no bit beyond the capacity of a bitmap  *)
(* is ever set (bitmap.rs allocate, allocate_next).                         *)
TypeOK ==
    /\ bits \in [Families -> SUBSET Nat]
    /\ \A f \in Families : bits[f] \subseteq Offsets(f)
    /\ count \in [Families -> Int]
    /\ owner \in [Pools -> [Addresses -> Owners]]
    /\ excluded \subseteq Pools \X Addresses
    /\ phase \in [Clients -> {"idle", "ipv4", "rollback"}]
    /\ pool \in [Clients -> Pools]
    /\ transit \in [Clients -> SUBSET Addresses]
    /\ leases \in [Clients -> SUBSET (Addresses \X Pools)]

(* Whatever the order of allocations, rollbacks and releases, the count the *)
(* allocator keeps is the number of set bits: it neither refuses while      *)
(* addresses are free nor goes on when none is (bitmap.rs).                 *)
CountIsExact == \A f \in Families : count[f] = Cardinality(bits[f])

(* No address is given to two clients, or twice to one, and the bit of an   *)
(* address in use is set (service.rs allocate_next, allocate_ip).           *)
NoDoubleAllocation ==
    /\ \A c, d \in Clients : c # d => Holds(c) \cap Holds(d) = {}
    /\ \A c \in Clients : \A l, m \in leases[c] : l[1] = m[1] => l = m
    /\ \A c \in Clients : {l[1] : l \in leases[c]} \cap transit[c] = {}
    /\ \A c \in Clients : \A a \in Holds(c) : a[2] \in bits[a[1]]

(* No address leaks: every set bit belongs to a client, or to an excluded   *)
(* address the allocator met.  A request that failed for one family keeps   *)
(* nothing of the other (service.rs allocate_next).                         *)
NoLeak ==
    \A f \in Families : \A o \in bits[f] :
        \/ \E c \in Clients : <<f, o>> \in Holds(c)
        \/ \E p \in Pools : owner[p][<<f, o>>] = ExcludedOwner

(* The default pool's owner table names no client that does not have the    *)
(* address: what `dump` reports is true.                                    *)
OwnersAreTrue ==
    \A a \in Addresses, c \in Clients : owner[PoolDefault][a] = c => a \in Holds(c)

(* An allocation never hands out an address that is excluded in its pool at *)
(* that moment, though exclusions may arrive between the two halves of a    *)
(* request.                                                                 *)
ExcludedIsNotHandedOut ==
    [][\A p \in Pools, a \in Addresses, c \in Clients :
          owner[p][a] # c /\ owner'[p][a] = c => <<p, a>> \notin excluded]_vars

(* Seen by its clients the service is an AddressPool: leases are granted    *)
(* and given back one by one, except that a request for both families gets  *)
(* its two addresses in one step or none, whatever happens between its      *)
(* visits to the state (service.rs allocate_next, allocate_next_family,     *)
(* allocate_ip, release_ip).                                                *)
Pool == INSTANCE AddressPool WITH
          held    <- [c \in Clients |-> {l[1] : l \in leases[c]}],
          waiting <- {c \in Clients : phase[c] # "idle"}

(* The service implements the pool its clients see. *)
ImplementsAddressPool == Pool!Spec
=============================================================================
