----------------------------- MODULE IpamProofs -----------------------------
(***************************************************************************)
(* Proofs about the IPAM service, for any number of clients and pools and  *)
(* any size of the bitmaps, and about the addresses that the offsets of a  *)
(* bitmap stand for, for any network of any width.                         *)
(***************************************************************************)
EXTENDS Ipam, HostScope, FiniteSetTheorems, WellFoundedInduction, TLAPS

(* A request for both families has one IPv6 address between its steps, and  *)
(* nothing before and after.                                                *)
TransitIsOne ==
    \A c \in Clients :
        /\ phase[c] = "idle" => transit[c] = {}
        /\ phase[c] # "idle" => \E a \in Addresses : transit[c] = {a}

(* The inductive invariant. *)
Inv ==
    /\ TypeOK
    /\ CountIsExact
    /\ TransitIsOne
    /\ NoDoubleAllocation
    /\ NoLeak

-----------------------------------------------------------------------------
(* The addresses are the pairs of a family and an offset of its bitmap. *)
LEMMA AddressPairs ==
    /\ \A f \in Families : \A o \in Offsets(f) : <<f, o>> \in Addresses
    /\ \A a \in Addresses :
          /\ a[1] \in Families
          /\ a[2] \in Offsets(a[1])
          /\ a = <<a[1], a[2]>>
<1>1. ASSUME NEW f \in Families, NEW o \in Offsets(f) PROVE <<f, o>> \in Addresses
  BY DEF Addresses
<1>2. ASSUME NEW a \in Addresses
      PROVE  a[1] \in Families /\ a[2] \in Offsets(a[1]) /\ a = <<a[1], a[2]>>
  <2>1. PICK f \in Families : a \in {f} \X Offsets(f)
    BY DEF Addresses
  <2> QED
    BY <2>1
<1> QED
  BY <1>1, <1>2, Zenon

LEMMA CapacityNat == \A f \in Families : Capacity[f] \in Nat
BY IpamAssumption DEF IpamAssumption

(* What is set in a bitmap is finite. *)
LEMMA FiniteOffsets ==
    ASSUME NEW f \in Families, NEW S \in SUBSET Offsets(f)
    PROVE  IsFiniteSet(S) /\ Cardinality(S) \in Nat
<1>1. 0 \in Int /\ Capacity[f] - 1 \in Int
  BY CapacityNat
<1>2. IsFiniteSet(Offsets(f))
  BY <1>1, FS_Interval, Zenon DEF Offsets
<1>3. IsFiniteSet(S)
  BY <1>2, FS_Subset
<1> QED
  BY <1>3, FS_CardinalityType

(* Setting bits that were clear keeps the count exact (bitmap.rs allocate,  *)
(* allocate_next).                                                          *)
LEMMA SetBitsCounts ==
    ASSUME TypeOK, CountIsExact, NEW f \in Families, NEW set \in SUBSET Free(f),
           SetBits(f, set)
    PROVE  /\ bits' \in [Families -> SUBSET Nat]
           /\ \A g \in Families : bits'[g] \subseteq Offsets(g)
           /\ count' \in [Families -> Int]
           /\ CountIsExact'
           /\ bits'[f] = bits[f] \cup set
           /\ \A g \in Families : g # f => bits'[g] = bits[g]
<1>1. set \in SUBSET Offsets(f) /\ bits[f] \in SUBSET Offsets(f) /\ bits[f] \cap set = {}
  BY DEF Free, TypeOK
<1>2. /\ IsFiniteSet(bits[f]) /\ Cardinality(bits[f]) \in Nat
      /\ IsFiniteSet(set) /\ Cardinality(set) \in Nat
  BY <1>1, FiniteOffsets
<1>3. Cardinality(bits[f] \cup set) = Cardinality(bits[f]) + Cardinality(set)
  <2>1. Cardinality(bits[f] \cup set) =
          Cardinality(bits[f]) + Cardinality(set) - Cardinality(bits[f] \cap set)
    BY <1>2, FS_Union, Zenon
  <2>2. Cardinality(bits[f] \cap set) = 0
    BY <1>1, FS_EmptySet, Zenon
  <2> QED
    BY <1>2, <2>1, <2>2
<1>4. /\ bits'[f] = bits[f] \cup set
      /\ \A g \in Families : g # f => bits'[g] = bits[g]
      /\ count'[f] = count[f] + Cardinality(set)
      /\ \A g \in Families : g # f => count'[g] = count[g]
  BY DEF SetBits, TypeOK
<1>5. \A o \in Offsets(f) : o \in Nat
  BY CapacityNat DEF Offsets
<1>6. bits' \in [Families -> SUBSET Nat]
  BY <1>1, <1>5 DEF SetBits, TypeOK
<1>7. \A g \in Families : bits'[g] \subseteq Offsets(g)
  BY <1>1, <1>4 DEF TypeOK
<1>8. count' \in [Families -> Int]
  BY <1>2 DEF SetBits, TypeOK
<1>9. CountIsExact'
  BY <1>3, <1>4 DEF CountIsExact
<1> QED
  BY <1>4, <1>6, <1>7, <1>8, <1>9

(* Clearing a bit keeps the count exact, whether it was set or not          *)
(* (bitmap.rs release).                                                     *)
LEMMA ClearBitCounts ==
    ASSUME TypeOK, CountIsExact, NEW a \in Addresses, ClearBit(a[1], a[2])
    PROVE  /\ bits' \in [Families -> SUBSET Nat]
           /\ \A g \in Families : bits'[g] \subseteq Offsets(g)
           /\ count' \in [Families -> Int]
           /\ CountIsExact'
           /\ bits'[a[1]] = bits[a[1]] \ {a[2]}
           /\ \A g \in Families : g # a[1] => bits'[g] = bits[g]
<1> DEFINE f == a[1]
           o == a[2]
<1>1. f \in Families /\ o \in Offsets(f)
  BY AddressPairs, Zenon
<1> HIDE DEF f, o
<1>2. ClearBit(f, o)
  BY DEF f, o
<1>3. bits[f] \in SUBSET Offsets(f)
  BY <1>1 DEF TypeOK
<1>4. IsFiniteSet(bits[f]) /\ Cardinality(bits[f]) \in Nat
  BY <1>1, <1>3, FiniteOffsets
<1>5. Cardinality(bits[f] \ {o}) =
        IF o \in bits[f] THEN Cardinality(bits[f]) - 1 ELSE Cardinality(bits[f])
  BY <1>4, FS_RemoveElement, Zenon
<1>6. CASE o \in bits[f]
  <2>1. /\ bits' = [bits EXCEPT ![f] = @ \ {o}]
        /\ count' = [count EXCEPT ![f] = @ - 1]
    BY <1>1, <1>2, <1>6 DEF ClearBit
  <2>2. /\ bits'[f] = bits[f] \ {o}
        /\ \A g \in Families : g # f => bits'[g] = bits[g]
        /\ count'[f] = count[f] - 1
        /\ \A g \in Families : g # f => count'[g] = count[g]
    BY <1>1, <2>1 DEF TypeOK
  <2>3. bits' \in [Families -> SUBSET Nat] /\ count' \in [Families -> Int]
    BY <1>1, <2>1 DEF TypeOK
  <2>4. CountIsExact'
    BY <1>5, <1>6, <2>2 DEF CountIsExact
  <2> QED
    BY <1>3, <2>2, <2>3, <2>4 DEF f, o, TypeOK
<1>7. CASE o \notin bits[f]
  <2>1. UNCHANGED <<bits, count>>
    BY <1>2, <1>7 DEF ClearBit
  <2> QED
    BY <1>7, <2>1 DEF f, o, TypeOK, CountIsExact
<1> QED
  BY <1>6, <1>7

-----------------------------------------------------------------------------
(* Registering an owner and the excluded addresses that were met loses no   *)
(* excluded address but the one that is registered.                         *)
LEMMA RegisterKeeps ==
    ASSUME TypeOK, NEW p \in Pools, NEW f \in Families, NEW offset \in Offsets(f),
           NEW c \in Clients, NEW skipped \in SUBSET Offsets(f), offset \notin skipped,
           RegisterOwner(p, f, offset, c, skipped)
    PROVE  /\ owner' \in [Pools -> [Addresses -> Owners]]
           /\ \A o \in skipped : owner'[p][<<f, o>>] = ExcludedOwner
           /\ \A q \in Pools, x \in Addresses :
                 x # <<f, offset>> /\ owner[q][x] = ExcludedOwner =>
                     owner'[q][x] = ExcludedOwner
<1> DEFINE table == [a \in Addresses |->
                       CASE a = <<f, offset>> -> c
                         [] a[1] = f /\ a[2] \in skipped -> ExcludedOwner
                         [] OTHER -> owner[p][a]]
<1>1. owner' = [owner EXCEPT ![p] = table]
  BY DEF RegisterOwner
<1>2. ASSUME NEW x \in Addresses
      PROVE  /\ table[x] \in Owners
             /\ x # <<f, offset>> /\ x[1] = f /\ x[2] \in skipped => table[x] = ExcludedOwner
             /\ x # <<f, offset>> /\ owner[p][x] = ExcludedOwner => table[x] = ExcludedOwner
  BY DEF TypeOK, Owners
<1>3. table \in [Addresses -> Owners]
  BY <1>2
<1>4. \A o \in skipped : table[<<f, o>>] = ExcludedOwner
  <2> SUFFICES ASSUME NEW o \in skipped PROVE table[<<f, o>>] = ExcludedOwner
    OBVIOUS
  <2>1. <<f, o>> \in Addresses
    BY AddressPairs, Zenon
  <2>2. <<f, o>> # <<f, offset>> /\ <<f, o>>[1] = f /\ <<f, o>>[2] \in skipped
    OBVIOUS
  <2> QED
    BY <1>2, <2>1, <2>2
<1> HIDE DEF table
<1>5. owner' \in [Pools -> [Addresses -> Owners]]
  BY <1>1, <1>3 DEF TypeOK
<1>6. owner'[p] = table /\ \A q \in Pools : q # p => owner'[q] = owner[q]
  BY <1>1 DEF TypeOK
<1> QED
  BY <1>2, <1>4, <1>5, <1>6

(* The same for a range that is full, where nobody is registered. *)
LEMMA RangeFullKeeps ==
    ASSUME TypeOK, CountIsExact, NEW p \in Pools, NEW f \in Families,
           NEW skipped \in SUBSET Offsets(f), RangeFull(f, p, skipped)
    PROVE  /\ bits' \in [Families -> SUBSET Nat]
           /\ \A g \in Families : bits'[g] \subseteq Offsets(g)
           /\ count' \in [Families -> Int]
           /\ CountIsExact'
           /\ bits'[f] = bits[f] \cup skipped
           /\ \A g \in Families : g # f => bits'[g] = bits[g]
           /\ owner' \in [Pools -> [Addresses -> Owners]]
           /\ \A o \in skipped : owner'[p][<<f, o>>] = ExcludedOwner
           /\ \A q \in Pools, x \in Addresses :
                 owner[q][x] = ExcludedOwner => owner'[q][x] = ExcludedOwner
<1> DEFINE table == [a \in Addresses |->
                       IF a[1] = f /\ a[2] \in skipped THEN ExcludedOwner ELSE owner[p][a]]
<1>1. owner' = [owner EXCEPT ![p] = table] /\ skipped \in SUBSET Free(f) /\ SetBits(f, skipped)
  BY DEF RangeFull
<1>2. ASSUME NEW x \in Addresses
      PROVE  /\ table[x] \in Owners
             /\ x[1] = f /\ x[2] \in skipped => table[x] = ExcludedOwner
             /\ owner[p][x] = ExcludedOwner => table[x] = ExcludedOwner
  BY DEF TypeOK, Owners
<1>3. table \in [Addresses -> Owners]
  BY <1>2
<1>4. \A o \in skipped : table[<<f, o>>] = ExcludedOwner
  <2> SUFFICES ASSUME NEW o \in skipped PROVE table[<<f, o>>] = ExcludedOwner
    OBVIOUS
  <2>1. <<f, o>> \in Addresses
    BY AddressPairs, Zenon
  <2> QED
    BY <1>2, <2>1
<1> HIDE DEF table
<1>5. owner' \in [Pools -> [Addresses -> Owners]]
  BY <1>1, <1>3 DEF TypeOK
<1>6. owner'[p] = table /\ \A q \in Pools : q # p => owner'[q] = owner[q]
  BY <1>1 DEF TypeOK
<1>7. /\ \A o \in skipped : owner'[p][<<f, o>>] = ExcludedOwner
      /\ \A q \in Pools, x \in Addresses :
            owner[q][x] = ExcludedOwner => owner'[q][x] = ExcludedOwner
  BY <1>2, <1>4, <1>6
<1> QED
  BY <1>1, <1>5, <1>7, SetBitsCounts

(* An address whose bit is clear is nobody's. *)
LEMMA FreeIsUnheld ==
    ASSUME NoDoubleAllocation, NEW x \in Addresses, x[2] \notin bits[x[1]]
    PROVE  \A d \in Clients : x \notin Holds(d)
BY DEF NoDoubleAllocation

(* If one client gains an address that was free, and keeps the others, no   *)
(* address is given out twice.                                              *)
LEMMA GainIsExclusive ==
    ASSUME NoDoubleAllocation, NEW c \in Clients, NEW x \in Addresses,
           x[2] \notin bits[x[1]],
           x[2] \in bits'[x[1]],
           \A d \in Clients : \A a \in Holds(d) : bits[a[1]] \subseteq bits'[a[1]],
           \A d \in Clients : d # c => leases'[d] = leases[d] /\ transit'[d] = transit[d],
           Holds(c)' = Holds(c) \cup {x},
           \A l, m \in leases'[c] : l[1] = m[1] => l = m,
           {l[1] : l \in leases'[c]} \cap transit'[c] = {}
    PROVE  NoDoubleAllocation'
<1>1. \A d \in Clients : x \notin Holds(d)
  BY FreeIsUnheld
<1>2. \A d \in Clients : d # c => Holds(d)' = Holds(d)
  BY DEF Holds
<1>3. \A d, e \in Clients : d # e => Holds(d)' \cap Holds(e)' = {}
  BY <1>1, <1>2 DEF NoDoubleAllocation
<1>4. \A d \in Clients : \A a \in Holds(d)' : a[2] \in bits'[a[1]]
  BY <1>2 DEF NoDoubleAllocation
<1>5. \A d \in Clients : \A l, m \in leases'[d] : l[1] = m[1] => l = m
  BY DEF NoDoubleAllocation
<1>6. \A d \in Clients : {l[1] : l \in leases'[d]} \cap transit'[d] = {}
  <2> SUFFICES ASSUME NEW d \in Clients
               PROVE  {l[1] : l \in leases'[d]} \cap transit'[d] = {}
    OBVIOUS
  <2>1. CASE d = c
    BY <2>1
  <2>2. CASE d # c
    BY <2>2 DEF NoDoubleAllocation
  <2> QED
    BY <2>1, <2>2
<1> QED
  BY <1>3, <1>4, <1>5, <1>6 DEF NoDoubleAllocation

-----------------------------------------------------------------------------
(* A step that takes a free address for a client and keeps what it has      *)
(* preserves the invariant.                                                 *)
LEMMA GrantInv ==
    ASSUME Inv, NEW c \in Clients, NEW f \in Families, NEW p \in Pools,
           NEW offset \in Offsets(f), NEW skipped \in SUBSET Offsets(f),
           offset \in Free(f), skipped \in SUBSET Free(f), offset \notin skipped,
           SetBits(f, skipped \cup {offset}),
           RegisterOwner(p, f, offset, c, skipped),
           excluded' = excluded,
           phase' \in [Clients -> {"idle", "ipv4", "rollback"}],
           pool' \in [Clients -> Pools],
           transit' \in [Clients -> SUBSET Addresses],
           leases' \in [Clients -> SUBSET (Addresses \X Pools)],
           TransitIsOne',
           \A d \in Clients : d # c => leases'[d] = leases[d] /\ transit'[d] = transit[d],
           Holds(c)' = Holds(c) \cup {<<f, offset>>},
           \A l, m \in leases'[c] : l[1] = m[1] => l = m,
           {l[1] : l \in leases'[c]} \cap transit'[c] = {}
    PROVE  Inv'
<1> DEFINE x == <<f, offset>>
<1>1. x \in Addresses /\ x[1] = f /\ x[2] = offset
  BY AddressPairs
<1>2. /\ offset \in Free(f)
      /\ skipped \in SUBSET Free(f)
      /\ offset \notin skipped
      /\ SetBits(f, skipped \cup {offset})
      /\ RegisterOwner(p, f, offset, c, skipped)
  OBVIOUS
<1>3. offset \notin bits[f]
  BY <1>2 DEF Free
<1> DEFINE set == skipped \cup {offset}
<1>4. set \in SUBSET Free(f) /\ SetBits(f, set)
  BY <1>2
<1> HIDE DEF set
<1>5. /\ bits' \in [Families -> SUBSET Nat]
      /\ \A g \in Families : bits'[g] \subseteq Offsets(g)
      /\ count' \in [Families -> Int]
      /\ CountIsExact'
      /\ bits'[f] = bits[f] \cup set
      /\ \A g \in Families : g # f => bits'[g] = bits[g]
  BY <1>4, SetBitsCounts, Zenon DEF Inv
<1>6. /\ owner' \in [Pools -> [Addresses -> Owners]]
      /\ \A o \in skipped : owner'[p][<<f, o>>] = ExcludedOwner
      /\ \A q \in Pools, y \in Addresses :
            y # x /\ owner[q][y] = ExcludedOwner => owner'[q][y] = ExcludedOwner
  BY <1>2, RegisterKeeps, Zenon DEF Inv
<1>7. TypeOK'
  BY <1>5, <1>6 DEF Inv, TypeOK
<1>8. \A g \in Families : bits[g] \subseteq bits'[g]
  BY <1>5
<1>9. NoDoubleAllocation'
  <2>1. \A d \in Clients : \A a \in Holds(d) : a[1] \in Families
    BY AddressPairs DEF Inv, TypeOK, Holds
  <2>2. \A d \in Clients : \A a \in Holds(d) : bits[a[1]] \subseteq bits'[a[1]]
    BY <1>8, <2>1
  <2>3. x[2] \notin bits[x[1]] /\ x[2] \in bits'[x[1]]
    BY <1>1, <1>3, <1>5 DEF set
  <2> QED
    BY <1>1, <2>2, <2>3, GainIsExclusive DEF Inv
<1>10. NoLeak'
  <2> SUFFICES ASSUME NEW g \in Families, NEW o \in bits'[g]
               PROVE  \/ \E d \in Clients : <<g, o>> \in Holds(d)'
                      \/ \E q \in Pools : owner'[q][<<g, o>>] = ExcludedOwner
    BY DEF NoLeak
  <2>0. <<g, o>> \in Addresses
    BY <1>5, AddressPairs, Zenon
  <2>1. CASE <<g, o>> = x
    BY <2>1
  <2>2. CASE g = f /\ o \in skipped
    BY <1>6, <2>2
  <2>3. CASE <<g, o>> # x /\ o \in bits[g]
    <3>1. CASE \E d \in Clients : <<g, o>> \in Holds(d)
      <4>1. \A d \in Clients : Holds(d) \subseteq Holds(d)'
        <5> SUFFICES ASSUME NEW d \in Clients PROVE Holds(d) \subseteq Holds(d)'
          OBVIOUS
        <5>1. CASE d = c
          BY <5>1
        <5>2. CASE d # c
          BY <5>2 DEF Holds
        <5> QED
          BY <5>1, <5>2
      <4> QED
        BY <3>1, <4>1
    <3>2. CASE \E q \in Pools : owner[q][<<g, o>>] = ExcludedOwner
      BY <1>6, <2>0, <2>3, <3>2
    <3> QED
      BY <2>3, <3>1, <3>2 DEF Inv, NoLeak
  <2> QED
    BY <1>5, <2>1, <2>2, <2>3 DEF set
<1> QED
  BY <1>5, <1>7, <1>9, <1>10 DEF Inv

(* A step that finds the range full preserves the invariant. *)
LEMMA RangeFullInv ==
    ASSUME Inv, NEW f \in Families, NEW p \in Pools, NEW skipped \in SUBSET Offsets(f),
           RangeFull(f, p, skipped),
           UNCHANGED <<excluded, transit, leases>>,
           phase' \in [Clients -> {"idle", "ipv4", "rollback"}],
           pool' \in [Clients -> Pools],
           TransitIsOne'
    PROVE  Inv'
<1>1. /\ bits' \in [Families -> SUBSET Nat]
      /\ \A g \in Families : bits'[g] \subseteq Offsets(g)
      /\ count' \in [Families -> Int]
      /\ CountIsExact'
      /\ bits'[f] = bits[f] \cup skipped
      /\ \A g \in Families : g # f => bits'[g] = bits[g]
      /\ owner' \in [Pools -> [Addresses -> Owners]]
      /\ \A o \in skipped : owner'[p][<<f, o>>] = ExcludedOwner
      /\ \A q \in Pools, y \in Addresses :
            owner[q][y] = ExcludedOwner => owner'[q][y] = ExcludedOwner
  BY RangeFullKeeps, Zenon DEF Inv
<1>2. TypeOK'
  BY <1>1 DEF Inv, TypeOK
<1>3. \A d \in Clients : Holds(d)' = Holds(d)
  BY DEF Holds
<1>4. NoDoubleAllocation'
  <2>1. \A d \in Clients : \A a \in Holds(d) : a[1] \in Families
    BY AddressPairs DEF Inv, TypeOK, Holds
  <2>2. \A d \in Clients : \A a \in Holds(d) : a[2] \in bits'[a[1]]
    BY <1>1, <2>1 DEF Inv, NoDoubleAllocation
  <2> QED
    BY <1>3, <2>2 DEF Inv, NoDoubleAllocation
<1>5. NoLeak'
  <2> SUFFICES ASSUME NEW g \in Families, NEW o \in bits'[g]
               PROVE  \/ \E d \in Clients : <<g, o>> \in Holds(d)'
                      \/ \E q \in Pools : owner'[q][<<g, o>>] = ExcludedOwner
    BY DEF NoLeak
  <2>1. <<g, o>> \in Addresses
    BY <1>1, AddressPairs, Zenon
  <2>2. CASE g = f /\ o \in skipped
    BY <1>1, <2>2
  <2>3. CASE o \in bits[g]
    <3>1. CASE \E d \in Clients : <<g, o>> \in Holds(d)
      BY <1>3, <3>1
    <3>2. CASE \E q \in Pools : owner[q][<<g, o>>] = ExcludedOwner
      BY <1>1, <2>1, <3>2
    <3> QED
      BY <2>3, <3>1, <3>2 DEF Inv, NoLeak
  <2> QED
    BY <1>1, <2>2, <2>3
<1> QED
  BY <1>1, <1>2, <1>4, <1>5 DEF Inv

(* A step that releases an address, and takes it from whoever has it,       *)
(* preserves the invariant.                                                 *)
LEMMA ReleaseIpInv ==
    ASSUME Inv, NEW a \in Addresses, NEW p \in Pools, ReleaseIp(a, p),
           excluded' = excluded,
           phase' \in [Clients -> {"idle", "ipv4", "rollback"}],
           pool' \in [Clients -> Pools],
           transit' \in [Clients -> SUBSET Addresses],
           leases' \in [Clients -> SUBSET (Addresses \X Pools)],
           TransitIsOne',
           \A d \in Clients : /\ Holds(d)' = Holds(d) \ {a}
                              /\ leases'[d] \subseteq leases[d]
                              /\ transit'[d] \subseteq transit[d]
    PROVE  Inv'
<1>1. ClearBit(a[1], a[2]) /\ owner' = [owner EXCEPT ![p][a] = NoOwner]
  BY DEF ReleaseIp, ReleaseOwner
<1>2. /\ bits' \in [Families -> SUBSET Nat]
      /\ \A g \in Families : bits'[g] \subseteq Offsets(g)
      /\ count' \in [Families -> Int]
      /\ CountIsExact'
      /\ bits'[a[1]] = bits[a[1]] \ {a[2]}
      /\ \A g \in Families : g # a[1] => bits'[g] = bits[g]
  BY <1>1, ClearBitCounts, Zenon DEF Inv
<1>3. owner' \in [Pools -> [Addresses -> Owners]]
  BY <1>1 DEF Inv, TypeOK, Owners
<1>4. \A q \in Pools, y \in Addresses : y # a => owner'[q][y] = owner[q][y]
  BY <1>1 DEF Inv, TypeOK
<1>5. TypeOK'
  BY <1>2, <1>3 DEF Inv, TypeOK
<1>6. NoDoubleAllocation'
  <2>1. \A d, e \in Clients : d # e => Holds(d)' \cap Holds(e)' = {}
    BY DEF Inv, NoDoubleAllocation
  <2>2. \A d \in Clients : \A l, m \in leases'[d] : l[1] = m[1] => l = m
    BY DEF Inv, NoDoubleAllocation
  <2>3. \A d \in Clients : {l[1] : l \in leases'[d]} \cap transit'[d] = {}
    BY DEF Inv, NoDoubleAllocation
  <2>4. \A d \in Clients : \A x \in Holds(d)' : x[2] \in bits'[x[1]]
    <3> SUFFICES ASSUME NEW d \in Clients, NEW x \in Holds(d)' PROVE x[2] \in bits'[x[1]]
      OBVIOUS
    <3>1. x \in Holds(d) /\ x # a
      OBVIOUS
    <3>2. x \in Addresses
      BY <3>1 DEF Inv, TypeOK, Holds
    <3>3. x[2] \in bits[x[1]]
      BY <3>1 DEF Inv, NoDoubleAllocation
    <3>4. /\ x[1] \in Families /\ x = <<x[1], x[2]>>
          /\ a[1] \in Families /\ a = <<a[1], a[2]>>
      BY <3>2, AddressPairs, Zenon
    <3>5. x[1] # a[1] \/ x[2] # a[2]
      BY <3>1, <3>4, Zenon
    <3> QED
      BY <1>2, <3>3, <3>4, <3>5
  <2> QED
    BY <2>1, <2>2, <2>3, <2>4 DEF NoDoubleAllocation
<1>7. NoLeak'
  <2> SUFFICES ASSUME NEW g \in Families, NEW o \in bits'[g]
               PROVE  \/ \E d \in Clients : <<g, o>> \in Holds(d)'
                      \/ \E q \in Pools : owner'[q][<<g, o>>] = ExcludedOwner
    BY DEF NoLeak
  <2>1. <<g, o>> \in Addresses
    BY <1>2, AddressPairs, Zenon
  <2>2. <<g, o>> # a /\ o \in bits[g]
    BY <1>2
  <2> QED
    BY <1>4, <2>1, <2>2 DEF Inv, NoLeak
<1> QED
  BY <1>2, <1>5, <1>6, <1>7 DEF Inv

-----------------------------------------------------------------------------
(* The initial state satisfies the invariant. *)
LEMMA InitInv == Init => Inv
<1> SUFFICES ASSUME Init PROVE Inv
  OBVIOUS
<1> USE DEF Init
<1>1. TypeOK
  BY IpamAssumption DEF TypeOK, Owners, IpamAssumption
<1>2. CountIsExact
  <2>1. \A f \in Families : bits[f] = {} /\ count[f] = 0
    OBVIOUS
  <2> QED
    BY <2>1, FS_EmptySet DEF CountIsExact
<1>3. TransitIsOne
  BY DEF TransitIsOne
<1>4. NoDoubleAllocation
  <2>1. \A c \in Clients : Holds(c) = {} /\ leases[c] = {} /\ transit[c] = {}
    BY DEF Holds
  <2> QED
    BY <2>1 DEF NoDoubleAllocation
<1>5. NoLeak
  BY DEF NoLeak
<1> QED
  BY <1>1, <1>2, <1>3, <1>4, <1>5 DEF Inv

(* An exclusion touches neither bitmaps nor leases. *)
LEMMA ExcludeInv ==
    ASSUME Inv, NEW p \in Pools, NEW a \in Addresses, Exclude(p, a)
    PROVE  Inv'
<1>1. TypeOK'
  BY DEF Inv, TypeOK, Exclude
<1>2. \A d \in Clients : Holds(d)' = Holds(d)
  BY DEF Exclude, Holds
<1>3. CountIsExact' /\ TransitIsOne'
  BY DEF Inv, Exclude, CountIsExact, TransitIsOne
<1>4. NoDoubleAllocation'
  BY <1>2 DEF Inv, Exclude, NoDoubleAllocation
<1>5. NoLeak'
  BY <1>2 DEF Inv, Exclude, NoLeak
<1> QED
  BY <1>1, <1>3, <1>4, <1>5 DEF Inv

(* The facts that a lease of one more address needs: what a client has is    *)
(* in the list of leases once, apart from the one in transit.               *)
LEMMA LeaseIsNew ==
    ASSUME Inv, NEW c \in Clients, NEW x \in Addresses, x[2] \notin bits[x[1]],
           NEW q \in Pools, phase[c] = "idle",
           leases' = [leases EXCEPT ![c] = @ \cup {<<x, q>>}],
           transit' = transit
    PROVE  /\ leases' \in [Clients -> SUBSET (Addresses \X Pools)]
           /\ \A d \in Clients : d # c => leases'[d] = leases[d] /\ transit'[d] = transit[d]
           /\ Holds(c)' = Holds(c) \cup {x}
           /\ \A l, m \in leases'[c] : l[1] = m[1] => l = m
           /\ {l[1] : l \in leases'[c]} \cap transit'[c] = {}
<1>1. leases'[c] = leases[c] \cup {<<x, q>>}
  BY DEF Inv, TypeOK
<1>2. transit'[c] = {}
  BY DEF Inv, TransitIsOne
<1>3. \A l \in leases[c] : l[1] # x
  BY FreeIsUnheld DEF Inv, Holds
<1>4. leases' \in [Clients -> SUBSET (Addresses \X Pools)]
  BY DEF Inv, TypeOK
<1>5. \A d \in Clients : d # c => leases'[d] = leases[d] /\ transit'[d] = transit[d]
  BY DEF Inv, TypeOK
<1>6. Holds(c)' = Holds(c) \cup {x}
  <2>1. {l[1] : l \in leases[c] \cup {<<x, q>>}} = {l[1] : l \in leases[c]} \cup {x}
    <3>1. <<x, q>>[1] = x
      OBVIOUS
    <3> QED
      BY <3>1, Zenon
  <2>2. Holds(c)' = {l[1] : l \in leases'[c]} \cup transit'[c]
    BY DEF Holds
  <2>3. Holds(c) = {l[1] : l \in leases[c]} \cup transit[c]
    BY DEF Holds
  <2> QED
    BY <1>1, <2>1, <2>2, <2>3
<1>7. \A l, m \in leases'[c] : l[1] = m[1] => l = m
  BY <1>1, <1>3 DEF Inv, NoDoubleAllocation
<1> QED
  BY <1>2, <1>4, <1>5, <1>6, <1>7

(* allocate for one family. *)
LEMMA AllocateOneInv ==
    ASSUME Inv, NEW c \in Clients, NEW f \in Families, NEW p \in Pools, AllocateOne(c, f, p)
    PROVE  Inv'
<1>1. /\ phase[c] = "idle"
      /\ UNCHANGED <<excluded, phase, pool, transit>>
      /\ phase' \in [Clients -> {"idle", "ipv4", "rollback"}]
      /\ pool' \in [Clients -> Pools]
      /\ transit' \in [Clients -> SUBSET Addresses]
      /\ TransitIsOne'
  BY DEF AllocateOne, Inv, TypeOK, TransitIsOne
<1>2. ASSUME NEW offset \in Offsets(f), NEW skipped \in SUBSET Offsets(f),
             TakeNext(c, f, p, offset, skipped),
             leases' = [leases EXCEPT ![c] = @ \cup {Lease(<<f, offset>>)}]
      PROVE  Inv'
  <2> DEFINE x == <<f, offset>>
  <2>1. x \in Addresses /\ x[2] \notin bits[x[1]]
    BY <1>2, AddressPairs DEF TakeNext, Free
  <2>2. leases' = [leases EXCEPT ![c] = @ \cup {<<x, PoolDefault>>}]
    BY <1>2 DEF Lease
  <2>3. PoolDefault \in Pools
    BY IpamAssumption DEF IpamAssumption
  <2> HIDE DEF x
  <2>4. /\ leases' \in [Clients -> SUBSET (Addresses \X Pools)]
        /\ \A d \in Clients : d # c => leases'[d] = leases[d] /\ transit'[d] = transit[d]
        /\ Holds(c)' = Holds(c) \cup {x}
        /\ \A l, m \in leases'[c] : l[1] = m[1] => l = m
        /\ {l[1] : l \in leases'[c]} \cap transit'[c] = {}
    BY <1>1, <2>1, <2>2, <2>3, LeaseIsNew, Zenon
  <2>5. /\ offset \in Free(f) /\ skipped \in SUBSET Free(f) /\ offset \notin skipped
        /\ SetBits(f, skipped \cup {offset})
        /\ RegisterOwner(p, f, offset, c, skipped)
    BY <1>2 DEF TakeNext
  <2>6. excluded' = excluded
    BY <1>1
  <2>7. Holds(c)' = Holds(c) \cup {<<f, offset>>}
    BY <2>4 DEF x
  <2> QED
    BY <1>1, <2>4, <2>5, <2>6, <2>7, GrantInv, Zenon
<1>3. ASSUME NEW skipped \in SUBSET Offsets(f), RangeFull(f, p, skipped), UNCHANGED leases
      PROVE  Inv'
  BY <1>1, <1>3, RangeFullInv
<1> QED
  BY <1>2, <1>3 DEF AllocateOne

(* allocate_ip. *)
LEMMA AllocateSpecificInv ==
    ASSUME Inv, NEW c \in Clients, NEW a \in Addresses, NEW p \in Pools,
           AllocateSpecific(c, a, p)
    PROVE  Inv'
<1>1. /\ phase[c] = "idle"
      /\ UNCHANGED <<excluded, phase, pool, transit>>
      /\ phase' \in [Clients -> {"idle", "ipv4", "rollback"}]
      /\ pool' \in [Clients -> Pools]
      /\ transit' \in [Clients -> SUBSET Addresses]
      /\ TransitIsOne'
  BY DEF AllocateSpecific, Inv, TypeOK, TransitIsOne
<1> DEFINE f == a[1]
           offset == a[2]
           none == {}
<1>2. f \in Families /\ offset \in Offsets(f) /\ a = <<f, offset>> /\ none \in SUBSET Offsets(f)
  BY AddressPairs
<1>3. /\ offset \in Free(f) /\ none \in SUBSET Free(f) /\ offset \notin none
      /\ SetBits(f, none \cup {offset})
      /\ RegisterOwner(p, f, offset, c, none)
      /\ leases' = [leases EXCEPT ![c] = @ \cup {<<a, p>>}]
      /\ excluded' = excluded
  <2>1. none \cup {offset} = {offset}
    OBVIOUS
  <2> QED
    BY <2>1 DEF AllocateSpecific
<1>4. a[2] \notin bits[a[1]]
  BY <1>3 DEF Free
<1>5. /\ leases' \in [Clients -> SUBSET (Addresses \X Pools)]
      /\ \A d \in Clients : d # c => leases'[d] = leases[d] /\ transit'[d] = transit[d]
      /\ Holds(c)' = Holds(c) \cup {a}
      /\ \A l, m \in leases'[c] : l[1] = m[1] => l = m
      /\ {l[1] : l \in leases'[c]} \cap transit'[c] = {}
  BY <1>1, <1>3, <1>4, LeaseIsNew, Zenon
<1> HIDE DEF f, offset, none
<1>6. Holds(c)' = Holds(c) \cup {<<f, offset>>}
  BY <1>2, <1>5
<1> QED
  BY <1>1, <1>2, <1>3, <1>5, <1>6, GrantInv, Zenon

(* The types of a request for both families after any of its steps. *)
LEMMA RequestTypes ==
    ASSUME Inv, NEW c \in Clients, NEW ph \in {"idle", "ipv4", "rollback"},
           NEW T \in SUBSET Addresses,
           ph = "idle" => T = {},
           ph # "idle" => \E a \in Addresses : T = {a},
           phase' = [phase EXCEPT ![c] = ph],
           transit' = [transit EXCEPT ![c] = T]
    PROVE  /\ phase' \in [Clients -> {"idle", "ipv4", "rollback"}]
           /\ transit' \in [Clients -> SUBSET Addresses]
           /\ transit'[c] = T
           /\ \A d \in Clients : d # c => transit'[d] = transit[d]
           /\ TransitIsOne'
<1>1. /\ phase' \in [Clients -> {"idle", "ipv4", "rollback"}]
      /\ transit' \in [Clients -> SUBSET Addresses]
      /\ phase'[c] = ph /\ transit'[c] = T
      /\ \A d \in Clients : d # c => transit'[d] = transit[d] /\ phase'[d] = phase[d]
  BY DEF Inv, TypeOK
<1>2. TransitIsOne'
  <2> SUFFICES ASSUME NEW d \in Clients
               PROVE  /\ phase'[d] = "idle" => transit'[d] = {}
                      /\ phase'[d] # "idle" => \E a \in Addresses : transit'[d] = {a}
    BY DEF TransitIsOne
  <2>1. CASE d = c
    BY <1>1, <2>1
  <2>2. CASE d # c
    BY <1>1, <2>2 DEF Inv, TransitIsOne
  <2> QED
    BY <2>1, <2>2
<1> QED
  BY <1>1, <1>2

(* The IPv6 half of a request for both families. *)
LEMMA AllocateIpv6Inv ==
    ASSUME Inv, NEW c \in Clients, NEW p \in Pools, AllocateIpv6(c, p)
    PROVE  Inv'
<1> DEFINE f == "ipv6"
<1>1. f \in Families
  BY IpamAssumption DEF IpamAssumption
<1>2. /\ phase[c] = "idle" /\ excluded' = excluded /\ leases' = leases
      /\ leases' \in [Clients -> SUBSET (Addresses \X Pools)]
  BY DEF AllocateIpv6, Inv, TypeOK
<1>3. ASSUME NEW offset \in Offsets(f), NEW skipped \in SUBSET Offsets(f),
             TakeNext(c, f, p, offset, skipped),
             phase' = [phase EXCEPT ![c] = "ipv4"],
             pool' = [pool EXCEPT ![c] = p],
             transit' = [transit EXCEPT ![c] = {<<f, offset>>}]
      PROVE  Inv'
  <2> DEFINE x == <<f, offset>>
  <2>1. x \in Addresses /\ x[2] \notin bits[x[1]]
    BY <1>1, <1>3, AddressPairs DEF TakeNext, Free
  <2>2. /\ offset \in Free(f) /\ skipped \in SUBSET Free(f) /\ offset \notin skipped
        /\ SetBits(f, skipped \cup {offset})
        /\ RegisterOwner(p, f, offset, c, skipped)
    BY <1>3 DEF TakeNext
  <2>3. transit' = [transit EXCEPT ![c] = {x}]
    BY <1>3
  <2> HIDE DEF x, f
  <2>4. /\ phase' \in [Clients -> {"idle", "ipv4", "rollback"}]
        /\ transit' \in [Clients -> SUBSET Addresses]
        /\ transit'[c] = {x}
        /\ \A d \in Clients : d # c => transit'[d] = transit[d]
        /\ TransitIsOne'
    <3> DEFINE T == {x}
    <3>1. T \in SUBSET Addresses /\ \E a \in Addresses : T = {a}
      BY <2>1
    <3>2. transit' = [transit EXCEPT ![c] = T]
      BY <2>3
    <3> HIDE DEF T
    <3>3. /\ phase' \in [Clients -> {"idle", "ipv4", "rollback"}]
          /\ transit' \in [Clients -> SUBSET Addresses]
          /\ transit'[c] = T
          /\ \A d \in Clients : d # c => transit'[d] = transit[d]
          /\ TransitIsOne'
      BY <1>3, <3>1, <3>2, RequestTypes
    <3> QED
      BY <3>3 DEF T
  <2>5. pool' \in [Clients -> Pools]
    BY <1>3 DEF Inv, TypeOK
  <2>6. \A d \in Clients : d # c => leases'[d] = leases[d] /\ transit'[d] = transit[d]
    BY <1>2, <2>4
  <2>7. leases'[c] = leases[c] /\ transit[c] = {}
    BY <1>2 DEF Inv, TransitIsOne
  <2>8. Holds(c)' = Holds(c) \cup {<<f, offset>>}
    BY <2>4, <2>7 DEF Holds, x
  <2>9. \A l, m \in leases'[c] : l[1] = m[1] => l = m
    BY <2>7 DEF Inv, NoDoubleAllocation
  <2>10. {l[1] : l \in leases'[c]} \cap transit'[c] = {}
    <3>1. \A l \in leases[c] : l[1] # x
      BY <2>1, FreeIsUnheld DEF Inv, Holds
    <3> QED
      BY <2>4, <2>7, <3>1
  <2> QED
    BY <1>1, <1>2, <2>2, <2>4, <2>5, <2>6, <2>8, <2>9, <2>10, GrantInv, Zenon
<1>4. ASSUME NEW skipped \in SUBSET Offsets(f), RangeFull(f, p, skipped),
             UNCHANGED <<phase, pool, transit>>
      PROVE  Inv'
  <2>1. TransitIsOne' /\ UNCHANGED <<excluded, transit, leases>>
    BY <1>2, <1>4 DEF Inv, TransitIsOne
  <2>2. /\ phase' \in [Clients -> {"idle", "ipv4", "rollback"}]
        /\ pool' \in [Clients -> Pools]
    BY <1>4 DEF Inv, TypeOK
  <2> QED
    BY <1>1, <1>4, <2>1, <2>2, RangeFullInv
<1> QED
  BY <1>3, <1>4 DEF AllocateIpv6

(* The IPv4 half: the answer turns the address in transit into a lease. *)
LEMMA AllocateIpv4Inv ==
    ASSUME Inv, NEW c \in Clients, AllocateIpv4(c)
    PROVE  Inv'
<1> DEFINE f == "ipv4"
           p == pool[c]
<1>1. f \in Families /\ p \in Pools /\ PoolDefault \in Pools
  BY IpamAssumption DEF IpamAssumption, Inv, TypeOK
<1>2. /\ phase[c] = "ipv4" /\ excluded' = excluded /\ pool' = pool
      /\ pool' \in [Clients -> Pools]
  BY DEF AllocateIpv4, Inv, TypeOK
<1>3. PICK a \in Addresses : transit[c] = {a}
  BY <1>2 DEF Inv, TransitIsOne
<1>4. ASSUME NEW offset \in Offsets(f), NEW skipped \in SUBSET Offsets(f),
             TakeNext(c, f, p, offset, skipped),
             phase' = [phase EXCEPT ![c] = "idle"],
             transit' = [transit EXCEPT ![c] = {}],
             leases' = [leases EXCEPT ![c] =
                @ \cup {Lease(y) : y \in transit[c]} \cup {Lease(<<f, offset>>)}]
      PROVE  Inv'
  <2> DEFINE x == <<f, offset>>
             la == <<a, PoolDefault>>
             lx == <<x, PoolDefault>>
  <2>1. x \in Addresses /\ x[2] \notin bits[x[1]]
    BY <1>1, <1>4, AddressPairs DEF TakeNext, Free
  <2>2. /\ offset \in Free(f) /\ skipped \in SUBSET Free(f) /\ offset \notin skipped
        /\ SetBits(f, skipped \cup {offset})
        /\ RegisterOwner(p, f, offset, c, skipped)
    BY <1>4 DEF TakeNext
  <2>3. la \in Addresses \X Pools /\ lx \in Addresses \X Pools /\ la[1] = a /\ lx[1] = x
    BY <1>1, <1>3, <2>1
  <2>4. leases' = [leases EXCEPT ![c] = leases[c] \cup {la} \cup {lx}]
    BY <1>3, <1>4 DEF Lease
  <2> HIDE DEF x, f, p, la, lx
  <2>5. /\ leases' \in [Clients -> SUBSET (Addresses \X Pools)]
        /\ leases'[c] = leases[c] \cup {la} \cup {lx}
        /\ \A d \in Clients : d # c => leases'[d] = leases[d]
    BY <2>3, <2>4 DEF Inv, TypeOK
  <2>6. /\ phase' \in [Clients -> {"idle", "ipv4", "rollback"}]
        /\ transit' \in [Clients -> SUBSET Addresses]
        /\ transit'[c] = {}
        /\ \A d \in Clients : d # c => transit'[d] = transit[d]
        /\ TransitIsOne'
    BY <1>4, RequestTypes
  <2>7. \A d \in Clients : d # c => leases'[d] = leases[d] /\ transit'[d] = transit[d]
    BY <2>5, <2>6
  <2>8. /\ \A l \in leases[c] : l[1] # x /\ l[1] # a
        /\ x # a
    <3>1. x \notin Holds(c)
      BY <2>1, FreeIsUnheld DEF Inv
    <3>2. \A l \in leases[c] : l[1] \in Holds(c)
      BY DEF Holds
    <3>3. a \in Holds(c)
      BY <1>3 DEF Holds
    <3>4. {l[1] : l \in leases[c]} \cap {a} = {}
      BY <1>3 DEF Inv, NoDoubleAllocation
    <3>5. \A l \in leases[c] : l[1] # a
      BY <3>4
    <3> QED
      BY <3>1, <3>2, <3>3, <3>5, Zenon
  <2>9. Holds(c)' = Holds(c) \cup {<<f, offset>>}
    <3>1. {l[1] : l \in leases[c] \cup {la} \cup {lx}} = {l[1] : l \in leases[c]} \cup {a} \cup {x}
      BY <2>3, Zenon
    <3>2. Holds(c)' = {l[1] : l \in leases'[c]} \cup transit'[c]
      BY DEF Holds
    <3>3. Holds(c) = {l[1] : l \in leases[c]} \cup transit[c]
      BY DEF Holds
    <3> QED
      BY <1>3, <2>5, <2>6, <3>1, <3>2, <3>3 DEF x
  <2>10. \A l, m \in leases'[c] : l[1] = m[1] => l = m
    <3>1. \A l, m \in leases[c] : l[1] = m[1] => l = m
      BY DEF Inv, NoDoubleAllocation
    <3> QED
      BY <2>3, <2>5, <2>8, <3>1
  <2>11. {l[1] : l \in leases'[c]} \cap transit'[c] = {}
    BY <2>6
  <2> QED
    BY <1>1, <1>2, <2>2, <2>5, <2>6, <2>7, <2>9, <2>10, <2>11, GrantInv, Zenon
<1>5. ASSUME NEW skipped \in SUBSET Offsets(f), RangeFull(f, p, skipped),
             phase' = [phase EXCEPT ![c] = "rollback"],
             UNCHANGED <<transit, leases>>
      PROVE  Inv'
  <2>1. UNCHANGED <<excluded, transit, leases>>
    BY <1>2, <1>5
  <2>2. /\ phase' \in [Clients -> {"idle", "ipv4", "rollback"}]
        /\ TransitIsOne'
    BY <1>2, <1>5 DEF Inv, TypeOK, TransitIsOne
  <2> HIDE DEF f, p
  <2> QED
    BY <1>1, <1>2, <1>5, <2>1, <2>2, RangeFullInv
<1> QED
  BY <1>4, <1>5 DEF AllocateIpv4

(* The rollback of the IPv6 half. *)
LEMMA RollbackInv ==
    ASSUME Inv, NEW c \in Clients, Rollback(c)
    PROVE  Inv'
<1>1. PICK a \in transit[c] : ReleaseIp(a, Lease(a)[2])
  BY DEF Rollback
<1>2. /\ phase[c] = "rollback" /\ excluded' = excluded
      /\ leases' = leases /\ pool' = pool
      /\ leases' \in [Clients -> SUBSET (Addresses \X Pools)]
      /\ pool' \in [Clients -> Pools]
  BY DEF Rollback, Inv, TypeOK
<1>3. a \in Addresses /\ transit[c] = {a}
  BY <1>1, <1>2 DEF Inv, TransitIsOne
<1>4. PoolDefault \in Pools /\ ReleaseIp(a, PoolDefault)
  BY <1>1, IpamAssumption DEF IpamAssumption, Lease
<1>5. /\ phase' \in [Clients -> {"idle", "ipv4", "rollback"}]
      /\ transit' \in [Clients -> SUBSET Addresses]
      /\ transit'[c] = {}
      /\ \A d \in Clients : d # c => transit'[d] = transit[d]
      /\ TransitIsOne'
  <2>1. phase' = [phase EXCEPT ![c] = "idle"] /\ transit' = [transit EXCEPT ![c] = {}]
    BY DEF Rollback
  <2> QED
    BY <2>1, RequestTypes
<1>6. \A d \in Clients : /\ Holds(d)' = Holds(d) \ {a}
                         /\ leases'[d] \subseteq leases[d]
                         /\ transit'[d] \subseteq transit[d]
  <2> SUFFICES ASSUME NEW d \in Clients
               PROVE  /\ Holds(d)' = Holds(d) \ {a}
                      /\ leases'[d] \subseteq leases[d]
                      /\ transit'[d] \subseteq transit[d]
    OBVIOUS
  <2>1. CASE d = c
    <3>1. {l[1] : l \in leases[c]} \cap {a} = {}
      BY <1>3 DEF Inv, NoDoubleAllocation
    <3>2. Holds(c) = {l[1] : l \in leases[c]} \cup {a} /\ Holds(c)' = {l[1] : l \in leases[c]}
      BY <1>2, <1>3, <1>5 DEF Holds
    <3>3. Holds(c)' = Holds(c) \ {a}
      BY <3>1, <3>2
    <3> QED
      BY <1>2, <1>5, <2>1, <3>3
  <2>2. CASE d # c
    <3>1. a \in Holds(c)
      BY <1>3 DEF Holds
    <3>2. a \notin Holds(d)
      BY <2>2, <3>1 DEF Inv, NoDoubleAllocation
    <3>3. Holds(d)' = Holds(d)
      BY <1>2, <1>5, <2>2 DEF Holds
    <3> QED
      BY <1>2, <1>5, <2>2, <3>2, <3>3
  <2> QED
    BY <2>1, <2>2
<1> QED
  BY <1>2, <1>3, <1>4, <1>5, <1>6, ReleaseIpInv, Zenon

(* release_ip for a lease. *)
LEMMA ReleaseInv ==
    ASSUME Inv, NEW c \in Clients, NEW lease \in leases[c], Release(c, lease)
    PROVE  Inv'
<1> DEFINE a == lease[1]
           p == lease[2]
<1>1. lease \in Addresses \X Pools /\ a \in Addresses /\ p \in Pools
  BY DEF Inv, TypeOK
<1>2. /\ ReleaseIp(a, p) /\ excluded' = excluded /\ transit' = transit
      /\ phase' \in [Clients -> {"idle", "ipv4", "rollback"}]
      /\ pool' \in [Clients -> Pools]
      /\ transit' \in [Clients -> SUBSET Addresses]
      /\ leases' \in [Clients -> SUBSET (Addresses \X Pools)]
      /\ TransitIsOne'
  BY DEF Release, Inv, TypeOK, TransitIsOne
<1>3. /\ leases'[c] = leases[c] \ {lease}
      /\ \A d \in Clients : d # c => leases'[d] = leases[d]
  BY DEF Release, Inv, TypeOK
<1>4. \A d \in Clients : /\ Holds(d)' = Holds(d) \ {a}
                         /\ leases'[d] \subseteq leases[d]
                         /\ transit'[d] \subseteq transit[d]
  <2> SUFFICES ASSUME NEW d \in Clients PROVE Holds(d)' = Holds(d) \ {a}
    BY <1>2, <1>3
  <2>1. CASE d = c
    <3>1. \A l \in leases[c] : l[1] = a => l = lease
      BY DEF Inv, NoDoubleAllocation
    <3>2. {l[1] : l \in leases[c] \ {lease}} = {l[1] : l \in leases[c]} \ {a}
      BY <3>1, Zenon
    <3>3. a \notin transit[c]
      <4>1. a \in {l[1] : l \in leases[c]}
        OBVIOUS
      <4> QED
        BY <4>1 DEF Inv, NoDoubleAllocation
    <3>4. Holds(c) = {l[1] : l \in leases[c]} \cup transit[c]
      BY DEF Holds
    <3>5. Holds(c)' = {l[1] : l \in leases'[c]} \cup transit'[c]
      BY DEF Holds
    <3>6. Holds(c)' = Holds(c) \ {a}
      BY <1>2, <1>3, <3>2, <3>3, <3>4, <3>5
    <3> QED
      BY <2>1, <3>6
  <2>2. CASE d # c
    <3>1. a \in Holds(c)
      BY DEF Holds
    <3>2. a \notin Holds(d)
      BY <2>2, <3>1 DEF Inv, NoDoubleAllocation
    <3>3. Holds(d)' = Holds(d)
      BY <1>2, <1>3, <2>2 DEF Holds
    <3> QED
      BY <3>2, <3>3
  <2> QED
    BY <2>1, <2>2
<1> HIDE DEF a, p
<1> QED
  BY <1>1, <1>2, <1>4, ReleaseIpInv, Zenon

(* release_ip for an address that nobody has. *)
LEMMA ReleaseUnheldInv ==
    ASSUME Inv, NEW a \in Addresses, NEW p \in Pools, ReleaseUnheld(a, p)
    PROVE  Inv'
<1>1. /\ ReleaseIp(a, p) /\ excluded' = excluded /\ transit' = transit /\ leases' = leases
      /\ phase' \in [Clients -> {"idle", "ipv4", "rollback"}]
      /\ pool' \in [Clients -> Pools]
      /\ transit' \in [Clients -> SUBSET Addresses]
      /\ leases' \in [Clients -> SUBSET (Addresses \X Pools)]
      /\ TransitIsOne'
  BY DEF ReleaseUnheld, Inv, TypeOK, TransitIsOne
<1>2. \A d \in Clients : Holds(d)' = Holds(d) /\ a \notin Holds(d)
  BY <1>1 DEF ReleaseUnheld, Holds
<1>3. \A d \in Clients : /\ Holds(d)' = Holds(d) \ {a}
                         /\ leases'[d] \subseteq leases[d]
                         /\ transit'[d] \subseteq transit[d]
  BY <1>1, <1>2
<1> QED
  BY <1>1, <1>3, ReleaseIpInv, Zenon

-----------------------------------------------------------------------------
(* Every step preserves the invariant. *)
LEMMA NextInv == Inv /\ [Next]_vars => Inv'
<1> SUFFICES ASSUME Inv, [Next]_vars PROVE Inv'
  OBVIOUS
<1>1. CASE UNCHANGED vars
  <2>1. \A d \in Clients : Holds(d)' = Holds(d)
    BY <1>1 DEF vars, Holds
  <2>2. TypeOK' /\ CountIsExact' /\ TransitIsOne'
    BY <1>1 DEF vars, Inv, TypeOK, CountIsExact, TransitIsOne
  <2>3. NoDoubleAllocation' /\ NoLeak'
    BY <1>1, <2>1 DEF vars, Inv, NoDoubleAllocation, NoLeak
  <2> QED
    BY <2>2, <2>3 DEF Inv
<1>2. ASSUME NEW p \in Pools, NEW a \in Addresses, Exclude(p, a) \/ ReleaseUnheld(a, p)
      PROVE  Inv'
  BY <1>2, ExcludeInv, ReleaseUnheldInv
<1>3. ASSUME NEW c \in Clients, NEW p \in Pools,
             \/ \E f \in Families : AllocateOne(c, f, p)
             \/ AllocateIpv6(c, p)
             \/ \E a \in Addresses : AllocateSpecific(c, a, p)
      PROVE  Inv'
  BY <1>3, AllocateOneInv, AllocateIpv6Inv, AllocateSpecificInv
<1>4. ASSUME NEW c \in Clients, AllocateIpv4(c) \/ Rollback(c)
      PROVE  Inv'
  BY <1>4, AllocateIpv4Inv, RollbackInv
<1>5. ASSUME NEW c \in Clients, NEW lease \in leases[c], Release(c, lease)
      PROVE  Inv'
  BY <1>5, ReleaseInv
<1> QED
  BY <1>1, <1>2, <1>3, <1>4, <1>5 DEF Next

(* The invariant holds in every state of the service. *)
THEOREM Invariance == Spec => []Inv
<1>1. Init => Inv
  BY InitInv
<1>2. Inv /\ [Next]_vars => Inv'
  BY NextInv
<1> QED
  BY <1>1, <1>2, PTL DEF Spec

(* For any clients, pools and bitmap sizes the tables keep their types and   *)
(* no bit beyond a bitmap's capacity is set (bitmap.rs).                     *)
THEOREM TypeCorrect == Spec => []TypeOK
<1>1. Inv => TypeOK
  BY DEF Inv
<1> QED
  BY <1>1, Invariance, PTL

(* However allocations, rollbacks and releases interleave, the allocator's  *)
(* count is the number of set bits (bitmap.rs).                             *)
THEOREM CountExact == Spec => []CountIsExact
<1>1. Inv => CountIsExact
  BY DEF Inv
<1> QED
  BY <1>1, Invariance, PTL

(* No address is ever given to two clients, or twice to one (service.rs     *)
(* allocate_next, allocate_ip).                                             *)
THEOREM Exclusive == Spec => []NoDoubleAllocation
<1>1. Inv => NoDoubleAllocation
  BY DEF Inv
<1> QED
  BY <1>1, Invariance, PTL

(* No address leaks: a set bit belongs to a client or to an exclusion       *)
(* (service.rs allocate_next and its rollback).                             *)
THEOREM NothingLeaks == Spec => []NoLeak
<1>1. Inv => NoLeak
  BY DEF Inv
<1> QED
  BY <1>1, Invariance, PTL

-----------------------------------------------------------------------------
(* The owner tables.  OwnersAreTrue is not inductive: a lease of another     *)
(* pool is released in that pool's table, so the default pool's must not     *)
(* name a client for its address either.                                     *)
OtherPoolsLeaseIsUnowned ==
    \A c \in Clients : \A l \in leases[c] :
        l[2] # PoolDefault => owner[PoolDefault][l[1]] \notin Clients

OwnerInv == OwnersAreTrue /\ OtherPoolsLeaseIsUnowned

(* What register_ip_owner leaves in the tables. *)
LEMMA RegisterOwnerIs ==
    ASSUME TypeOK, NEW p \in Pools, NEW f \in Families, NEW offset \in Offsets(f),
           NEW c \in Clients, NEW skipped \in SUBSET Offsets(f), offset \notin skipped,
           RegisterOwner(p, f, offset, c, skipped)
    PROVE  /\ owner'[p][<<f, offset>>] = c
           /\ \A q \in Pools, x \in Addresses :
                 x # <<f, offset>> => owner'[q][x] \in {owner[q][x], ExcludedOwner}
           /\ \A q \in Pools, x \in Addresses : q # p => owner'[q][x] = owner[q][x]
<1> DEFINE table == [a \in Addresses |->
                       CASE a = <<f, offset>> -> c
                         [] a[1] = f /\ a[2] \in skipped -> ExcludedOwner
                         [] OTHER -> owner[p][a]]
<1>1. owner' = [owner EXCEPT ![p] = table]
  BY DEF RegisterOwner
<1>2. <<f, offset>> \in Addresses
  BY AddressPairs, Zenon
<1>3. table[<<f, offset>>] = c
  BY <1>2
<1>4. \A x \in Addresses : x # <<f, offset>> => table[x] \in {owner[p][x], ExcludedOwner}
  <2> SUFFICES ASSUME NEW x \in Addresses, x # <<f, offset>>
               PROVE  table[x] \in {owner[p][x], ExcludedOwner}
    OBVIOUS
  <2>1. CASE x[1] = f /\ x[2] \in skipped
    BY <2>1
  <2>2. CASE ~(x[1] = f /\ x[2] \in skipped)
    BY <2>2
  <2> QED
    BY <2>1, <2>2
<1> HIDE DEF table
<1>5. owner'[p] = table /\ \A q \in Pools : q # p => owner'[q] = owner[q]
  BY <1>1 DEF TypeOK
<1> QED
  BY <1>3, <1>4, <1>5

LEMMA RangeFullOwnerIs ==
    ASSUME TypeOK, NEW p \in Pools, NEW f \in Families,
           NEW skipped \in SUBSET Offsets(f), RangeFull(f, p, skipped)
    PROVE  \A q \in Pools, x \in Addresses : owner'[q][x] \in {owner[q][x], ExcludedOwner}
<1> DEFINE table == [a \in Addresses |->
                       IF a[1] = f /\ a[2] \in skipped THEN ExcludedOwner ELSE owner[p][a]]
<1>1. owner' = [owner EXCEPT ![p] = table]
  BY DEF RangeFull
<1>2. \A x \in Addresses : table[x] \in {owner[p][x], ExcludedOwner}
  OBVIOUS
<1> HIDE DEF table
<1>3. owner'[p] = table /\ \A q \in Pools : q # p => owner'[q] = owner[q]
  BY <1>1 DEF TypeOK
<1> QED
  BY <1>2, <1>3

(* A grant of an address that was free: nobody was its owner before. *)
LEMMA GrantOwner ==
    ASSUME Inv, OwnerInv, NEW c \in Clients, NEW f \in Families, NEW p \in Pools,
           NEW offset \in Free(f), NEW skipped \in SUBSET Offsets(f), offset \notin skipped,
           RegisterOwner(p, f, offset, c, skipped),
           <<f, offset>> \in Holds(c)',
           \A d \in Clients : Holds(d) \subseteq Holds(d)',
           \A d \in Clients : \A l \in leases'[d] :
               l \in leases[d] \/ l[2] = PoolDefault \/ l = <<<<f, offset>>, p>>
    PROVE  OwnerInv'
<1> DEFINE x == <<f, offset>>
<1>1. offset \in Offsets(f) /\ offset \notin bits[f]
  BY DEF Free
<1>2. x \in Addresses /\ x[2] \notin bits[x[1]]
  BY <1>1, AddressPairs
<1>3. \A d \in Clients : x \notin Holds(d)
  BY <1>2, FreeIsUnheld DEF Inv
<1>4. owner[PoolDefault][x] \notin Clients
  BY <1>2, <1>3 DEF OwnerInv, OwnersAreTrue
<1>5. /\ owner'[p][x] = c
      /\ \A q \in Pools, y \in Addresses :
            y # x => owner'[q][y] \in {owner[q][y], ExcludedOwner}
      /\ \A q \in Pools, y \in Addresses : q # p => owner'[q][y] = owner[q][y]
  BY <1>1, RegisterOwnerIs, Zenon DEF Inv
<1>6. PoolDefault \in Pools /\ ExcludedOwner \notin Clients
  BY IpamAssumption, OwnerAssumption DEF IpamAssumption, OwnerAssumption
<1>7. OwnersAreTrue'
  <2> SUFFICES ASSUME NEW a \in Addresses, NEW d \in Clients, owner'[PoolDefault][a] = d
               PROVE  a \in Holds(d)'
    BY DEF OwnersAreTrue
  <2>1. CASE a = x
    BY <1>4, <1>5, <1>6, <2>1
  <2>2. CASE a # x
    BY <1>5, <1>6, <2>2 DEF OwnerInv, OwnersAreTrue
  <2> QED
    BY <2>1, <2>2
<1>8. OtherPoolsLeaseIsUnowned'
  <2> SUFFICES ASSUME NEW d \in Clients, NEW l \in leases'[d], l[2] # PoolDefault
               PROVE  owner'[PoolDefault][l[1]] \notin Clients
    BY DEF OtherPoolsLeaseIsUnowned
  <2>1. CASE l \in leases[d]
    <3>1. l[1] \in Addresses /\ l[1] \in Holds(d)
      BY <2>1 DEF Inv, TypeOK, Holds
    <3>2. l[1] # x
      BY <1>3, <3>1
    <3>3. owner[PoolDefault][l[1]] \notin Clients
      BY <2>1 DEF OwnerInv, OtherPoolsLeaseIsUnowned
    <3> QED
      BY <1>5, <1>6, <3>1, <3>2, <3>3
  <2>2. CASE l = <<x, p>>
    <3>1. l[1] = x /\ p # PoolDefault
      BY <2>2
    <3> QED
      BY <1>2, <1>4, <1>5, <1>6, <3>1
  <2> QED
    BY <2>1, <2>2
<1> QED
  BY <1>7, <1>8 DEF OwnerInv

LEMMA RangeFullOwner ==
    ASSUME Inv, OwnerInv, NEW f \in Families, NEW p \in Pools,
           NEW skipped \in SUBSET Offsets(f), RangeFull(f, p, skipped),
           UNCHANGED <<transit, leases>>
    PROVE  OwnerInv'
<1>1. \A a \in Addresses :
          owner'[PoolDefault][a] \in {owner[PoolDefault][a], ExcludedOwner}
  BY RangeFullOwnerIs, IpamAssumption DEF IpamAssumption, Inv
<1>2. ExcludedOwner \notin Clients
  BY OwnerAssumption DEF OwnerAssumption
<1>3. \A d \in Clients : Holds(d)' = Holds(d)
  BY DEF Holds
<1>4. OwnersAreTrue'
  BY <1>1, <1>2, <1>3 DEF OwnerInv, OwnersAreTrue
<1>5. OtherPoolsLeaseIsUnowned'
  <2>1. \A d \in Clients : \A l \in leases[d] : l[1] \in Addresses
    BY DEF Inv, TypeOK
  <2> QED
    BY <1>1, <1>2, <2>1 DEF OwnerInv, OtherPoolsLeaseIsUnowned
<1> QED
  BY <1>4, <1>5 DEF OwnerInv

(* A release in the pool of the lease: the default pool's table forgets the  *)
(* address, or did not name a client for it.                                 *)
LEMMA ReleaseIpOwner ==
    ASSUME Inv, OwnerInv, NEW a \in Addresses, NEW p \in Pools, ReleaseIp(a, p),
           p = PoolDefault \/ owner[PoolDefault][a] \notin Clients,
           \A d \in Clients : Holds(d) \ {a} \subseteq Holds(d)',
           \A d \in Clients : leases'[d] \subseteq leases[d]
    PROVE  OwnerInv'
<1>1. PoolDefault \in Pools /\ NoOwner \notin Clients
  BY IpamAssumption, OwnerAssumption DEF IpamAssumption, OwnerAssumption
<1>2. owner' = [owner EXCEPT ![p][a] = NoOwner]
  BY DEF ReleaseIp, ReleaseOwner
<1>3. /\ owner'[PoolDefault][a] \notin Clients
      /\ \A x \in Addresses : x # a => owner'[PoolDefault][x] = owner[PoolDefault][x]
  BY <1>1, <1>2 DEF Inv, TypeOK
<1>4. OwnersAreTrue'
  BY <1>3 DEF OwnerInv, OwnersAreTrue
<1>5. OtherPoolsLeaseIsUnowned'
  <2>1. \A d \in Clients : \A l \in leases[d] : l[1] \in Addresses
    BY DEF Inv, TypeOK
  <2> QED
    BY <1>3, <2>1 DEF OwnerInv, OtherPoolsLeaseIsUnowned
<1> QED
  BY <1>4, <1>5 DEF OwnerInv

LEMMA AllocateOneOwner ==
    ASSUME Inv, OwnerInv, NEW c \in Clients, NEW f \in Families, NEW p \in Pools,
           AllocateOne(c, f, p)
    PROVE  OwnerInv'
<1>1. transit' = transit
  BY DEF AllocateOne
<1>2. ASSUME NEW offset \in Offsets(f), NEW skipped \in SUBSET Offsets(f),
             TakeNext(c, f, p, offset, skipped),
             leases' = [leases EXCEPT ![c] = @ \cup {Lease(<<f, offset>>)}]
      PROVE  OwnerInv'
  <2>1. /\ leases'[c] = leases[c] \cup {<<<<f, offset>>, PoolDefault>>}
        /\ \A d \in Clients : d # c => leases'[d] = leases[d]
    BY <1>2 DEF Inv, TypeOK, Lease
  <2>2. /\ offset \in Free(f) /\ offset \notin skipped
        /\ RegisterOwner(p, f, offset, c, skipped)
    BY <1>2 DEF TakeNext
  <2>3. \A d \in Clients : leases[d] \subseteq leases'[d]
    BY <2>1
  <2>4. \A d \in Clients : Holds(d) \subseteq Holds(d)'
    BY <1>1, <2>3 DEF Holds
  <2>5. <<f, offset>> \in Holds(c)'
    <3> DEFINE l == <<<<f, offset>>, PoolDefault>>
    <3>1. l \in leases'[c] /\ l[1] = <<f, offset>>
      BY <2>1
    <3> HIDE DEF l
    <3> QED
      BY <3>1 DEF Holds
  <2>6. \A d \in Clients : \A l \in leases'[d] : l \in leases[d] \/ l[2] = PoolDefault
    BY <2>1
  <2> QED
    BY <2>2, <2>4, <2>5, <2>6, GrantOwner
<1>3. ASSUME NEW skipped \in SUBSET Offsets(f), RangeFull(f, p, skipped), UNCHANGED leases
      PROVE  OwnerInv'
  BY <1>1, <1>3, RangeFullOwner
<1> QED
  BY <1>2, <1>3 DEF AllocateOne

LEMMA AllocateSpecificOwner ==
    ASSUME Inv, OwnerInv, NEW c \in Clients, NEW a \in Addresses, NEW p \in Pools,
           AllocateSpecific(c, a, p)
    PROVE  OwnerInv'
<1> DEFINE f == a[1]
           offset == a[2]
           none == {}
<1>1. f \in Families /\ a = <<f, offset>> /\ none \in SUBSET Offsets(f)
  BY AddressPairs
<1>2. /\ offset \in Free(f) /\ offset \notin none /\ RegisterOwner(p, f, offset, c, none)
      /\ transit' = transit
      /\ leases' = [leases EXCEPT ![c] = @ \cup {<<a, p>>}]
  BY DEF AllocateSpecific
<1>3. /\ leases'[c] = leases[c] \cup {<<a, p>>}
      /\ \A d \in Clients : d # c => leases'[d] = leases[d]
  BY <1>2 DEF Inv, TypeOK
<1>4. \A d \in Clients : leases[d] \subseteq leases'[d]
  BY <1>3
<1>5. \A d \in Clients : Holds(d) \subseteq Holds(d)'
  BY <1>2, <1>4 DEF Holds
<1>6. a \in Holds(c)'
  <2> DEFINE l == <<a, p>>
  <2>1. l \in leases'[c] /\ l[1] = a
    BY <1>3
  <2> HIDE DEF l
  <2> QED
    BY <2>1 DEF Holds
<1>7. \A d \in Clients : \A l \in leases'[d] : l \in leases[d] \/ l = <<a, p>>
  BY <1>3
<1> HIDE DEF f, offset, none
<1> QED
  BY <1>1, <1>2, <1>5, <1>6, <1>7, GrantOwner

LEMMA AllocateIpv6Owner ==
    ASSUME Inv, OwnerInv, NEW c \in Clients, NEW p \in Pools, AllocateIpv6(c, p)
    PROVE  OwnerInv'
<1> DEFINE f == "ipv6"
<1>1. f \in Families /\ leases' = leases /\ transit[c] = {}
  BY IpamAssumption DEF IpamAssumption, AllocateIpv6, Inv, TransitIsOne
<1>2. ASSUME NEW offset \in Offsets(f), NEW skipped \in SUBSET Offsets(f),
             TakeNext(c, f, p, offset, skipped),
             transit' = [transit EXCEPT ![c] = {<<f, offset>>}]
      PROVE  OwnerInv'
  <2>1. /\ offset \in Free(f) /\ offset \notin skipped
        /\ RegisterOwner(p, f, offset, c, skipped)
    BY <1>2 DEF TakeNext
  <2>2. /\ transit'[c] = {<<f, offset>>}
        /\ \A d \in Clients : transit[d] \subseteq transit'[d]
    BY <1>1, <1>2 DEF Inv, TypeOK
  <2>3. \A d \in Clients : Holds(d) \subseteq Holds(d)'
    BY <1>1, <2>2 DEF Holds
  <2>4. <<f, offset>> \in Holds(c)'
    BY <2>2 DEF Holds
  <2> HIDE DEF f
  <2> QED
    BY <1>1, <2>1, <2>3, <2>4, GrantOwner
<1>3. ASSUME NEW skipped \in SUBSET Offsets(f), RangeFull(f, p, skipped), UNCHANGED transit
      PROVE  OwnerInv'
  <2> HIDE DEF f
  <2> QED
    BY <1>1, <1>3, RangeFullOwner
<1> QED
  BY <1>2, <1>3 DEF AllocateIpv6

LEMMA AllocateIpv4Owner ==
    ASSUME Inv, OwnerInv, NEW c \in Clients, AllocateIpv4(c)
    PROVE  OwnerInv'
<1> DEFINE f == "ipv4"
           p == pool[c]
<1>1. f \in Families /\ p \in Pools
  BY IpamAssumption DEF IpamAssumption, Inv, TypeOK
<1>2. ASSUME NEW offset \in Offsets(f), NEW skipped \in SUBSET Offsets(f),
             TakeNext(c, f, p, offset, skipped),
             transit' = [transit EXCEPT ![c] = {}],
             leases' = [leases EXCEPT ![c] =
                @ \cup {Lease(y) : y \in transit[c]} \cup {Lease(<<f, offset>>)}]
      PROVE  OwnerInv'
  <2> DEFINE x == <<f, offset>>
  <2>1. /\ offset \in Free(f) /\ offset \notin skipped
        /\ RegisterOwner(p, f, offset, c, skipped)
    BY <1>2 DEF TakeNext
  <2>2. /\ leases'[c] = leases[c] \cup {<<y, PoolDefault>> : y \in transit[c]}
                                  \cup {<<x, PoolDefault>>}
        /\ \A d \in Clients : d # c => leases'[d] = leases[d]
    BY <1>2 DEF Inv, TypeOK, Lease
  <2>3. \A d \in Clients : d # c => transit'[d] = transit[d]
    BY <1>2 DEF Inv, TypeOK
  <2> HIDE DEF f, p, x
  <2>4. \A d \in Clients : Holds(d) \subseteq Holds(d)'
    <3> SUFFICES ASSUME NEW d \in Clients, NEW a \in Holds(d) PROVE a \in Holds(d)'
      OBVIOUS
    <3>1. CASE d # c
      BY <2>2, <2>3, <3>1 DEF Holds
    <3>2. CASE d = c /\ a \in transit[c]
      <4>1. <<a, PoolDefault>> \in leases'[c] /\ <<a, PoolDefault>>[1] = a
        BY <2>2, <3>2
      <4> QED
        BY <3>2, <4>1 DEF Holds
    <3>3. CASE d = c /\ a \notin transit[c]
      <4>1. PICK l \in leases[c] : l[1] = a
        BY <3>3 DEF Holds
      <4>2. l \in leases'[c]
        BY <2>2
      <4> QED
        BY <3>3, <4>1, <4>2 DEF Holds
    <3> QED
      BY <3>1, <3>2, <3>3
  <2>5. x \in Holds(c)'
    <3>1. <<x, PoolDefault>> \in leases'[c] /\ <<x, PoolDefault>>[1] = x
      BY <2>2
    <3> QED
      BY <3>1 DEF Holds
  <2>6. \A d \in Clients : \A l \in leases'[d] : l \in leases[d] \/ l[2] = PoolDefault
    BY <2>2
  <2> QED
    BY <1>1, <2>1, <2>4, <2>5, <2>6, GrantOwner DEF x
<1>3. ASSUME NEW skipped \in SUBSET Offsets(f), RangeFull(f, p, skipped),
             UNCHANGED <<transit, leases>>
      PROVE  OwnerInv'
  <2> HIDE DEF f, p
  <2> QED
    BY <1>1, <1>3, RangeFullOwner
<1> QED
  BY <1>2, <1>3 DEF AllocateIpv4

(* The rollback gives the address back under the default pool. *)
LEMMA RollbackOwner ==
    ASSUME Inv, OwnerInv, NEW c \in Clients, Rollback(c)
    PROVE  OwnerInv'
<1>1. PICK a \in transit[c] : ReleaseIp(a, Lease(a)[2])
  BY DEF Rollback
<1>2. a \in Addresses /\ transit[c] = {a} /\ leases' = leases
  BY <1>1 DEF Rollback, Inv, TransitIsOne
<1>3. PoolDefault \in Pools /\ ReleaseIp(a, PoolDefault)
  BY <1>1, IpamAssumption DEF IpamAssumption, Lease
<1>4. \A d \in Clients : transit[d] \ {a} \subseteq transit'[d]
  BY <1>2 DEF Rollback, Inv, TypeOK
<1>5. \A d \in Clients : Holds(d) \ {a} \subseteq Holds(d)'
  BY <1>2, <1>4 DEF Holds
<1> QED
  BY <1>2, <1>3, <1>5, ReleaseIpOwner

LEMMA ReleaseLeaseOwner ==
    ASSUME Inv, OwnerInv, NEW c \in Clients, NEW lease \in leases[c], Release(c, lease)
    PROVE  OwnerInv'
<1> DEFINE a == lease[1]
           p == lease[2]
<1>1. a \in Addresses /\ p \in Pools
  BY DEF Inv, TypeOK
<1>2. ReleaseIp(a, p) /\ transit' = transit
  BY DEF Release
<1>3. /\ leases'[c] = leases[c] \ {lease}
      /\ \A d \in Clients : d # c => leases'[d] = leases[d]
  BY DEF Release, Inv, TypeOK
<1>4. p = PoolDefault \/ owner[PoolDefault][a] \notin Clients
  BY DEF OwnerInv, OtherPoolsLeaseIsUnowned
<1> HIDE DEF p
<1>5. \A d \in Clients : Holds(d) \ {a} \subseteq Holds(d)'
  BY <1>2, <1>3 DEF Holds
<1> QED
  BY <1>1, <1>2, <1>3, <1>4, <1>5, ReleaseIpOwner

LEMMA ReleaseUnheldOwner ==
    ASSUME Inv, OwnerInv, NEW a \in Addresses, NEW p \in Pools, ReleaseUnheld(a, p)
    PROVE  OwnerInv'
<1>1. ReleaseIp(a, p) /\ transit' = transit /\ leases' = leases
  BY DEF ReleaseUnheld
<1>2. \A d \in Clients : Holds(d)' = Holds(d) /\ a \notin Holds(d)
  BY <1>1 DEF ReleaseUnheld, Holds
<1>3. owner[PoolDefault][a] \notin Clients
  BY <1>2 DEF OwnerInv, OwnersAreTrue
<1> QED
  BY <1>1, <1>2, <1>3, ReleaseIpOwner

LEMMA NextOwner == Inv /\ OwnerInv /\ [Next]_vars => OwnerInv'
<1> SUFFICES ASSUME Inv, OwnerInv, [Next]_vars PROVE OwnerInv'
  OBVIOUS
<1>1. CASE owner' = owner /\ transit' = transit /\ leases' = leases
  <2>1. \A d \in Clients : Holds(d)' = Holds(d)
    BY <1>1 DEF Holds
  <2> QED
    BY <1>1, <2>1 DEF OwnerInv, OwnersAreTrue, OtherPoolsLeaseIsUnowned
<1>2. CASE UNCHANGED vars
  BY <1>1, <1>2 DEF vars
<1>3. ASSUME NEW p \in Pools, NEW a \in Addresses, Exclude(p, a) \/ ReleaseUnheld(a, p)
      PROVE  OwnerInv'
  BY <1>1, <1>3, ReleaseUnheldOwner DEF Exclude
<1>4. ASSUME NEW c \in Clients, NEW p \in Pools,
             \/ \E f \in Families : AllocateOne(c, f, p)
             \/ AllocateIpv6(c, p)
             \/ \E a \in Addresses : AllocateSpecific(c, a, p)
      PROVE  OwnerInv'
  BY <1>4, AllocateOneOwner, AllocateIpv6Owner, AllocateSpecificOwner
<1>5. ASSUME NEW c \in Clients, AllocateIpv4(c) \/ Rollback(c)
      PROVE  OwnerInv'
  BY <1>5, AllocateIpv4Owner, RollbackOwner
<1>6. ASSUME NEW c \in Clients, NEW lease \in leases[c], Release(c, lease)
      PROVE  OwnerInv'
  BY <1>6, ReleaseLeaseOwner
<1> QED
  BY <1>2, <1>3, <1>4, <1>5, <1>6 DEF Next

(* What `dump` reports for the default pool is true: it names a client for   *)
(* an address only while that client has it, whatever pools the requests     *)
(* and releases name (service.rs register_ip_owner, release_ip_locked).      *)
THEOREM OwnersTrue == Spec => []OwnersAreTrue
<1>1. Init => OwnerInv
  <2> SUFFICES ASSUME Init PROVE OwnerInv
    OBVIOUS
  <2>1. PoolDefault \in Pools /\ NoOwner \notin Clients
    BY IpamAssumption, OwnerAssumption DEF IpamAssumption, OwnerAssumption
  <2>2. \A a \in Addresses : owner[PoolDefault][a] = NoOwner
    BY <2>1 DEF Init
  <2>3. \A c \in Clients : leases[c] = {}
    BY DEF Init
  <2> QED
    BY <2>1, <2>2, <2>3 DEF OwnerInv, OwnersAreTrue, OtherPoolsLeaseIsUnowned
<1>2. Inv /\ OwnerInv /\ [Next]_vars => OwnerInv'
  BY NextOwner
<1>3. OwnerInv => OwnersAreTrue
  BY DEF OwnerInv
<1> QED
  BY <1>1, <1>2, <1>3, Invariance, PTL DEF Spec

-----------------------------------------------------------------------------
(* Who is registered by a step: the client of an allocation, for an address  *)
(* that is not excluded.                                                     *)
LEMMA TakeNextNotExcluded ==
    ASSUME TypeOK, NEW c \in Clients, NEW f \in Families, NEW p \in Pools,
           NEW offset \in Offsets(f), NEW skipped \in SUBSET Offsets(f),
           RegisterOwner(p, f, offset, c, skipped), offset \notin skipped,
           <<p, <<f, offset>>>> \notin excluded,
           NEW q \in Pools, NEW a \in Addresses, NEW d \in Clients,
           owner[q][a] # d, owner'[q][a] = d
    PROVE  <<q, a>> \notin excluded
<1>1. /\ \A r \in Pools, x \in Addresses :
            x # <<f, offset>> => owner'[r][x] \in {owner[r][x], ExcludedOwner}
      /\ \A r \in Pools, x \in Addresses : r # p => owner'[r][x] = owner[r][x]
  BY RegisterOwnerIs
<1>2. ExcludedOwner \notin Clients
  BY OwnerAssumption DEF OwnerAssumption
<1>3. a = <<f, offset>> /\ q = p
  BY <1>1, <1>2
<1> QED
  BY <1>3

(* However exclusions interleave with the visits of a request to the         *)
(* state, what is registered for a client was not excluded in that pool at   *)
(* that moment (service.rs allocate_next_family, allocate_ip).               *)
THEOREM ExcludedStaysOut == Spec => ExcludedIsNotHandedOut
<1>1. ASSUME TypeOK, [Next]_vars,
             NEW q \in Pools, NEW a \in Addresses, NEW d \in Clients,
             owner[q][a] # d, owner'[q][a] = d
      PROVE  <<q, a>> \notin excluded
  <2>1. ExcludedOwner \notin Clients /\ NoOwner \notin Clients
    BY OwnerAssumption DEF OwnerAssumption
  <2>2. ASSUME NEW c \in Clients, NEW f \in Families, NEW p \in Pools,
               NEW offset \in Offsets(f), NEW skipped \in SUBSET Offsets(f),
               TakeNext(c, f, p, offset, skipped)
        PROVE  <<q, a>> \notin excluded
    <3>1. /\ RegisterOwner(p, f, offset, c, skipped) /\ offset \notin skipped
          /\ <<p, <<f, offset>>>> \notin excluded
      BY <2>2 DEF TakeNext, Excluded
    <3> QED
      BY <1>1, <3>1, TakeNextNotExcluded
  <2>3. ASSUME NEW f \in Families, NEW p \in Pools, NEW skipped \in SUBSET Offsets(f),
               RangeFull(f, p, skipped)
        PROVE  FALSE
    BY <1>1, <2>1, <2>3, RangeFullOwnerIs
  <2>4. ASSUME NEW x \in Addresses, NEW p \in Pools, ReleaseIp(x, p)
        PROVE  FALSE
    BY <1>1, <2>1, <2>4 DEF ReleaseIp, ReleaseOwner, TypeOK
  <2>5. owner' # owner
    BY <1>1
  <2>6. CASE \E p \in Pools, x \in Addresses : Exclude(p, x) \/ ReleaseUnheld(x, p)
    BY <2>4, <2>5, <2>6 DEF Exclude, ReleaseUnheld
  <2>7. ASSUME NEW c \in Clients, NEW p \in Pools, NEW f \in Families, AllocateOne(c, f, p)
        PROVE  <<q, a>> \notin excluded
    BY <2>2, <2>3, <2>7 DEF AllocateOne
  <2>8. "ipv4" \in Families /\ "ipv6" \in Families
    BY IpamAssumption DEF IpamAssumption
  <2>9. ASSUME NEW c \in Clients, NEW p \in Pools, AllocateIpv6(c, p)
        PROVE  <<q, a>> \notin excluded
    BY <2>2, <2>3, <2>8, <2>9, Zenon DEF AllocateIpv6
  <2>10. ASSUME NEW c \in Clients, AllocateIpv4(c)
         PROVE  <<q, a>> \notin excluded
    <3>1. pool[c] \in Pools
      BY <1>1 DEF TypeOK
    <3> QED
      BY <2>2, <2>3, <2>8, <2>10, <3>1, Zenon DEF AllocateIpv4
  <2>11. ASSUME NEW c \in Clients, NEW p \in Pools, NEW x \in Addresses, AllocateSpecific(c, x, p)
         PROVE  <<q, a>> \notin excluded
    <3> DEFINE f == x[1]
               offset == x[2]
               none == {}
    <3>1. f \in Families /\ offset \in Offsets(f) /\ x = <<f, offset>> /\ none \in SUBSET Offsets(f)
      BY AddressPairs
    <3>2. RegisterOwner(p, f, offset, c, none) /\ offset \notin none /\ <<p, x>> \notin excluded
      BY <2>11 DEF AllocateSpecific
    <3> HIDE DEF f, offset, none
    <3> QED
      BY <1>1, <3>1, <3>2, TakeNextNotExcluded
  <2>12. ASSUME NEW c \in Clients, Rollback(c)
         PROVE  FALSE
    <3>1. PICK x \in transit[c] : ReleaseIp(x, Lease(x)[2])
      BY <2>12 DEF Rollback
    <3>2. x \in Addresses /\ Lease(x)[2] = PoolDefault /\ PoolDefault \in Pools
      BY <1>1, IpamAssumption DEF IpamAssumption, TypeOK, Lease
    <3> QED
      BY <2>4, <3>1, <3>2
  <2>13. ASSUME NEW c \in Clients, NEW lease \in leases[c], Release(c, lease)
         PROVE  FALSE
    <3>1. lease[1] \in Addresses /\ lease[2] \in Pools
      BY <1>1 DEF TypeOK
    <3> QED
      BY <2>4, <2>13, <3>1 DEF Release
  <2>14. ~UNCHANGED vars
    BY <2>5 DEF vars
  <2> QED
    BY <1>1, <2>6, <2>7, <2>9, <2>10, <2>11, <2>12, <2>13, <2>14 DEF Next
<1>2. TypeOK /\ [Next]_vars =>
          [\A p \in Pools, a \in Addresses, c \in Clients :
              owner[p][a] # c /\ owner'[p][a] = c => <<p, a>> \notin excluded]_vars
  BY <1>1
<1> QED
  BY <1>2, TypeCorrect, PTL DEF Spec, ExcludedIsNotHandedOut
-----------------------------------------------------------------------------
(***************************************************************************)
(* The IPAM service implements AddressPool, for any number of clients and  *)
(* pools and any size of the bitmaps: what it grants was free, and a       *)
(* request for both families gets both addresses in one step or none.      *)
(***************************************************************************)

(* The refinement mapping, by name. *)
Held == [c \in Clients |-> {l[1] : l \in leases[c]}]
Busy == {c \in Clients : phase[c] # "idle"}

(* What is in transit is an IPv6 address: IPv4 comes second. *)
TransitIsIpv6 == \A c \in Clients : \A a \in transit[c] : a[1] = "ipv6"

-----------------------------------------------------------------------------
LEMMA TransitIsIpv6Init == Init => TransitIsIpv6
BY DEF Init, TransitIsIpv6

LEMMA TransitIsIpv6Next == Inv /\ TransitIsIpv6 /\ [Next]_vars => TransitIsIpv6'
<1> SUFFICES ASSUME Inv, TransitIsIpv6, [Next]_vars
             PROVE  TransitIsIpv6'
  OBVIOUS
<1>0. transit \in [Clients -> SUBSET Addresses]
  BY DEF Inv, TypeOK
<1>1. ASSUME UNCHANGED transit PROVE TransitIsIpv6'
  BY <1>1 DEF TransitIsIpv6
<1>2. ASSUME NEW c \in Clients, transit' = [transit EXCEPT ![c] = {}]
      PROVE  TransitIsIpv6'
  BY <1>0, <1>2 DEF TransitIsIpv6
<1>3. ASSUME NEW c \in Clients, NEW p \in Pools, AllocateIpv6(c, p)
      PROVE  TransitIsIpv6'
  <2>1. ASSUME NEW offset \in Offsets("ipv6"),
               transit' = [transit EXCEPT ![c] = {<<"ipv6", offset>>}]
        PROVE  TransitIsIpv6'
    BY <1>0, <2>1 DEF TransitIsIpv6
  <2> QED
    BY <1>1, <1>3, <2>1 DEF AllocateIpv6
<1>4. ASSUME NEW c \in Clients, AllocateIpv4(c) PROVE TransitIsIpv6'
  BY <1>1, <1>2, <1>4 DEF AllocateIpv4
<1>5. ASSUME NEW c \in Clients, Rollback(c) PROVE TransitIsIpv6'
  BY <1>2, <1>5 DEF Rollback
<1> QED
  BY <1>1, <1>3, <1>4, <1>5
     DEF Next, vars, Exclude, ReleaseUnheld, AllocateOne, AllocateSpecific, Release

-----------------------------------------------------------------------------
(* What a client gains and loses, seen through the mapping. *)
LEMMA HeldGains ==
    ASSUME Inv, NEW c \in Clients, NEW S \in SUBSET (Addresses \X Pools),
           leases' = [leases EXCEPT ![c] = @ \cup S]
    PROVE  Held' = [Held EXCEPT ![c] = @ \cup {l[1] : l \in S}]
<1>1. leases \in [Clients -> SUBSET (Addresses \X Pools)]
  BY DEF Inv, TypeOK
<1>2. leases'[c] = leases[c] \cup S
  BY <1>1
<1>3. \A d \in Clients : d # c => leases'[d] = leases[d]
  BY <1>1
<1>4. {l[1] : l \in leases[c] \cup S} = {l[1] : l \in leases[c]} \cup {l[1] : l \in S}
  OBVIOUS
<1> QED
  BY <1>2, <1>3, <1>4 DEF Held

LEMMA HeldLoses ==
    ASSUME Inv, NEW c \in Clients, NEW lease \in leases[c],
           leases' = [leases EXCEPT ![c] = @ \ {lease}]
    PROVE  Held' = [Held EXCEPT ![c] = @ \ {lease[1]}]
<1>1. leases \in [Clients -> SUBSET (Addresses \X Pools)]
  BY DEF Inv, TypeOK
<1>2. leases'[c] = leases[c] \ {lease}
  BY <1>1
<1>3. \A d \in Clients : d # c => leases'[d] = leases[d]
  BY <1>1
<1>4. {l[1] : l \in leases[c] \ {lease}} = {l[1] : l \in leases[c]} \ {lease[1]}
  <2>1. \A l, m \in leases[c] : l[1] = m[1] => l = m
    BY DEF Inv, NoDoubleAllocation
  <2> QED
    BY <2>1
<1> QED
  BY <1>2, <1>3, <1>4 DEF Held

(* An address whose bit is clear is free in the pool. *)
LEMMA FreeInPool ==
    ASSUME Inv, NEW x \in Addresses, x[2] \notin bits[x[1]]
    PROVE  \A d \in Clients : x \notin Held[d]
BY FreeIsUnheld DEF Inv, Holds, Held

(* So is what a client has in transit. *)
LEMMA TransitInPool ==
    ASSUME Inv, NEW c \in Clients, NEW x \in transit[c]
    PROVE  \A d \in Clients : x \notin Held[d]
BY DEF Inv, NoDoubleAllocation, Holds, Held

(* A lease of one free address is a grant of the pool. *)
LEMMA LeaseIsGrant ==
    ASSUME Inv, NEW c \in Clients, NEW x \in Addresses, NEW q \in Pools,
           x[2] \notin bits[x[1]], phase[c] = "idle", phase' = phase,
           leases' = [leases EXCEPT ![c] = @ \cup {<<x, q>>}]
    PROVE  Pool!Next
<1>1. Held' = [Held EXCEPT ![c] = @ \cup {x}]
  <2>1. {<<x, q>>} \in SUBSET (Addresses \X Pools) /\ {l[1] : l \in {<<x, q>>}} = {x}
    OBVIOUS
  <2> QED
    BY <2>1, HeldGains
<1>2. c \notin Busy /\ Busy' = Busy
  BY DEF Busy
<1>3. \A d \in Clients : x \notin Held[d]
  BY FreeInPool
<1>4. Pool!GrantOne(c, x)
  BY <1>1, <1>2, <1>3 DEF Pool!GrantOne, Pool!IsFree, Held, Busy
<1> QED
  BY <1>4 DEF Pool!Next

-----------------------------------------------------------------------------
(* One lemma per operation: a step of the pool, or none it sees. *)

LEMMA PoolUnchanged ==
    ASSUME UNCHANGED <<phase, leases>>
    PROVE  UNCHANGED Pool!poolVars
BY DEF Pool!poolVars

LEMMA AllocateOneRefines ==
    ASSUME Inv, NEW c \in Clients, NEW f \in Families, NEW p \in Pools, AllocateOne(c, f, p)
    PROVE  Pool!Next \/ UNCHANGED <<phase, leases>>
<1>1. phase[c] = "idle" /\ phase' = phase
  BY DEF AllocateOne
<1>2. ASSUME NEW offset \in Offsets(f), NEW skipped \in SUBSET Offsets(f),
             TakeNext(c, f, p, offset, skipped),
             leases' = [leases EXCEPT ![c] = @ \cup {Lease(<<f, offset>>)}]
      PROVE  Pool!Next
  <2> DEFINE x == <<f, offset>>
  <2>1. x \in Addresses /\ x[2] \notin bits[x[1]]
    BY <1>2, AddressPairs DEF TakeNext, Free
  <2>2. leases' = [leases EXCEPT ![c] = @ \cup {<<x, PoolDefault>>}]
    BY <1>2 DEF Lease
  <2>3. PoolDefault \in Pools
    BY IpamAssumption DEF IpamAssumption
  <2> HIDE DEF x
  <2> QED
    BY <1>1, <2>1, <2>2, <2>3, LeaseIsGrant, Zenon
<1>3. CASE leases' = leases
  BY <1>1, <1>3
<1> QED
  BY <1>2, <1>3 DEF AllocateOne

LEMMA AllocateSpecificRefines ==
    ASSUME Inv, NEW c \in Clients, NEW a \in Addresses, NEW p \in Pools,
           AllocateSpecific(c, a, p)
    PROVE  Pool!Next
<1>1. /\ phase[c] = "idle" /\ phase' = phase
      /\ leases' = [leases EXCEPT ![c] = @ \cup {<<a, p>>}]
      /\ a[2] \notin bits[a[1]]
  BY DEF AllocateSpecific, Free
<1> QED
  BY <1>1, LeaseIsGrant, Zenon

LEMMA AllocateIpv6Refines ==
    ASSUME Inv, NEW c \in Clients, NEW p \in Pools, AllocateIpv6(c, p)
    PROVE  Pool!Next \/ UNCHANGED <<phase, leases>>
<1>1. phase[c] = "idle" /\ leases' = leases
  BY DEF AllocateIpv6
<1>2. CASE phase' = phase
  BY <1>1, <1>2
<1>3. CASE phase' = [phase EXCEPT ![c] = "ipv4"]
  <2>1. phase \in [Clients -> {"idle", "ipv4", "rollback"}]
    BY DEF Inv, TypeOK
  <2>2. c \notin Busy /\ Busy' = Busy \cup {c}
    BY <1>1, <1>3, <2>1 DEF Busy
  <2>3. Held' = Held
    BY <1>1 DEF Held
  <2>4. Pool!AskBoth(c)
    BY <2>2, <2>3 DEF Pool!AskBoth, Held, Busy
  <2> QED
    BY <2>4 DEF Pool!Next
<1> QED
  BY <1>2, <1>3 DEF AllocateIpv6

(* The step that answers a request for both families grants the address in *)
(* transit and the new one at once.                                        *)
LEMMA AllocateIpv4Refines ==
    ASSUME Inv, TransitIsIpv6, NEW c \in Clients, AllocateIpv4(c)
    PROVE  Pool!Next \/ UNCHANGED Pool!poolVars
<1>1. phase \in [Clients -> {"idle", "ipv4", "rollback"}] /\ phase[c] = "ipv4"
  BY DEF Inv, TypeOK, AllocateIpv4
<1>2. ASSUME NEW offset \in Offsets("ipv4"), NEW skipped \in SUBSET Offsets("ipv4"),
             TakeNext(c, "ipv4", pool[c], offset, skipped),
             phase' = [phase EXCEPT ![c] = "idle"],
             leases' = [leases EXCEPT ![c] =
                   @ \cup {Lease(a) : a \in transit[c]} \cup {Lease(<<"ipv4", offset>>)}]
      PROVE  Pool!Next
  <2>1. PICK a \in Addresses : transit[c] = {a}
    BY <1>1 DEF Inv, TransitIsOne
  <2> DEFINE x == <<"ipv4", offset>>
             S == {<<a, PoolDefault>>, <<x, PoolDefault>>}
  <2>2. x \in Addresses /\ x[2] \notin bits[x[1]] /\ x[1] = "ipv4"
    <3>1. "ipv4" \in Families
      BY IpamAssumption DEF IpamAssumption
    <3> QED
      BY <1>2, <3>1, AddressPairs DEF TakeNext, Free
  <2>3. leases' = [leases EXCEPT ![c] = @ \cup S]
    <3>1. {Lease(b) : b \in transit[c]} = {<<a, PoolDefault>>}
      BY <2>1 DEF Lease
    <3>2. leases' = [leases EXCEPT ![c] =
                       @ \cup {<<a, PoolDefault>>} \cup {<<x, PoolDefault>>}]
      BY <1>2, <3>1 DEF Lease
    <3>3. \A T : T \cup {<<a, PoolDefault>>} \cup {<<x, PoolDefault>>} = T \cup S
      OBVIOUS
    <3> QED
      BY <3>2, <3>3
  <2>4. S \in SUBSET (Addresses \X Pools)
    BY <2>2, IpamAssumption DEF IpamAssumption
  <2>5. {l[1] : l \in S} = {a, x}
    OBVIOUS
  <2> HIDE DEF x, S
  <2>6. Held' = [Held EXCEPT ![c] = @ \cup {a, x}]
    BY <2>3, <2>4, <2>5, HeldGains
  <2>7. c \in Busy /\ Busy' = Busy \ {c}
    BY <1>1, <1>2 DEF Busy
  <2>8. \A d \in Clients : a \notin Held[d] /\ x \notin Held[d]
    BY <2>1, <2>2, FreeInPool, TransitInPool
  <2>9. a[1] # x[1]
    BY <2>1, <2>2 DEF TransitIsIpv6
  <2>10. Pool!GrantBoth(c, a, x)
    BY <2>6, <2>7, <2>8, <2>9 DEF Pool!GrantBoth, Pool!IsFree, Held, Busy
  <2> QED
    BY <2>2, <2>10 DEF Pool!Next
<1>3. ASSUME phase' = [phase EXCEPT ![c] = "rollback"], leases' = leases
      PROVE  UNCHANGED Pool!poolVars
  <2>1. Busy' = Busy
    BY <1>1, <1>3 DEF Busy
  <2> QED
    BY <1>3, <2>1 DEF Pool!poolVars, Busy
<1> QED
  BY <1>2, <1>3 DEF AllocateIpv4

LEMMA RollbackRefines ==
    ASSUME Inv, NEW c \in Clients, Rollback(c)
    PROVE  Pool!Next
<1>1. /\ phase \in [Clients -> {"idle", "ipv4", "rollback"}]
      /\ phase[c] = "rollback"
      /\ phase' = [phase EXCEPT ![c] = "idle"] /\ leases' = leases
  BY DEF Inv, TypeOK, Rollback
<1>2. c \in Busy /\ Busy' = Busy \ {c}
  BY <1>1 DEF Busy
<1>3. Pool!RefuseBoth(c)
  BY <1>1, <1>2 DEF Pool!RefuseBoth, Busy
<1> QED
  BY <1>3 DEF Pool!Next

LEMMA ReleaseRefines ==
    ASSUME Inv, NEW c \in Clients, NEW lease \in leases[c], Release(c, lease)
    PROVE  Pool!Next
<1>1. /\ phase[c] = "idle" /\ phase' = phase
      /\ leases' = [leases EXCEPT ![c] = @ \ {lease}]
  BY DEF Release
<1>2. Held' = [Held EXCEPT ![c] = @ \ {lease[1]}]
  BY <1>1, HeldLoses
<1>3. lease[1] \in Addresses /\ lease[1] \in Held[c]
  <2>1. leases[c] \in SUBSET (Addresses \X Pools)
    BY DEF Inv, TypeOK
  <2> QED
    BY <2>1 DEF Held
<1>4. c \notin Busy /\ Busy' = Busy
  BY <1>1 DEF Busy
<1>5. Pool!GiveBack(c, lease[1])
  BY <1>2, <1>3, <1>4 DEF Pool!GiveBack, Held, Busy
<1> QED
  BY <1>3, <1>5 DEF Pool!Next

-----------------------------------------------------------------------------
(* Seen by its clients the service is an AddressPool: no address has two    *)
(* holders and a request for both families is granted whole or not at all   *)
(* (service.rs allocate_next, allocate_ip, release_ip).                     *)
THEOREM Refinement == Spec => ImplementsAddressPool
<1>1. Init => Pool!Init
  BY DEF Init, Pool!Init
<1>2. Inv /\ TransitIsIpv6 /\ [Next]_vars => [Pool!Next]_(Pool!poolVars)
  <2> SUFFICES ASSUME Inv, TransitIsIpv6, [Next]_vars
               PROVE  Pool!Next \/ UNCHANGED Pool!poolVars
    OBVIOUS
  <2>1. ASSUME NEW c \in Clients, NEW p \in Pools, NEW f \in Families, AllocateOne(c, f, p)
        PROVE  Pool!Next \/ UNCHANGED Pool!poolVars
    BY <2>1, AllocateOneRefines, PoolUnchanged
  <2>2. ASSUME NEW c \in Clients, NEW p \in Pools, AllocateIpv6(c, p)
        PROVE  Pool!Next \/ UNCHANGED Pool!poolVars
    BY <2>2, AllocateIpv6Refines, PoolUnchanged
  <2>3. ASSUME NEW c \in Clients, NEW p \in Pools, NEW a \in Addresses,
               AllocateSpecific(c, a, p)
        PROVE  Pool!Next
    BY <2>3, AllocateSpecificRefines
  <2>4. ASSUME NEW c \in Clients, AllocateIpv4(c)
        PROVE  Pool!Next \/ UNCHANGED Pool!poolVars
    BY <2>4, AllocateIpv4Refines
  <2>5. ASSUME NEW c \in Clients, Rollback(c) PROVE Pool!Next
    BY <2>5, RollbackRefines
  <2>6. ASSUME NEW c \in Clients, NEW lease \in leases[c], Release(c, lease)
        PROVE  Pool!Next
    BY <2>6, ReleaseRefines
  <2>7. ASSUME NEW p \in Pools, NEW a \in Addresses, Exclude(p, a) \/ ReleaseUnheld(a, p)
        PROVE  UNCHANGED Pool!poolVars
    BY <2>7, PoolUnchanged DEF Exclude, ReleaseUnheld
  <2>8. CASE UNCHANGED vars
    BY <2>8, PoolUnchanged DEF vars
  <2> QED
    BY <2>1, <2>2, <2>3, <2>4, <2>5, <2>6, <2>7, <2>8, Zenon DEF Next
<1> QED
  BY <1>1, <1>2, TransitIsIpv6Init, TransitIsIpv6Next, Invariance, PTL
     DEF Spec, ImplementsAddressPool, Pool!Spec

-----------------------------------------------------------------------------
(* The offsets of a bitmap. *)

(* A set of naturals has a least one; the inductions below look for the     *)
(* least counterexample.                                                    *)
LEMMA LeastNat ==
    ASSUME NEW T \in SUBSET Nat, T # {}
    PROVE  \E n \in T : \A m \in T : n <= m
<1> DEFINE Less == OpToRel(<, Nat)
<1>1. \A m, n \in Nat : m < n => <<m, n>> \in Less
  BY DEF OpToRel
<1> HIDE DEF Less
<1>2. PICK n \in T : \A m \in T : ~ (<<m, n>> \in Less)
  BY NatLessThanWellFounded, WFMin, Zenon DEF Less
<1>3. \A m \in T : ~ (m < n)
  BY <1>1, <1>2
<1> QED
  BY <1>3

(* Doubling up to n. *)
IsDoubling(f, n) ==
    /\ f \in [0 .. n -> Nat \ {0}]
    /\ f[0] = 1
    /\ \A k \in 1 .. n : f[k] = 2 * f[k - 1]

(* There is such a function for every n. *)
LEMMA DoublingExists ==
    ASSUME NEW n \in Nat
    PROVE  \E f : IsDoubling(f, n)
<1> DEFINE T == {m \in Nat : ~ \E f : IsDoubling(f, m)}
<1> SUFFICES ASSUME T # {} PROVE FALSE
  OBVIOUS
<1>1. PICK m \in T : \A k \in T : m <= k
  BY LeastNat
<1>2. m # 0
  <2>1. IsDoubling([k \in 0 .. 0 |-> 1], 0)
    BY DEF IsDoubling
  <2> QED
    BY <1>1, <2>1
<1>3. m - 1 \in Nat /\ m - 1 \notin T
  BY <1>1, <1>2
<1>4. PICK f : IsDoubling(f, m - 1)
  BY <1>3
<1> DEFINE longer == [k \in 0 .. m |-> IF k = m THEN 2 * f[m - 1] ELSE f[k]]
<1>5. IsDoubling(longer, m)
  <2>1. f[m - 1] \in Nat \ {0} /\ 2 * f[m - 1] \in Nat \ {0}
    BY <1>3, <1>4 DEF IsDoubling
  <2>2. longer \in [0 .. m -> Nat \ {0}]
    BY <1>3, <1>4, <2>1 DEF IsDoubling
  <2>3. longer[0] = 1
    BY <1>3, <1>4 DEF IsDoubling
  <2>4. ASSUME NEW k \in 1 .. m PROVE longer[k] = 2 * longer[k - 1]
    <3>1. k - 1 \in 0 .. m /\ k - 1 # m
      OBVIOUS
    <3>2. longer[k - 1] = f[k - 1]
      BY <3>1
    <3>3. CASE k = m
      BY <3>2, <3>3
    <3>4. CASE k # m
      <4>1. k \in 1 .. m - 1 /\ longer[k] = f[k]
        BY <1>3, <3>4
      <4> QED
        BY <1>4, <3>2, <4>1 DEF IsDoubling
    <3> QED
      BY <3>3, <3>4
  <2> QED
    BY <2>2, <2>3, <2>4 DEF IsDoubling
<1> QED
  BY <1>1, <1>5

(* They agree where they are both defined. *)
LEMMA DoublingIsUnique ==
    ASSUME NEW n \in Nat, NEW m \in Nat, NEW f, NEW g, IsDoubling(f, n), IsDoubling(g, m),
           NEW k \in Nat, k <= n, k <= m
    PROVE  f[k] = g[k]
<1> DEFINE T == {j \in Nat : j <= n /\ j <= m /\ f[j] # g[j]}
<1>1. T = {}
  <2> SUFFICES ASSUME T # {} PROVE FALSE
    OBVIOUS
  <2>1. PICK j \in T : \A i \in T : j <= i
    BY LeastNat
  <2>2. j # 0
    BY <2>1 DEF IsDoubling
  <2>3. j - 1 \in Nat /\ j - 1 \notin T /\ j - 1 <= n /\ j - 1 <= m
    BY <2>1, <2>2
  <2>4. f[j - 1] = g[j - 1]
    BY <2>3
  <2>5. j \in 1 .. n /\ j \in 1 .. m
    BY <2>1, <2>2
  <2> QED
    BY <2>1, <2>4, <2>5 DEF IsDoubling
<1> QED
  BY <1>1

(* So the recursive function doubles, too. *)
LEMMA Pow2Is ==
    /\ Pow2[0] = 1
    /\ \A n \in Nat : Pow2[n] \in Nat /\ Pow2[n] >= 1 /\ Pow2[n + 1] = 2 * Pow2[n]
<1> DEFINE Eqn(f) == f = [n \in Nat |-> IF n = 0 THEN 1 ELSE 2 * f[n - 1]]
           upTo(n) == CHOOSE f : IsDoubling(f, n)
           pow == [n \in Nat |-> upTo(n)[n]]
<1>1. \A n \in Nat : IsDoubling(upTo(n), n)
  BY DoublingExists, Zenon
<1> HIDE DEF upTo
<1>2. Eqn(pow)
  <2>1. ASSUME NEW n \in Nat PROVE upTo(n)[n] = IF n = 0 THEN 1 ELSE 2 * pow[n - 1]
    <3>1. CASE n = 0
      BY <1>1, <3>1 DEF IsDoubling
    <3>2. CASE n # 0
      <4>1. n - 1 \in Nat /\ n - 1 <= n /\ n - 1 <= n - 1 /\ n \in 1 .. n
        BY <3>2
      <4>2. upTo(n)[n - 1] = upTo(n - 1)[n - 1]
        BY <1>1, <4>1, DoublingIsUnique
      <4>3. pow[n - 1] = upTo(n - 1)[n - 1]
        BY <4>1
      <4>4. upTo(n)[n] = 2 * upTo(n)[n - 1]
        BY <1>1, <4>1 DEF IsDoubling
      <4> HIDE DEF pow
      <4> QED
        BY <3>2, <4>2, <4>3, <4>4
    <3> QED
      BY <3>1, <3>2
  <2> QED
    BY <2>1, Zenon
<1>3. Eqn(Pow2)
  <2>1. Pow2 = CHOOSE f : Eqn(f)
    BY DEF Pow2
  <2> QED
    BY <1>2, <2>1, Zenon
<1>4. \A n \in Nat : Pow2[n] = IF n = 0 THEN 1 ELSE 2 * Pow2[n - 1]
  BY <1>3, Zenon
<1>5. ASSUME NEW n \in Nat PROVE Pow2[n + 1] = 2 * Pow2[n]
  <2>1. n + 1 \in Nat /\ n + 1 # 0 /\ (n + 1) - 1 = n
    OBVIOUS
  <2> QED
    BY <1>4, <2>1
<1> DEFINE T == {n \in Nat : ~ (Pow2[n] \in Nat /\ Pow2[n] >= 1)}
<1>6. T = {}
  <2> SUFFICES ASSUME T # {} PROVE FALSE
    OBVIOUS
  <2>1. PICK n \in T : \A m \in T : n <= m
    BY LeastNat
  <2>2. n # 0
    BY <1>4, <2>1
  <2>3. n - 1 \in Nat /\ n - 1 \notin T
    BY <2>1, <2>2
  <2>4. Pow2[n] = 2 * Pow2[n - 1]
    BY <1>4, <2>1, <2>2
  <2> QED
    BY <2>1, <2>3, <2>4
<1> QED
  BY <1>4, <1>5, <1>6

(* Powers multiply as their exponents add. *)
LEMMA Pow2Adds ==
    ASSUME NEW a \in Nat, NEW b \in Nat
    PROVE  Pow2[a + b] = Pow2[a] * Pow2[b]
<1> DEFINE T == {n \in Nat : Pow2[a + n] # Pow2[a] * Pow2[n]}
<1> SUFFICES ASSUME T # {} PROVE FALSE
  OBVIOUS
<1>1. PICK n \in T : \A m \in T : n <= m
  BY LeastNat
<1>2. n # 0
  <2>1. a + 0 = a /\ Pow2[a] * 1 = Pow2[a]
    BY Pow2Is
  <2> QED
    BY <1>1, <2>1, Pow2Is
<1>3. n - 1 \in Nat /\ n - 1 \notin T
  BY <1>1, <1>2
<1>4. Pow2[a + (n - 1)] = Pow2[a] * Pow2[n - 1]
  BY <1>3
<1>5. /\ Pow2[n] = 2 * Pow2[n - 1] /\ Pow2[a + n] = 2 * Pow2[a + (n - 1)]
      /\ Pow2[a] \in Nat /\ Pow2[n - 1] \in Nat
  <2>1. (n - 1) + 1 = n /\ (a + (n - 1)) + 1 = a + n /\ a + (n - 1) \in Nat
    BY <1>3
  <2> QED
    BY <1>3, <2>1, Pow2Is
<1>6. Pow2[a] * (2 * Pow2[n - 1]) = 2 * (Pow2[a] * Pow2[n - 1])
  BY <1>5
<1> QED
  BY <1>1, <1>4, <1>5, <1>6

(* They grow with the exponent. *)
LEMMA Pow2Grows ==
    ASSUME NEW a \in Nat, NEW b \in Nat, a <= b
    PROVE  Pow2[a] <= Pow2[b]
<1>1. b - a \in Nat /\ a + (b - a) = b
  OBVIOUS
<1>2. Pow2[b] = Pow2[a] * Pow2[b - a]
  BY <1>1, Pow2Adds
<1>3. Pow2[a] \in Nat /\ Pow2[b - a] \in Nat /\ Pow2[b - a] >= 1
  BY <1>1, Pow2Is
<1>4. Pow2[a] * (Pow2[b - a] - 1) >= 0
  BY <1>3
<1> QED
  BY <1>2, <1>3, <1>4

(* The networks of a family: the address is a multiple of the size. *)
Networks ==
    {net \in [family : {"ipv4", "ipv6"}, network : Nat, prefix : Nat] :
       /\ net.prefix <= Width[net.family]
       /\ \E k \in 0 .. Pow2[net.prefix] - 1 : net.network = k * Pow2[HostBits(net)]}

(* A network ends within the addresses of its family.                       *)
LEMMA NetworkFits ==
    ASSUME NEW net \in Networks
    PROVE  /\ HostBits(net) \in Nat /\ Width[net.family] \in Nat
           /\ net.network \in Nat
           /\ net.network + Pow2[HostBits(net)] <= Pow2[Width[net.family]]
<1>1. net.prefix \in Nat /\ net.network \in Nat /\ net.family \in {"ipv4", "ipv6"}
      /\ net.prefix <= Width[net.family]
  BY DEF Networks
<1>2. Width[net.family] \in Nat /\ HostBits(net) \in Nat
      /\ net.prefix + HostBits(net) = Width[net.family]
  BY <1>1, HostScopeAssumption DEF HostScopeAssumption, HostBits
<1>3. PICK k \in 0 .. Pow2[net.prefix] - 1 : net.network = k * Pow2[HostBits(net)]
  BY DEF Networks
<1>4. Pow2[Width[net.family]] = Pow2[net.prefix] * Pow2[HostBits(net)]
  BY <1>1, <1>2, Pow2Adds
<1> DEFINE p == Pow2[net.prefix]
           s == Pow2[HostBits(net)]
<1>5. p \in Nat /\ s \in Nat
  BY <1>1, <1>2, Pow2Is
<1>6. k \in 0 .. p - 1 /\ net.network = k * s /\ Pow2[Width[net.family]] = p * s
  BY <1>3, <1>4
<1> HIDE DEF p, s
<1>7. (p - 1 - k) * s >= 0
  BY <1>5, <1>6
<1>8. (p - 1 - k) * s = p * s - s - k * s
  BY <1>5, <1>6
<1>9. net.network + s <= p * s
  BY <1>5, <1>6, <1>7, <1>8
<1> QED
  BY <1>1, <1>2, <1>6, <1>9 DEF s

(* The addresses to serve are z in a row, from the network's own, which     *)
(* does not reach beyond the last address of the family; z is Size.         *)
LEMMA ServedIs ==
    ASSUME NEW net \in Networks
    PROVE  \E z \in Nat :
             /\ z >= 1 /\ net.network + z <= Pow2[Width[net.family]]
             /\ z <= Pow2[HostBits(net)]
             /\ Size(net) = IF net.prefix <= 1 THEN 0 ELSE z
             /\ {x \in 0 .. Pow2[Width[net.family]] - 1 :
                   /\ InNet(net, x)
                   /\ net.family = "ipv6" => x < net.network + Pow2[CapBits]}
                = net.network .. net.network + z - 1
<1> DEFINE s == Pow2[HostBits(net)]
           w == Pow2[Width[net.family]]
           c == Pow2[CapBits]
           n == net.network
           capped == net.family = "ipv6" /\ HostBits(net) >= CapBits
           z == IF capped THEN c ELSE s
           all == {x \in 0 .. w - 1 : InNet(net, x) /\ (net.family = "ipv6" => x < n + c)}
<1>1. /\ HostBits(net) \in Nat /\ Width[net.family] \in Nat
      /\ n \in Nat /\ n + s <= w
  BY NetworkFits
<1>2. CapBits \in Nat /\ net.prefix \in Nat
  BY HostScopeAssumption DEF HostScopeAssumption, Networks
<1>3. s \in Nat /\ w \in Nat /\ c \in Nat /\ s >= 1 /\ c >= 1
  BY <1>1, <1>2, Pow2Is
<1>4. (HostBits(net) >= CapBits => c <= s) /\ (HostBits(net) < CapBits => s <= c)
  BY <1>1, <1>2, Pow2Grows
<1>5. HostBits(net) >= Width[net.family] - 1 <=> net.prefix <= 1
  BY <1>1, <1>2 DEF HostBits
<1>6. Size(net) = IF net.prefix <= 1 THEN 0 ELSE z
  BY <1>5, Zenon DEF Size
<1>7. \A x : InNet(net, x) <=> x >= n /\ x < n + s
  BY DEF InNet
<1>8. z \in Nat /\ z >= 1 /\ z <= s /\ n + z <= w
  <2> HIDE DEF s, w, c, n
  <2> QED
    BY <1>1, <1>3, <1>4
<1>9. ASSUME NEW x \in Int
      PROVE  x \in 0 .. w - 1 /\ InNet(net, x) /\ (net.family = "ipv6" => x < n + c)
               <=> x \in n .. n + z - 1
  <2> HIDE DEF s, w, c, n
  <2>1. CASE net.family = "ipv6"
    BY <1>1, <1>2, <1>3, <1>4, <1>7, <2>1
  <2>2. CASE net.family # "ipv6"
    BY <1>1, <1>3, <1>7, <2>2
  <2> QED
    BY <2>1, <2>2
<1>10. all = n .. n + z - 1
  <2> HIDE DEF s, w, c, n, z
  <2> QED
    BY <1>1, <1>3, <1>8, <1>9
<1> QED
  BY <1>6, <1>8, <1>10

(* For any network of any width the offsets of the bitmap are exactly the   *)
(* usable addresses, and contains and offset_to_ip are inverse to each      *)
(* other (host_scope.rs new, size, contains, offset_to_ip).                 *)
THEOREM OffsetsExact ==
    ASSUME NEW net \in Networks, NEW ip \in Int
    PROVE  OffsetsAreExact(net, ip)
<1> DEFINE n == net.network
           w == Pow2[Width[net.family]]
           s == Pow2[HostBits(net)]
           all == {x \in 0 .. w - 1 :
                     /\ InNet(net, x)
                     /\ net.family = "ipv6" => x < n + Pow2[CapBits]}
<1>1. /\ n \in Nat /\ w \in Nat /\ s \in Nat /\ n + s <= w /\ net.prefix \in Nat
  BY NetworkFits, Pow2Is DEF Networks
<1>2. PICK z \in Nat :
         /\ z >= 1 /\ n + z <= w /\ z <= s
         /\ Size(net) = IF net.prefix <= 1 THEN 0 ELSE z
         /\ all = n .. n + z - 1
  BY ServedIs
<1> DEFINE b == Base(net)
           m == MaxOffset(net)
<1>3. /\ b = IF Size(net) > 2 THEN n + 1 ELSE n
      /\ m = IF Size(net) > 2 THEN Size(net) - 2 ELSE Size(net)
  BY DEF Base, MaxOffset
<1>4. Size(net) \in Nat
  BY <1>2
<1>5. b \in Nat /\ m \in Nat /\ b + m <= n + z /\ b >= n
  <2> HIDE DEF n, b, m
  <2> QED
    BY <1>1, <1>2, <1>3, <1>4
<1>6. \A x : InNet(net, x) <=> x >= n /\ x < n + s
  BY DEF InNet
<1>7. Cardinality(all) = z
  <2>1. PICK y \in Int : y = n + z - 1
    BY <1>1, <1>2
  <2>2. Cardinality(n .. n + z - 1) = z
    <3> HIDE DEF n, w, s, all, b, m
    <3>0. n \in Int
      BY <1>1
    <3>1. Cardinality(n .. y) = IF n > y THEN 0 ELSE y - n + 1
      BY <2>1, <3>0, FS_Interval, Zenon
    <3>2. ~ (n > y) /\ y - n + 1 = z
      BY <1>1, <1>2, <2>1
    <3> QED
      BY <2>1, <3>1, <3>2
  <2> HIDE DEF all
  <2> QED
    BY <1>2, <2>2
<1>8. \A x \in Int : Contains(net, x) = {o \in {x - b} : o >= 0 /\ o < m}
  <2> SUFFICES ASSUME NEW x \in Int
               PROVE  x - b >= 0 /\ x - b < m => InNet(net, x)
    BY DEF Contains
  <2> HIDE DEF n, w, s, b, m
  <2> QED
    BY <1>1, <1>2, <1>5, <1>6
<1>9. IsUsable(net, ip) <=>
        /\ net.prefix > 1
        /\ ip \in all
        /\ Cardinality(all) > 2 => \E first, last \in all : first < ip /\ ip < last
  BY DEF IsUsable
<1> HIDE DEF all, n, w, s, b, m
<1>10. IsUsable(net, ip) <=> ip - b >= 0 /\ ip - b < m
  <2>1. CASE net.prefix <= 1
    <3>1. m = 0
      BY <1>2, <1>3, <2>1
    <3>2. ~ (net.prefix > 1)
      BY <1>1, <2>1
    <3> QED
      BY <1>5, <1>9, <3>1, <3>2
  <2>2. CASE net.prefix > 1 /\ z <= 2
    <3>1. b = n /\ m = z
      BY <1>1, <1>2, <1>3, <2>2
    <3>2. IsUsable(net, ip) <=> ip \in n .. n + z - 1
      BY <1>2, <1>7, <1>9, <2>2
    <3> QED
      BY <1>1, <3>1, <3>2
  <2>3. CASE net.prefix > 1 /\ z > 2
    <3>1. b = n + 1 /\ m = z - 2
      BY <1>1, <1>2, <1>3, <2>3
    <3>2. IsUsable(net, ip) <=> /\ ip \in n .. n + z - 1
                                /\ \E first, last \in n .. n + z - 1 : first < ip /\ ip < last
      BY <1>2, <1>7, <1>9, <2>3
    <3>3. n \in n .. n + z - 1 /\ n + z - 1 \in n .. n + z - 1
      BY <1>1, <1>2
    <3>4. IsUsable(net, ip) <=> n < ip /\ ip < n + z - 1
      BY <1>1, <3>2, <3>3
    <3> QED
      BY <1>1, <3>1, <3>4
  <2> QED
    BY <1>1, <2>1, <2>2, <2>3
<1>11. Contains(net, ip) # {} <=> IsUsable(net, ip)
  BY <1>8, <1>10
<1>12. \A o \in 0 .. m - 1 : OffsetToIp(net, o) = b + o /\ b + o \in Int
  <2> SUFFICES ASSUME NEW o \in 0 .. m - 1
               PROVE  (b + o) % w = b + o /\ b + o \in Int
    BY DEF OffsetToIp, b, w
  <2>1. b + o \in Nat /\ b + o < w
    BY <1>1, <1>2, <1>5
  <2> QED
    BY <1>1, <2>1
<1>13. ASSUME NEW o \in Contains(net, ip) PROVE OffsetToIp(net, o) = ip
  <2>1. o = ip - b /\ o \in 0 .. m - 1
    BY <1>5, <1>8
  <2> QED
    BY <1>5, <1>12, <2>1
<1>14. ASSUME NEW o \in 0 .. m - 1 PROVE Contains(net, OffsetToIp(net, o)) = {o}
  <2>1. OffsetToIp(net, o) = b + o /\ b + o \in Int /\ (b + o) - b = o
    BY <1>5, <1>12
  <2> QED
    BY <1>5, <1>8, <2>1
<1> QED
  BY <1>11, <1>13, <1>14 DEF OffsetsAreExact, m
=============================================================================
