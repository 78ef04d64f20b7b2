------------------------------- MODULE Packet -------------------------------
(***************************************************************************)
(* The pure functions of the software data plane (sarena-data-plane,       *)
(* soft_dataplane.rs): prefix match, the choice among weighted routes and  *)
(* the internet checksum.                                                  *)
(*                                                                         *)
(* An address has AddrBits bits, where the code has IPv4's 32; a byte has  *)
(* ByteSize values, where the code has 256, and a word is two bytes.       *)
(***************************************************************************)
EXTENDS Integers, Sequences, FiniteSets

CONSTANTS AddrBits, ByteSize

ASSUME PacketAssumption ==
    /\ AddrBits \in Nat
    /\ ByteSize \in Nat \ {0, 1}

(* IpNet::contains: the first len bits agree. *)
NetContains(net, a) ==
    LET block == 2 ^ (AddrBits - net.len)
    IN  net.addr \div block = a \div block

Weight(r) == IF r.weight > 1 THEN r.weight ELSE 1

(* The weights of the first n routes of a group. *)
WeightUpTo(group, n) ==
    LET sum[i \in 0 .. Len(group)] == IF i = 0 THEN 0 ELSE sum[i - 1] + Weight(group[i])
    IN  sum[n]

(* Faulty variant: the comparison with a route's share is off by one. *)
SelectRouteOffByOne(group, hash) ==
    LET target == hash % WeightUpTo(group, Len(group))
        fits   == {i \in DOMAIN group : target <= WeightUpTo(group, i)}
    IN  group[CHOOSE i \in fits : \A j \in fits : i <= j]

(* select_route: the first route whose share is not used up by the hash. *)
SelectRoute(group, hash) ==
    LET target == hash % WeightUpTo(group, Len(group))
        fits   == {i \in DOMAIN group : target < WeightUpTo(group, i)}
    IN  group[CHOOSE i \in fits : \A j \in fits : i <= j]

(* What select_route is for: each next hop is chosen for as many of the     *)
(* hashes as its route has weight, a weight of 0 counting as 1.             *)
SharesAreWeights(group) ==
    LET total == WeightUpTo(group, Len(group))
    IN  \A i \in DOMAIN group :
           Cardinality({h \in 0 .. 2 * total - 1 :
                          SelectRoute(group, h).next_hop = group[i].next_hop})
             = 2 * (IF group[i].weight = 0 THEN 1 ELSE group[i].weight)

-----------------------------------------------------------------------------
WordSize == ByteSize * ByteSize

(* The words of a header or a pseudo header; the last byte of an odd number *)
(* of them is the upper half of a word.                                     *)
Words(bytes) ==
    [i \in 1 .. (Len(bytes) + 1) \div 2 |->
       bytes[2 * i - 1] * ByteSize + (IF 2 * i <= Len(bytes) THEN bytes[2 * i] ELSE 0)]

Sum(words) ==
    LET sum[i \in 0 .. Len(words)] == IF i = 0 THEN 0 ELSE sum[i - 1] + words[i]
    IN  sum[Len(words)]

(* Faulty variant: the carry is added back once only. *)
FoldOnce(sum) == (sum % WordSize) + (sum \div WordSize)

(* The carries are added back until none is left. *)
Fold(sum) ==
    LET fold[s \in Nat] ==
          IF s < WordSize THEN s ELSE fold[(s % WordSize) + (s \div WordSize)]
    IN  fold[sum]

InternetChecksum(bytes) == (WordSize - 1 - Fold(Sum(Words(bytes)))) % WordSize

(* recompute_l4_checksum: 0 means "none" in UDP, so it is not sent. *)
L4Checksum(protocol, bytes) ==
    LET csum == InternetChecksum(bytes)
    IN  IF protocol = "udp" /\ csum = 0 THEN WordSize - 1 ELSE csum

(* RFC 1071: the checksum is the complement of the ones' complement sum of  *)
(* the words, which is their sum modulo the largest word, and is zero only  *)
(* when all are; UDP sends no zero.                                         *)
IsOnesComplement(bytes) ==
    LET total == Sum(Words(bytes))
        ones  == IF total = 0 THEN 0 ELSE ((total - 1) % (WordSize - 1)) + 1
    IN  /\ InternetChecksum(bytes) = WordSize - 1 - ones
        /\ L4Checksum("tcp", bytes) = InternetChecksum(bytes)
        /\ L4Checksum("udp", bytes) # 0
=============================================================================
