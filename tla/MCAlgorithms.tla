---------------------------- MODULE MCAlgorithms ----------------------------
(***************************************************************************)
(* The pure algorithms, each against a reference definition, over every    *)
(* small input: a controller that fails again and again, an address that   *)
(* is looked up in a network, a group of weighted routes that flows are    *)
(* spread over and the bytes of a checksum.                                *)
(***************************************************************************)
EXTENDS Backoff, HostScope, Programs

CONSTANTS MaxFailures,  \* bound: failures in a row
          MaxBytes      \* bound: bytes of a checksum

MCWidth == [f \in {"ipv4", "ipv6"} |-> IF f = "ipv4" THEN 4 ELSE 5]

Factors == -1 .. JitterUnit + 1

Backoffs ==
    {NoBackoff}
    \cup [kind : {"linear"}, base : 0 .. 3, max : {0, 2, FloatMax, DurationMax - 1, DurationMax}, jitter : {0}]
    \cup [kind : {"exponential"}, base : 0 .. 3, max : {0, 2, FloatMax, DurationMax - 1, DurationMax},
          jitter : Factors \cup {NotANumber}]

(* Every network: its address is a multiple of its size. *)
NetsOf(f) ==
    UNION {{[family |-> f, network |-> k * 2 ^ (MCWidth[f] - p), prefix |-> p] :
              k \in 0 .. 2 ^ p - 1} : p \in 0 .. MCWidth[f]}
Nets == NetsOf("ipv4") \cup NetsOf("ipv6")

(* Every group of at most three routes, by their weights. *)
Groups ==
    UNION {{[i \in 1 .. n |-> [weight |-> w[i], next_hop |-> i]] : w \in [1 .. n -> 0 .. 3]} :
             n \in 1 .. 3}

ByteStrings == UNION {[1 .. n -> 0 .. ByteSize - 1] : n \in 0 .. MaxBytes}

VARIABLES backoff, failures, net, ip, group, bytes

inputs == <<backoff, net, group, bytes>>
vars == <<inputs, failures, ip>>

Example == [backoff |-> NoBackoff, net |-> [family |-> "ipv4", network |-> 0, prefix |-> 4],
            group |-> <<[weight |-> 1, next_hop |-> 1]>>, bytes |-> <<>>]

(* One of the inputs ranges over all its values. *)
Init ==
    /\ failures = 0
    /\ ip = 0
    /\ \E x \in {[Example EXCEPT !.backoff = b] : b \in Backoffs}
               \cup {[Example EXCEPT !.net = n] : n \in Nets}
               \cup {[Example EXCEPT !.group = g] : g \in Groups}
               \cup {[Example EXCEPT !.bytes = b] : b \in ByteStrings} :
          backoff = x.backoff /\ net = x.net /\ group = x.group /\ bytes = x.bytes

Fail ==
    /\ failures < MaxFailures
    /\ failures' = failures + 1
    /\ UNCHANGED <<inputs, ip>>

Probe ==
    /\ ip < 2 ^ MCWidth[net.family] - 1
    /\ ip' = ip + 1
    /\ UNCHANGED <<inputs, failures>>

Next == Fail \/ Probe

Spec == Init /\ [][Next]_vars

-----------------------------------------------------------------------------
(* The closed form of the doc of Backoff: base * n, or base * 2^(n - 1),    *)
(* capped at max.  The loop with its early exits and its saturating         *)
(* multiplication computes it (backoff.rs delay).                           *)
DelayIsClosedForm ==
    IsClosedForm(backoff, failures, [k \in 0 .. MaxFailures |-> 2 ^ k])

(* For every sample, also one out of range or NaN, the jittered delay lies  *)
(* between (1 - jitter) * delay and delay, but for the rounding, and none    *)
(* of these panics unless the delay is within a rounding of Duration::MAX;   *)
(* only exponential backoff has jitter (backoff.rs jittered, unit).          *)
JitterOnlyShortens ==
    \A r \in Factors \cup {NotANumber} : OnlyShortens(backoff, failures, r)

(* The offsets of the bitmap are exactly the usable addresses, and          *)
(* contains and offset_to_ip are inverse to each other at every boundary    *)
(* (host_scope.rs new, size, contains, offset_to_ip).                       *)
OffsetsAreUsable == OffsetsAreExact(net, ip)

(* Over the hashes, each route of a group is chosen in proportion to its    *)
(* weight, a weight of 0 counting as 1, and no hash finds none              *)
(* (soft_dataplane.rs select_route).                                        *)
WeightsAreShares == SharesAreWeights(group)

(* RFC 1071: the checksum is the complement of the ones' complement sum of  *)
(* the words, which is their sum modulo the largest word, and is zero only  *)
(* when all are; UDP sends no zero (internet_checksum,                      *)
(* recompute_l4_checksum).                                                  *)
ChecksumIsOnesComplement == IsOnesComplement(bytes)

(* A header whose checksum is right is one after its TTL was decremented,   *)
(* at any byte order and carry: the difference applied to the checksum is   *)
(* that of the word the TTL is the first byte of (local_delivery.rs         *)
(* ipv4_dec_ttl; the header's words as the host loads them).                *)
TtlKeepsChecksum ==
    Len(bytes) > 0 /\ Len(bytes) % 2 = 0 =>
       \A csum \in 0 .. WordSize - 1 : StaysRight(bytes, csum)
=============================================================================
