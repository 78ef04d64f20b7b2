---------------------------- MODULE PacketProofs ----------------------------
(***************************************************************************)
(* The choice among weighted routes and the checksums (soft_dataplane.rs   *)
(* select_route, internet_checksum), for every group of routes, every hash *)
(* and every string of bytes.                                              *)
(*                                                                         *)
(* The sums are recursive functions.  What one computes is     *)
(* proved by induction, which is derived here from the well-foundedness of *)
(* the natural numbers in a form without operator parameters: a set of     *)
(* naturals, and a step that is a function.                                *)
(***************************************************************************)
EXTENDS Packet, FiniteSetTheorems, WellFoundedInduction, TLAPS

-----------------------------------------------------------------------------
(* Induction and recursion. *)

LEMMA LeastNat ==
    ASSUME NEW T \in SUBSET Nat, T # {}
    PROVE  \E n \in T : \A m \in T : n <= m
<1> DEFINE Less == OpToRel(<, Nat)
<1>1. \A m, n \in Nat : m < n => <<m, n>> \in Less
  BY DEF OpToRel
<1> HIDE DEF Less
<1>2. PICK n \in T : \A m \in T : ~ (<<m, n>> \in Less)
  BY NatLessThanWellFounded, WFMin, Zenon DEF Less
<1>3. \A m \in T : ~ (m < n)
  BY <1>1, <1>2
<1> QED
  BY <1>3

(* A set that has 0, and with a number the next one, has them all. *)
LEMMA Counting ==
    ASSUME NEW S, 0 \in S, \A n \in Nat : n \in S => n + 1 \in S
    PROVE  Nat \subseteq S
<1> SUFFICES ASSUME Nat \ S # {} PROVE FALSE
  OBVIOUS
<1>1. PICK n \in Nat \ S : \A m \in Nat \ S : n <= m
  BY LeastNat
<1>2. n # 0 /\ n - 1 \in Nat
  BY <1>1
<1>3. n - 1 \in S
  BY <1>1, <1>2
<1> QED
  BY <1>1, <1>2, <1>3

(* A function that starts with base and goes on with a step for every i. *)
Runs(f, base, step, n) == f[0] = base /\ \A i \in 1 .. n : f[i] = step[i][f[i - 1]]

(* Recursion over 0 .. n, for a step given as a function. *)
LEMMA Recursion ==
    ASSUME NEW n \in Nat, NEW V, NEW base \in V, NEW step \in [1 .. n -> [V -> V]]
    PROVE  \E f \in [0 .. n -> V] : Runs(f, base, step, n)
<1> USE DEF Runs
<1> DEFINE S == {m \in Nat : m <= n => \E f \in [0 .. m -> V] : Runs(f, base, step, m)}
<1>1. 0 \in S
  <2> DEFINE g == [i \in 0 .. 0 |-> base]
  <2>1. g \in [0 .. 0 -> V] /\ Runs(g, base, step, 0)
    OBVIOUS
  <2> QED
    BY <2>1
<1>2. ASSUME NEW m \in Nat, m \in S PROVE m + 1 \in S
  <2> SUFFICES ASSUME m + 1 <= n PROVE \E g \in [0 .. m + 1 -> V] : Runs(g, base, step, m + 1)
    OBVIOUS
  <2>1. PICK f \in [0 .. m -> V] : Runs(f, base, step, m)
    BY <1>2
  <2> DEFINE g == [i \in 0 .. m + 1 |-> IF i = m + 1 THEN step[m + 1][f[m]] ELSE f[i]]
  <2>2. step[m + 1][f[m]] \in V
    BY <2>1
  <2>3. g \in [0 .. m + 1 -> V]
    BY <2>1, <2>2
  <2>4. g[0] = base
    BY <2>1
  <2>5. ASSUME NEW i \in 1 .. m + 1 PROVE g[i] = step[i][g[i - 1]]
    <3>1. g[i - 1] = f[i - 1]
      OBVIOUS
    <3>2. CASE i = m + 1
      BY <3>1, <3>2
    <3>3. CASE i # m + 1
      BY <2>1, <3>1, <3>3
    <3> QED
      BY <3>2, <3>3
  <2> QED
    BY <2>3, <2>4, <2>5
<1> HIDE DEF S
<1>3. n \in S
  BY <1>1, <1>2, Counting
<1> QED
  BY <1>3 DEF S

-----------------------------------------------------------------------------
(* The sums of weights, and the shares they delimit. *)

LEMMA WeightUpToStep ==
    ASSUME NEW group, Len(group) \in Nat, \A i \in 1 .. Len(group) : group[i].weight \in Nat
    PROVE  /\ WeightUpTo(group, 0) = 0
           /\ \A i \in 1 .. Len(group) :
                WeightUpTo(group, i) = WeightUpTo(group, i - 1) + Weight(group[i])
           /\ \A i \in 0 .. Len(group) : WeightUpTo(group, i) \in Nat
<1> DEFINE n == Len(group)
           step == [i \in 1 .. n |-> [w \in Nat |-> w + Weight(group[i])]]
           Eqn(f) == f = [i \in 0 .. n |-> IF i = 0 THEN 0 ELSE f[i - 1] + Weight(group[i])]
           sum == CHOOSE f : Eqn(f)
<1>1. \A i \in 1 .. n : Weight(group[i]) \in Nat
  BY DEF Weight
<1>2. step \in [1 .. n -> [Nat -> Nat]]
  BY <1>1
<1>3. PICK f \in [0 .. n -> Nat] : Runs(f, 0, step, n)
  <2>1. n \in Nat /\ 0 \in Nat
    OBVIOUS
  <2> HIDE DEF n, step
  <2> QED
    BY <1>2, <2>1, Recursion, Zenon
<1>4. ASSUME NEW i \in 1 .. n PROVE f[i] = f[i - 1] + Weight(group[i])
  <2>1. step[i] = [w \in Nat |-> w + Weight(group[i])]
    BY Zenon
  <2>2. f[i - 1] \in Nat
    OBVIOUS
  <2>3. step[i][f[i - 1]] = f[i - 1] + Weight(group[i])
    BY <2>1, <2>2, Zenon
  <2> QED
    BY <1>3, <2>3, Zenon DEF Runs
<1>5. Eqn(f)
  BY <1>3, <1>4 DEF Runs
<1>6. Eqn(sum)
  BY <1>5, Zenon
<1>7. \A i \in 0 .. n : WeightUpTo(group, i) = sum[i]
  BY DEF WeightUpTo
<1> HIDE DEF sum
<1>8. ASSUME NEW i \in 0 .. n
      PROVE  sum[i] = IF i = 0 THEN 0 ELSE sum[i - 1] + Weight(group[i])
  BY <1>6
<1>9. \A i \in Nat : i <= n => sum[i] \in Nat
  <2> DEFINE S == {i \in Nat : i <= n => sum[i] \in Nat}
  <2>1. 0 \in S
    BY <1>8
  <2>2. ASSUME NEW i \in Nat, i \in S PROVE i + 1 \in S
    BY <1>1, <1>8, <2>2
  <2> HIDE DEF S
  <2>3. Nat \subseteq S
    BY <2>1, <2>2, Counting
  <2> QED
    BY <2>3 DEF S
<1> QED
  BY <1>7, <1>8, <1>9

(* Every route has a share, since a weight of 0 counts as 1. *)
LEMMA WeightsGrow ==
    ASSUME NEW group, Len(group) \in Nat, \A i \in 1 .. Len(group) : group[i].weight \in Nat
    PROVE  \A j \in 0 .. Len(group) : \A i \in 0 .. j :
              WeightUpTo(group, i) + (j - i) <= WeightUpTo(group, j)
<1> DEFINE n == Len(group)
           W(i) == WeightUpTo(group, i)
           Grows(j) == \A i \in 0 .. j : W(i) + (j - i) <= W(j)
           S == {j \in Nat : j <= n => Grows(j)}
<1>1. /\ \A i \in 1 .. n : W(i) = W(i - 1) + Weight(group[i])
      /\ \A i \in 0 .. n : W(i) \in Nat
  BY WeightUpToStep
<1>2. \A i \in 1 .. n : Weight(group[i]) \in Nat /\ Weight(group[i]) >= 1
  BY DEF Weight
<1> HIDE DEF W
<1>3. 0 \in S
  BY <1>1
<1>4. ASSUME NEW j \in Nat, j \in S PROVE j + 1 \in S
  <2> SUFFICES ASSUME j + 1 <= n, NEW i \in 0 .. j + 1 PROVE W(i) + (j + 1 - i) <= W(j + 1)
    OBVIOUS
  <2>1. W(j + 1) = W(j) + Weight(group[j + 1])
    BY <1>1
  <2>2. W(j) \in Nat /\ W(i) \in Nat /\ Weight(group[j + 1]) \in Nat /\ Weight(group[j + 1]) >= 1
    BY <1>1, <1>2
  <2>3. CASE i = j + 1
    BY <1>1, <2>3
  <2>4. CASE i # j + 1
    <3>1. W(i) + (j - i) <= W(j)
      BY <1>4, <2>4
    <3> QED
      BY <2>1, <2>2, <3>1
  <2> QED
    BY <2>3, <2>4
<1> HIDE DEF S
<1>5. Nat \subseteq S
  BY <1>3, <1>4, Counting
<1>6. \A j \in 0 .. n : Grows(j)
  BY <1>5 DEF S
<1> QED
  BY <1>6 DEF W

(* The remainders of the hash for which a route is chosen. *)
InShare(group, i, t) == WeightUpTo(group, i - 1) <= t /\ t < WeightUpTo(group, i)

LEMMA SharesAreDisjoint ==
    ASSUME NEW group, Len(group) \in Nat, \A i \in 1 .. Len(group) : group[i].weight \in Nat,
           NEW i \in 1 .. Len(group), NEW j \in 1 .. Len(group), NEW t \in Int,
           InShare(group, i, t), InShare(group, j, t)
    PROVE  i = j
<1> DEFINE W(k) == WeightUpTo(group, k)
<1>1. \A k \in 0 .. Len(group) : W(k) \in Nat
  BY WeightUpToStep
<1>2. \A b \in 0 .. Len(group) : \A a \in 0 .. b : W(a) + (b - a) <= W(b)
  BY WeightsGrow
<1>3. W(i - 1) <= t /\ t < W(i) /\ W(j - 1) <= t /\ t < W(j)
  BY DEF InShare
<1> HIDE DEF W
<1>4. ASSUME i < j PROVE FALSE
  <2>1. j - 1 \in 0 .. Len(group) /\ i \in 0 .. (j - 1)
    BY <1>4
  <2>2. W(i) + ((j - 1) - i) <= W(j - 1)
    BY <1>2, <2>1
  <2> QED
    BY <1>1, <1>3, <1>4, <2>1, <2>2
<1>5. ASSUME j < i PROVE FALSE
  <2>1. i - 1 \in 0 .. Len(group) /\ j \in 0 .. (i - 1)
    BY <1>5
  <2>2. W(j) + ((i - 1) - j) <= W(i - 1)
    BY <1>2, <2>1
  <2> QED
    BY <1>1, <1>3, <1>5, <2>1, <2>2
<1> QED
  BY <1>4, <1>5

-----------------------------------------------------------------------------
(* Of a group that is not empty a route is chosen for every hash: the one   *)
(* in whose share the remainder of the hash lies (select_route; the code    *)
(* has a fallback after its loop that this shows is not reached).           *)
THEOREM SelectsByShare ==
    ASSUME NEW group, Len(group) \in Nat \ {0}, DOMAIN group = 1 .. Len(group),
           \A i \in 1 .. Len(group) : group[i].weight \in Nat,
           NEW hash \in Nat
    PROVE  LET total == WeightUpTo(group, Len(group))
           IN  /\ total \in Nat \ {0}
               /\ \E i \in DOMAIN group : /\ SelectRoute(group, hash) = group[i]
                                          /\ InShare(group, i, hash % total)
<1> DEFINE n == Len(group)
           W(i) == WeightUpTo(group, i)
           t == hash % W(n)
           fits == {i \in DOMAIN group : t < W(i)}
           first == CHOOSE i \in fits : \A j \in fits : i <= j
<1>1. W(0) = 0 /\ \A i \in 0 .. n : W(i) \in Nat
  BY WeightUpToStep
<1>2. W(n) \in Nat \ {0}
  <2>1. W(0) + (n - 0) <= W(n)
    <3>1. n \in 0 .. n /\ 0 \in 0 .. n
      OBVIOUS
    <3> QED
      BY <3>1, WeightsGrow
  <2>2. W(n) \in Nat
    BY <1>1
  <2> HIDE DEF W
  <2> QED
    BY <1>1, <2>1, <2>2
<1>3. SelectRoute(group, hash) = group[first]
  BY Zenon DEF SelectRoute
<1> HIDE DEF W
<1>4. t \in 0 .. W(n) - 1
  BY <1>2
<1> HIDE DEF t
<1>5. n \in fits /\ fits \in SUBSET Nat
  BY <1>4, <1>2
<1>6. \E i \in fits : \A j \in fits : i <= j
  BY <1>5, LeastNat
<1>7. first \in fits /\ \A j \in fits : first <= j
  BY <1>6, Zenon
<1> HIDE DEF first
<1>8. W(first - 1) <= t
  <2>1. CASE first = 1
    BY <1>1, <1>4, <2>1
  <2>2. CASE first # 1
    <3>1. first - 1 \in 1 .. n /\ first - 1 \notin fits
      BY <1>7, <2>2
    <3>2. W(first - 1) \in Nat /\ t \in Nat
      BY <1>1, <1>2, <1>4, <3>1
    <3> QED
      BY <3>1, <3>2
  <2> QED
    BY <2>1, <2>2
<1>9. InShare(group, first, t)
  BY <1>7, <1>8 DEF InShare, W
<1> QED
  BY <1>2, <1>3, <1>7, <1>9 DEF W, t

(* The numbers of two turns whose remainder lies in an interval. *)
LEMMA TwoTurns ==
    ASSUME NEW T \in Nat \ {0}, NEW low \in Nat, NEW high \in Nat, high <= T,
           NEW h \in 0 .. 2 * T - 1
    PROVE  low <= h % T /\ h % T < high
             <=> \/ low <= h /\ h < high
                 \/ T + low <= h /\ h < T + high
<1>1. CASE h < T
  <2>1. h % T = h
    BY <1>1
  <2> QED
    BY <1>1, <2>1
<1>2. CASE T <= h
  <2>1. h % T = h - T
    BY <1>2
  <2> QED
    BY <1>2, <2>1
<1> QED
  BY <1>1, <1>2

LEMMA IntervalOf ==
    ASSUME NEW a \in Int, NEW w \in Nat \ {0}, NEW b, b = a + w
    PROVE  IsFiniteSet(a .. b - 1) /\ Cardinality(a .. b - 1) = w
<1>1. b - 1 \in Int /\ ~ (a > b - 1) /\ (b - 1) - a + 1 = w
  OBVIOUS
<1> QED
  BY <1>1, FS_Interval

(* In a group with one route per next hop each of them is chosen for as     *)
(* many hashes of a turn as its route has weight, whatever the number of    *)
(* routes and their weights (select_route).                                 *)
THEOREM SharesFollowWeights ==
    ASSUME NEW group, Len(group) \in Nat \ {0}, DOMAIN group = 1 .. Len(group),
           \A i \in 1 .. Len(group) : group[i].weight \in Nat,
           \A i, j \in DOMAIN group : group[i].next_hop = group[j].next_hop => i = j
    PROVE  SharesAreWeights(group)
<1> DEFINE W(k) == WeightUpTo(group, k)
           total == W(Len(group))
<1> SUFFICES ASSUME NEW i \in DOMAIN group
             PROVE  Cardinality({h \in 0 .. 2 * total - 1 :
                          SelectRoute(group, h).next_hop = group[i].next_hop})
                      = 2 * (IF group[i].weight = 0 THEN 1 ELSE group[i].weight)
  BY DEF SharesAreWeights
<1> DEFINE low == W(i - 1)
           high == W(i)
           H == {h \in 0 .. 2 * total - 1 :
                   SelectRoute(group, h).next_hop = group[i].next_hop}
           A == low .. high - 1
           from == total + low
           upto == total + high
           B == from .. upto - 1
<1>1. /\ low \in Nat /\ high \in Nat /\ total \in Nat \ {0}
      /\ Weight(group[i]) \in Nat \ {0} /\ high = low + Weight(group[i]) /\ high <= total
  <2>1. low \in Nat /\ high \in Nat /\ total \in Nat /\ high = low + Weight(group[i])
    <3>1. /\ i \in 1 .. Len(group) /\ i \in 0 .. Len(group)
          /\ i - 1 \in 0 .. Len(group) /\ Len(group) \in 0 .. Len(group)
      OBVIOUS
    <3>2. /\ \A k \in 1 .. Len(group) : W(k) = W(k - 1) + Weight(group[k])
          /\ \A k \in 0 .. Len(group) : W(k) \in Nat
      BY WeightUpToStep
    <3> HIDE DEF W
    <3> QED
      BY <3>1, <3>2, Zenon
  <2>2. high + (Len(group) - i) <= total
    <3>1. Len(group) \in 0 .. Len(group) /\ i \in 0 .. Len(group)
      OBVIOUS
    <3> QED
      BY <3>1, WeightsGrow
  <2>3. Weight(group[i]) \in Nat /\ Weight(group[i]) >= 1
    BY DEF Weight
  <2> HIDE DEF low, high, total
  <2> QED
    BY <2>1, <2>2, <2>3
<1>2. ASSUME NEW h \in 0 .. 2 * total - 1
      PROVE  h \in H <=> low <= h % total /\ h % total < high
  <2>1. h \in Nat
    BY <1>1
  <2>2. PICK k \in DOMAIN group : SelectRoute(group, h) = group[k] /\ InShare(group, k, h % total)
    BY <2>1, SelectsByShare
  <2>3. h % total \in Int
    <3> HIDE DEF total
    <3> QED
      BY <1>1, <2>1
  <2>4. h \in H <=> k = i
    BY <2>2
  <2>5. InShare(group, i, h % total) => k = i
    BY <2>2, <2>3, SharesAreDisjoint
  <2> QED
    BY <2>2, <2>4, <2>5 DEF InShare
<1> HIDE DEF low, high, total, H
<1>3. low <= high
  BY <1>1
<1>4. H = A \cup B
  <2>1. H \subseteq 0 .. 2 * total - 1
    BY DEF H
  <2>2. A \cup B \subseteq 0 .. 2 * total - 1
    BY <1>1
  <2>3. ASSUME NEW h \in 0 .. 2 * total - 1 PROVE h \in H <=> h \in A \cup B
    <3> DEFINE Within == low <= h % total /\ h % total < high
               Either == \/ low <= h /\ h < high
                         \/ total + low <= h /\ h < total + high
    <3>1. h \in H <=> Within
      BY <1>2
    <3>2. Within <=> Either
      BY <1>1, TwoTurns
    <3>3. Either <=> h \in A \cup B
      BY <1>1
    <3> HIDE DEF A, B, Within, Either
    <3> QED
      BY <3>1, <3>2, <3>3
  <2> HIDE DEF A, B
  <2> QED
    BY <2>1, <2>2, <2>3
<1>5. IsFiniteSet(A) /\ Cardinality(A) = Weight(group[i])
  <2>1. low \in Int
    BY <1>1
  <2> QED
    BY <1>1, <2>1, IntervalOf, Zenon
<1>6. IsFiniteSet(B) /\ Cardinality(B) = Weight(group[i])
  <2>1. from \in Int /\ upto = from + Weight(group[i])
    BY <1>1
  <2> HIDE DEF from, upto
  <2> QED
    BY <1>1, <2>1, IntervalOf, Zenon
<1>7. Cardinality(A \cap B) = 0
  <2>1. A \cap B = {}
    BY <1>1
  <2> HIDE DEF A, B
  <2> QED
    BY <2>1, FS_EmptySet
<1>8. Cardinality(A \cup B) = Cardinality(A) + Cardinality(B) - Cardinality(A \cap B)
  BY <1>5, <1>6, FS_Union, Zenon
<1>9. Weight(group[i]) = IF group[i].weight = 0 THEN 1 ELSE group[i].weight
  BY DEF Weight
<1>10. Cardinality(H) = 2 * Weight(group[i])
  <2>1. Weight(group[i]) \in Nat
    BY DEF Weight
  <2> QED
    BY <1>4, <1>5, <1>6, <1>7, <1>8, <2>1
<1> QED
  BY <1>9, <1>10 DEF H

-----------------------------------------------------------------------------
(* The checksum. *)

(* Only 0 is a multiple of m between -m and m.                              *)
LEMMA NoMultipleBetween ==
    ASSUME NEW m \in Nat \ {0}, NEW k \in Int, -m < k * m, k * m < m
    PROVE  k = 0
<1>1. CASE k >= 1
  <2>1. (k - 1) * m >= 0
    BY <1>1
  <2>2. k * m = (k - 1) * m + m
    OBVIOUS
  <2> QED
    BY <2>1, <2>2
<1>2. CASE k <= -1
  <2>1. (-1 - k) * m >= 0
    BY <1>2
  <2>2. k * m = -((-1 - k) * m) - m
    OBVIOUS
  <2> QED
    BY <2>1, <2>2
<1> QED
  BY <1>1, <1>2

(* Numbers that differ by a multiple of m have the same remainder.          *)
LEMMA SameRemainder ==
    ASSUME NEW m \in Nat \ {0}, NEW a \in Nat, NEW b \in Nat, NEW k \in Int, a = b + k * m
    PROVE  a % m = b % m
<1> DEFINE p == a \div m
           q == b \div m
           r == a % m
           s == b % m
<1>1. /\ p \in Int /\ q \in Int /\ r \in 0 .. m - 1 /\ s \in 0 .. m - 1
      /\ a = p * m + r /\ b = q * m + s
  OBVIOUS
<1> HIDE DEF p, q, r, s
<1>2. (q + k - p) * m = r - s
  BY <1>1
<1>3. q + k - p = 0
  BY <1>1, <1>2, NoMultipleBetween
<1>4. r = s
  BY <1>1, <1>2, <1>3
<1> QED
  BY <1>4 DEF r, s

(* The ones' complement sum that a sum stands for.                          *)
Ones(s) == IF s = 0 THEN 0 ELSE ((s - 1) % (WordSize - 1)) + 1

(* A word has at least four values. *)
LEMMA WordSizeIs == WordSize \in Nat /\ WordSize >= 4
<1>1. (ByteSize - 2) * (ByteSize + 2) >= 0
  BY PacketAssumption DEF PacketAssumption
<1>2. ByteSize * ByteSize = (ByteSize - 2) * (ByteSize + 2) + 4
  BY PacketAssumption DEF PacketAssumption
<1> QED
  BY <1>1, <1>2, PacketAssumption DEF PacketAssumption, WordSize

(* It is a word, and 0 only for 0. *)
LEMMA OnesIs ==
    ASSUME NEW s \in Nat
    PROVE  /\ Ones(s) \in 0 .. WordSize - 1
           /\ s < WordSize => Ones(s) = s
           /\ s > 0 => Ones(s) >= 1
<1>1. s > 0 => (s - 1) % (WordSize - 1) \in 0 .. WordSize - 2
  BY WordSizeIs
<1>2. s > 0 /\ s < WordSize => (s - 1) % (WordSize - 1) = s - 1
  BY WordSizeIs
<1> QED
  BY <1>1, <1>2, WordSizeIs DEF Ones

(* Two sums that differ by a multiple of the largest word.                  *)
LEMMA SameOnes ==
    ASSUME NEW s \in Nat \ {0}, NEW t \in Nat \ {0}, NEW k \in Int,
           s = t + k * (WordSize - 1)
    PROVE  Ones(s) = Ones(t)
<1>1. WordSize - 1 \in Nat \ {0} /\ s - 1 \in Nat /\ t - 1 \in Nat
  BY WordSizeIs
<1>2. s - 1 = (t - 1) + k * (WordSize - 1)
  BY <1>1
<1>3. (s - 1) % (WordSize - 1) = (t - 1) % (WordSize - 1)
  BY <1>1, <1>2, SameRemainder
<1> QED
  BY <1>3 DEF Ones

(* Adding the carry to the word makes a sum smaller and keeps what it       *)
(* stands for.                                                              *)
LEMMA FoldingKeepsOnes ==
    ASSUME NEW s \in Nat, s >= WordSize, NEW t, t = (s % WordSize) + (s \div WordSize)
    PROVE  t \in Nat \ {0} /\ t < s /\ Ones(t) = Ones(s)
<1> DEFINE W == WordSize
           d == s \div W
           r == s % W
<1>1. W \in Nat /\ W >= 4
  BY WordSizeIs
<1> HIDE DEF W
<1>2. d \in Nat /\ r \in 0 .. W - 1 /\ s = d * W + r
  BY <1>1
<1>3. t = r + d
  BY DEF W
<1> HIDE DEF d, r
<1>4. d >= 1
  BY <1>1, <1>2 DEF W
<1>5. s = t + d * (W - 1)
  BY <1>1, <1>2, <1>3
<1>6. PICK e \in Nat \ {0} : e = d * (W - 1)
  <2>1. d * (W - 1) >= 1
    BY <1>1, <1>2, <1>4
  <2> QED
    BY <1>1, <1>2, <2>1
<1>7. t \in Nat \ {0} /\ t < s
  <2>1. t \in Nat \ {0}
    BY <1>2, <1>3, <1>4
  <2>2. s = t + e
    BY <1>5, <1>6, Zenon
  <2> QED
    BY <2>1, <2>2
<1>8. Ones(s) = Ones(t)
  BY <1>2, <1>5, <1>7, SameOnes DEF W
<1> QED
  BY <1>7, <1>8

(* So the loop that folds the carries ends with the ones' complement sum.   *)
LEMMA FoldIsOnes ==
    ASSUME NEW s \in Nat
    PROVE  Fold(s) = Ones(s)
<1> DEFINE Eqn(f) == f = [x \in Nat |-> IF x < WordSize THEN x
                                       ELSE f[(x % WordSize) + (x \div WordSize)]]
           fold == CHOOSE f : Eqn(f)
           ones == [x \in Nat |-> Ones(x)]
<1>1. Fold(s) = fold[s]
  BY DEF Fold
<1>2. Eqn(ones)
  <2>1. ASSUME NEW x \in Nat
        PROVE  Ones(x) = IF x < WordSize THEN x
                         ELSE ones[(x % WordSize) + (x \div WordSize)]
    <3>1. CASE x < WordSize
      BY <3>1, OnesIs
    <3>2. CASE ~(x < WordSize)
      <4> DEFINE y == (x % WordSize) + (x \div WordSize)
      <4>1. y \in Nat /\ Ones(y) = Ones(x)
        <5>1. x >= WordSize
          BY <3>2, WordSizeIs
        <5> QED
          BY <5>1, FoldingKeepsOnes
      <4> HIDE DEF y
      <4>2. ones[y] = Ones(x)
        BY <4>1
      <4> QED
        BY <3>2, <4>2 DEF y
    <3> QED
      BY <3>1, <3>2
  <2> QED
    BY <2>1
<1>3. Eqn(fold)
  BY <1>2, Zenon
<1> HIDE DEF fold, ones
<1>4. ASSUME NEW x \in Nat
      PROVE  fold[x] = IF x < WordSize THEN x ELSE fold[(x % WordSize) + (x \div WordSize)]
  BY <1>3
<1> DEFINE Wrong == {x \in Nat : fold[x] # Ones(x)}
<1>5. Wrong = {}
  <2> SUFFICES ASSUME Wrong # {} PROVE FALSE
    OBVIOUS
  <2>1. PICK x \in Wrong : \A y \in Wrong : x <= y
    BY LeastNat
  <2>2. x >= WordSize
    BY <1>4, <2>1, OnesIs, WordSizeIs
  <2> DEFINE y == (x % WordSize) + (x \div WordSize)
  <2>3. y \in Nat /\ y < x /\ Ones(y) = Ones(x)
    BY <2>2, FoldingKeepsOnes
  <2>4. fold[x] = fold[y]
    BY <1>4, <2>2, WordSizeIs
  <2> HIDE DEF y
  <2>5. y \notin Wrong
    BY <2>1, <2>3
  <2> QED
    BY <2>1, <2>3, <2>4, <2>5
<1> QED
  BY <1>1, <1>5
(* The sum of words, as the function that adds them up one by one.          *)
LEMMA SumIs ==
    ASSUME NEW words, Len(words) \in Nat, \A i \in 1 .. Len(words) : words[i] \in Nat
    PROVE  \E f \in [0 .. Len(words) -> Nat] :
              /\ f[0] = 0
              /\ \A i \in 1 .. Len(words) : f[i] = f[i - 1] + words[i]
              /\ Sum(words) = f[Len(words)]
<1> DEFINE n == Len(words)
           step == [i \in 1 .. n |-> [w \in Nat |-> w + words[i]]]
           Eqn(f) == f = [i \in 0 .. n |-> IF i = 0 THEN 0 ELSE f[i - 1] + words[i]]
           sum == CHOOSE f : Eqn(f)
<1>1. step \in [1 .. n -> [Nat -> Nat]]
  OBVIOUS
<1>2. PICK f \in [0 .. n -> Nat] : Runs(f, 0, step, n)
  <2>1. n \in Nat /\ 0 \in Nat
    OBVIOUS
  <2> HIDE DEF n, step
  <2> QED
    BY <1>1, <2>1, Recursion, Zenon
<1>3. ASSUME NEW i \in 1 .. n PROVE f[i] = f[i - 1] + words[i]
  <2>1. step[i] = [w \in Nat |-> w + words[i]]
    BY Zenon
  <2>2. f[i - 1] \in Nat
    OBVIOUS
  <2>3. step[i][f[i - 1]] = f[i - 1] + words[i]
    BY <2>1, <2>2, Zenon
  <2> QED
    BY <1>2, <2>3, Zenon DEF Runs
<1>4. Eqn(f)
  BY <1>2, <1>3 DEF Runs
<1>5. Eqn(sum)
  BY <1>4, Zenon
<1>6. Sum(words) = sum[n]
  BY DEF Sum
<1> HIDE DEF sum
<1>7. ASSUME NEW i \in 0 .. n
      PROVE  sum[i] = IF i = 0 THEN 0 ELSE sum[i - 1] + words[i]
  BY <1>5
<1>8. \A i \in Nat : i <= n => sum[i] \in Nat
  <2> DEFINE S == {i \in Nat : i <= n => sum[i] \in Nat}
  <2>1. 0 \in S
    BY <1>7
  <2>2. ASSUME NEW i \in Nat, i \in S PROVE i + 1 \in S
    BY <1>7, <2>2
  <2> HIDE DEF S
  <2>3. Nat \subseteq S
    BY <2>1, <2>2, Counting
  <2> QED
    BY <2>3 DEF S
<1>9. sum \in [0 .. n -> Nat]
  BY <1>5, <1>8
<1> QED
  BY <1>6, <1>7, <1>9

(* It is a number. *)
LEMMA SumIsNat ==
    ASSUME NEW words, Len(words) \in Nat, \A i \in 1 .. Len(words) : words[i] \in Nat
    PROVE  Sum(words) \in Nat
BY SumIs

(* The words of a string of bytes, an odd last byte padded.                 *)
LEMMA WordsAre ==
    ASSUME NEW bytes \in Seq(0 .. ByteSize - 1)
    PROVE  Len(Words(bytes)) \in Nat /\ \A i \in 1 .. Len(Words(bytes)) : Words(bytes)[i] \in Nat
<1> DEFINE n == (Len(bytes) + 1) \div 2
<1>1. n \in Nat
  OBVIOUS
<1>2. ASSUME NEW i \in 1 .. n PROVE 2 * i - 1 \in 1 .. Len(bytes)
  OBVIOUS
<1>3. ASSUME NEW i \in 1 .. n PROVE Words(bytes)[i] \in Nat
  <2>1. bytes[2 * i - 1] \in Nat /\ (2 * i <= Len(bytes) => bytes[2 * i] \in Nat)
    BY <1>2, PacketAssumption DEF PacketAssumption
  <2>2. bytes[2 * i - 1] * ByteSize \in Nat
    BY <2>1, PacketAssumption DEF PacketAssumption
  <2> QED
    BY <2>1, <2>2 DEF Words
<1>4. Words(bytes) = [i \in 1 .. n |-> Words(bytes)[i]]
  BY DEF Words
<1>5. Len(Words(bytes)) = n
  BY <1>1 DEF Words
<1> QED
  BY <1>1, <1>3, <1>5

(* The checksum of any string of bytes is the complement of its ones'       *)
(* complement sum, as RFC 1071 has it, and a checksum of UDP is never 0     *)
(* (soft_dataplane.rs internet_checksum, recompute_l4_checksum).            *)
THEOREM ChecksumIs ==
    \A bytes \in Seq(0 .. ByteSize - 1) : IsOnesComplement(bytes)
<1> SUFFICES ASSUME NEW bytes \in Seq(0 .. ByteSize - 1) PROVE IsOnesComplement(bytes)
  OBVIOUS
<1> DEFINE total == Sum(Words(bytes))
<1>1. total \in Nat
  BY WordsAre, SumIsNat
<1>2. Fold(total) = Ones(total) /\ Ones(total) \in 0 .. WordSize - 1
  BY <1>1, FoldIsOnes, OnesIs
<1>3. InternetChecksum(bytes) = (WordSize - 1 - Ones(total)) % WordSize
  BY <1>2 DEF InternetChecksum
<1> HIDE DEF total
<1>4. (WordSize - 1 - Ones(total)) % WordSize = WordSize - 1 - Ones(total)
  BY <1>2, WordSizeIs
<1>5. InternetChecksum(bytes) = WordSize - 1 - Ones(total)
  BY <1>3, <1>4
<1> QED
  BY <1>5, WordSizeIs DEF IsOnesComplement, L4Checksum, Ones, total
=============================================================================
