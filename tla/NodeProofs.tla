----------------------------- MODULE NodeProofs -----------------------------
(***************************************************************************)
(* Proofs about a node, for any number of containers, addresses and        *)
(* devices, any room in the loader's channel, and any number of faults,    *)
(* crashes and restarts; and about the header of a frame that is forwarded.*)
(***************************************************************************)
EXTENDS Node, PacketProofs, SequenceTheorems

-----------------------------------------------------------------------------
(* What the variables hold. *)

ContainerEps == [link : Containers, ip : Ips, mac : Nat]

Ops == {"load", "add", "remove", "list", "reconcile", "shutdown"}

(* Only containers' endpoints are removed, and reconcile wants the host's. *)
Commands ==
    {c \in [op : Ops, who : Callers, eps : SUBSET (ContainerEps \cup {HostEndpoint})] :
        /\ c.op = "remove" => c.eps \subseteq ContainerEps
        /\ c.op = "reconcile" => HostEndpoint \in c.eps}

StepNames == {"globals", "resolve", "load", "config", "lxc", "ingress", "egress", "forget",
              "stop_logging", "unpin_links", "unpin_maps", "list", "infos", "teardown"}

StepEps == {None} \cup [link : AllLinks \cup {None}, ip : Ips \cup {None}, mac : Nat]

(* A step is for an endpoint of the right kind; the host's is not detached. *)
StepSet ==
    {s \in [do : StepNames, ep : StepEps] :
        /\ s.do \in {"config", "lxc"} => s.ep \in ContainerEps
        /\ s.do \in {"resolve", "load", "ingress", "egress"} =>
              s.ep \in ContainerEps \cup {HostEndpoint}
        /\ s.do \in {"stop_logging", "unpin_links", "unpin_maps"} => s.ep.link \in Containers}

Operations == Seq(StepSet)

(* An operation writes a container's configuration before it attaches the   *)
(* program that reads it, takes the pins away before the maps, and does not *)
(* attach and detach.                                                       *)
IsOrdered(s) ==
    \A i \in DOMAIN s :
        /\ s[i].do = "ingress" /\ s[i].ep.link \in Containers =>
              \E j \in DOMAIN s : j < i /\ s[j].do = "config" /\ s[j].ep = s[i].ep
        /\ s[i].do = "unpin_maps" =>
              \E j \in DOMAIN s : j < i /\ s[j].do = "unpin_links" /\ s[j].ep = s[i].ep
        /\ s[i].do \in {"unpin_links", "unpin_maps"} =>
              \A j \in DOMAIN s : s[j].do # "ingress"

Whole == {s \in Operations : IsOrdered(s)}

Actors == [cmd : Commands, todo : Operations, rest : SUBSET Whole,
           then : Whole, index : Nat, failed : BOOLEAN]

Configs == [host_mac : Nat, ipv4 : Ips \cup {InternalIp, None}]

(* The host's veth pair, or nothing. *)
Values == {"default", "0", "1"}

LinkRecs == [ns : {HostNs}, name : {SARENA_HOST, SARENA_NET}, peer : Nat, up : BOOLEAN,
             arp : BOOLEAN, mtu : Nat, sysctl : [Sysctls -> Values],
             addrs : SUBSET {InternalIp}, routes : SUBSET {SubnetRoute}]

DeviceName(i) == IF i = 1 THEN SARENA_HOST ELSE SARENA_NET

Pairs == {L \in [{1, 2} -> LinkRecs] : \A i \in {1, 2} : L[i].name = DeviceName(i)}

Tables == Pairs \cup {<<>>}

Phases == {"down", "starting", "running", "stopping", "drained", "joining"}

KernelType ==
    /\ links \in Tables
    /\ veth \in [Containers -> Nat] /\ made \in Nat
    /\ config \in [AllLinks -> Configs \cup {None}]
    /\ pins \in [AllLinks -> [Hooks -> Nat]]

ActorType == actor # None => actor \in Actors

LoaderType ==
    /\ queue \in Seq(Commands)
    /\ call \in [Callers -> {"idle", "waiting", "ok", "err"}]

DaemonType ==
    /\ phase \in Phases /\ step \in 1 .. 6
    /\ known \in [Containers -> ContainerEps \cup {None}]
    /\ request \in [Containers -> {"none", "accepted", "served"}]
    /\ owner \in [Ips -> ContainerEps \cup {None}]

TypeInv == KernelType /\ ActorType /\ LoaderType /\ DaemonType

-----------------------------------------------------------------------------
(* The operations on an endpoint. *)

LEMMA AddStepsAre ==
    ASSUME NEW ep \in ContainerEps
    PROVE  LET s == AddSteps(ep) IN
           /\ s \in Operations /\ DOMAIN s = 1 .. 6
           /\ \A i \in 1 .. 6 : s[i].ep = ep
           /\ s[1].do = "resolve" /\ s[2].do = "load" /\ s[3].do = "config"
           /\ s[4].do = "lxc" /\ s[5].do = "ingress" /\ s[6].do = "egress"
<1>1. ep.link # SARENA_HOST /\ ep \in StepEps
  BY NodeAssumption DEF ContainerEps, StepEps, AllLinks
<1>2. \A name \in {"resolve", "load", "config", "lxc", "ingress", "egress"} :
         Do(name, ep) \in StepSet
  BY <1>1 DEF Do, StepSet, StepNames
<1> QED
  BY <1>1, <1>2 DEF AddSteps, Operations, Do

LEMMA HostStepsAre ==
    LET s == AddSteps(HostEndpoint) IN
    /\ s \in Operations /\ DOMAIN s = 1 .. 4
    /\ \A i \in 1 .. 4 : s[i].ep = HostEndpoint
    /\ s[1].do = "resolve" /\ s[2].do = "load" /\ s[3].do = "egress" /\ s[4].do = "ingress"
<1>1. HostEndpoint.link = SARENA_HOST /\ HostEndpoint \in StepEps
  BY DEF HostEndpoint, StepEps, AllLinks
<1>2. \A name \in {"resolve", "load", "ingress", "egress"} : Do(name, HostEndpoint) \in StepSet
  BY <1>1 DEF Do, StepSet, StepNames
<1> QED
  BY <1>1, <1>2 DEF AddSteps, Operations, Do

LEMMA DetachStepsAre ==
    ASSUME NEW ep \in StepEps, ep.link \in Containers
    PROVE  LET s == DetachSteps(ep) IN
           /\ s \in Operations /\ DOMAIN s = 1 .. 3 /\ Len(s) = 3
           /\ \A i \in 1 .. 3 : s[i].ep = ep
           /\ s[1].do = "stop_logging" /\ s[2].do = "unpin_links" /\ s[3].do = "unpin_maps"
<1>1. \A name \in {"stop_logging", "unpin_links", "unpin_maps"} : Do(name, ep) \in StepSet
  BY DEF Do, StepSet, StepNames
<1> QED
  BY <1>1 DEF DetachSteps, Operations, Do

LEMMA RemoveStepsAre ==
    ASSUME NEW ep \in StepEps, ep.link \in Containers
    PROVE  LET s == RemoveSteps(ep) IN
           /\ s \in Operations /\ DOMAIN s = 1 .. 4
           /\ \A i \in 1 .. 4 : s[i].ep = ep
           /\ s[1].do = "forget" /\ s[2].do = "stop_logging"
           /\ s[3].do = "unpin_links" /\ s[4].do = "unpin_maps"
<1> DEFINE t == DetachSteps(ep)
           one == <<Do("forget", ep)>>
           s == one \o t
<1>1. /\ t \in Operations /\ Len(t) = 3
      /\ \A i \in 1 .. 3 : t[i].ep = ep
      /\ t[1].do = "stop_logging" /\ t[2].do = "unpin_links" /\ t[3].do = "unpin_maps"
  BY DetachStepsAre
<1>2. /\ one \in Operations /\ Len(one) = 1 /\ one[1].do = "forget" /\ one[1].ep = ep
  BY DEF Operations, Do, StepSet, StepNames
<1> HIDE DEF t, one
<1>3. /\ s \in Operations /\ Len(s) = 4
      /\ \A i \in 1 .. 4 : s[i] = IF i <= 1 THEN one[i] ELSE t[i - 1]
  <2>1. /\ s \in Operations /\ Len(s) = Len(one) + Len(t)
        /\ \A i \in 1 .. Len(one) + Len(t) :
              s[i] = IF i <= Len(one) THEN one[i] ELSE t[i - Len(one)]
    BY <1>1, <1>2, ConcatProperties DEF Operations
  <2> QED
    BY <1>1, <1>2, <2>1
<1>4. s[1] = one[1] /\ s[2] = t[1] /\ s[3] = t[2] /\ s[4] = t[3]
  BY <1>3
<1>5. DOMAIN s = 1 .. 4
  BY <1>3, LenProperties DEF Operations
<1>6. \A i \in 1 .. 4 : s[i].ep = ep
  BY <1>1, <1>2, <1>3
<1>7. RemoveSteps(ep) = s
  BY DEF RemoveSteps, t, one
<1> QED
  BY <1>1, <1>2, <1>3, <1>4, <1>5, <1>6, <1>7

LEMMA SingleStepIs ==
    ASSUME NEW name \in {"globals", "list", "infos", "teardown", "forget"}, NEW ep \in StepEps
    PROVE  LET s == <<Do(name, ep)>> IN
           s \in Operations /\ DOMAIN s = {1} /\ s[1].do = name /\ s[1].ep = ep
<1>1. Do(name, ep) \in StepSet
  BY DEF Do, StepSet, StepNames
<1> QED
  BY <1>1 DEF Operations, Do

(* What is left of an operation after its first step. *)
LEMMA TailIs ==
    ASSUME NEW s \in Operations, s # <<>>
    PROVE  /\ Head(s) = s[1] /\ 1 \in DOMAIN s
           /\ Head(s) \in StepSet
           /\ Tail(s) \in Operations
           /\ \A i \in DOMAIN Tail(s) : i + 1 \in DOMAIN s /\ Tail(s)[i] = s[i + 1]
           /\ \A i \in DOMAIN s : i \in Nat \ {0} /\ (i > 1 => i - 1 \in DOMAIN Tail(s))
<1>1. /\ Head(s) \in StepSet /\ Tail(s) \in Operations
      /\ Len(Tail(s)) = Len(s) - 1
      /\ \A i \in 1 .. Len(Tail(s)) : Tail(s)[i] = s[i + 1]
  BY HeadTailProperties DEF Operations
<1>2. Len(s) \in Nat /\ DOMAIN s = 1 .. Len(s) /\ DOMAIN Tail(s) = 1 .. Len(Tail(s))
  BY <1>1, LenProperties DEF Operations
<1>3. Len(s) # 0
  BY DEF Operations
<1> QED
  BY <1>1, <1>2, <1>3

(* The operations are in order. *)
LEMMA AddIsWhole ==
    ASSUME NEW ep \in ContainerEps \cup {HostEndpoint}
    PROVE  AddSteps(ep) \in Whole
<1>1. CASE ep \in ContainerEps
  <2> DEFINE s == AddSteps(ep)
  <2>1. /\ s \in Operations /\ DOMAIN s = 1 .. 6
        /\ \A i \in 1 .. 6 : s[i].ep = ep
        /\ s[1].do = "resolve" /\ s[2].do = "load" /\ s[3].do = "config"
        /\ s[4].do = "lxc" /\ s[5].do = "ingress" /\ s[6].do = "egress"
    BY <1>1, AddStepsAre
  <2> HIDE DEF s
  <2> QED
    BY <2>1 DEF Whole, IsOrdered, s
<1>2. CASE ep = HostEndpoint
  <2> DEFINE s == AddSteps(HostEndpoint)
  <2>1. /\ s \in Operations /\ DOMAIN s = 1 .. 4
        /\ \A i \in 1 .. 4 : s[i].ep = HostEndpoint
        /\ s[1].do = "resolve" /\ s[2].do = "load"
        /\ s[3].do = "egress" /\ s[4].do = "ingress"
    BY HostStepsAre
  <2>2. HostEndpoint.link \notin Containers
    BY NodeAssumption DEF HostEndpoint
  <2> HIDE DEF s
  <2> QED
    BY <1>2, <2>1, <2>2 DEF Whole, IsOrdered, s
<1> QED
  BY <1>1, <1>2

LEMMA DetachIsWhole ==
    ASSUME NEW ep \in StepEps, ep.link \in Containers
    PROVE  DetachSteps(ep) \in Whole
<1> DEFINE s == DetachSteps(ep)
<1>1. /\ s \in Operations /\ DOMAIN s = 1 .. 3
      /\ \A i \in 1 .. 3 : s[i].ep = ep
      /\ s[1].do = "stop_logging" /\ s[2].do = "unpin_links" /\ s[3].do = "unpin_maps"
  BY DetachStepsAre
<1> HIDE DEF s
<1> QED
  BY <1>1 DEF Whole, IsOrdered, s

LEMMA RemoveIsWhole ==
    ASSUME NEW ep \in StepEps, ep.link \in Containers
    PROVE  RemoveSteps(ep) \in Whole
<1> DEFINE s == RemoveSteps(ep)
<1>1. /\ s \in Operations /\ DOMAIN s = 1 .. 4
      /\ \A i \in 1 .. 4 : s[i].ep = ep
      /\ s[1].do = "forget" /\ s[2].do = "stop_logging"
      /\ s[3].do = "unpin_links" /\ s[4].do = "unpin_maps"
  BY RemoveStepsAre
<1> HIDE DEF s
<1> QED
  BY <1>1 DEF Whole, IsOrdered, s

LEMMA SingleIsWhole ==
    ASSUME NEW name \in {"globals", "list", "infos", "teardown", "forget"}, NEW ep \in StepEps
    PROVE  <<Do(name, ep)>> \in Whole
<1> DEFINE s == <<Do(name, ep)>>
<1>1. s \in Operations /\ DOMAIN s = {1} /\ s[1].do = name
  BY SingleStepIs
<1> HIDE DEF s
<1> QED
  BY <1>1 DEF Whole, IsOrdered, s

LEMMA NothingIsWhole == <<>> \in Whole
BY DEF Whole, IsOrdered, Operations

LEMMA StepsOfAreWhole ==
    ASSUME NEW cmd \in Commands
    PROVE  StepsOf(cmd) \subseteq Whole
<1>1. cmd.op \in Ops /\ cmd.eps \subseteq ContainerEps \cup {HostEndpoint}
      /\ (cmd.op = "remove" => cmd.eps \subseteq ContainerEps)
  BY DEF Commands
<1>2. None \in StepEps
  BY DEF StepEps
<1>3. \A ep \in ContainerEps : ep \in StepEps /\ ep.link \in Containers
  BY DEF StepEps, ContainerEps, AllLinks
<1>4. CASE cmd.op \in {"load", "list", "shutdown"}
  BY <1>2, <1>4, SingleIsWhole DEF StepsOf
<1>5. CASE cmd.op \in {"add", "reconcile"}
  BY <1>1, <1>5, AddIsWhole DEF StepsOf
<1>6. CASE cmd.op = "remove"
  BY <1>1, <1>3, <1>6, RemoveIsWhole DEF StepsOf
<1> QED
  BY <1>1, <1>4, <1>5, <1>6 DEF Ops

-----------------------------------------------------------------------------
(* The host's device (setup_host_device): what every request makes of the  *)
(* links, from whatever an earlier start left.                             *)

(* The first n requests of setup_link were carried out on a link. *)
IsSetUp(r, n) ==
    /\ n >= 1 => r.up
    /\ n >= 2 => r.sysctl["forwarding"] = "1"
    /\ n >= 3 => r.sysctl["rp_filter"] = "0"
    /\ n >= 4 => r.sysctl["accept_local"] = "1"
    /\ n >= 5 => r.sysctl["send_redirects"] = "0"
    /\ n >= 6 => ~r.arp
    /\ n >= 7 => r.mtu = Mtu

(* The first n requests of setup_host_device were carried out. *)
HostIsSetUp(L, n) ==
    n >= 1 => /\ L \in Pairs
              /\ IsSetUp(L[1], n - 1) /\ IsSetUp(L[2], n - 8)
              /\ n >= 16 => InternalIp \in L[1].addrs
              /\ n >= 17 => SubnetRoute \in L[1].routes

Handle(i) == [index |-> i, name |-> DeviceName(i), ns |-> HostNs]

LEMMA PairIs ==
    ASSUME NEW L \in Pairs, NEW i \in {1, 2}
    PROVE  /\ Named(L, HostNs, DeviceName(i)) = {i}
           /\ Reach(L, Handle(i)) = {i}
           /\ GetLinkByName(L, DeviceName(i)) = {Handle(i)}
<1>1. DOMAIN L = {1, 2} /\ \A k \in {1, 2} : L[k].ns = HostNs /\ L[k].name = DeviceName(k)
  BY DEF Pairs, LinkRecs
<1>2. DeviceName(1) # DeviceName(2)
  BY DEF DeviceName, SARENA_HOST, SARENA_NET
<1>3. Named(L, HostNs, DeviceName(i)) = {i}
  BY <1>1, <1>2 DEF Named
<1>4. Reach(L, Handle(i)) = {i}
  BY <1>1 DEF Reach, Handle
<1>5. GetLinkByName(L, DeviceName(i)) = {Handle(i)}
  BY <1>3 DEF GetLinkByName, GetLinkImpl, Handle
<1> QED
  BY <1>3, <1>4, <1>5

LEMMA EmptyTable ==
    ASSUME NEW name
    PROVE  Named(<<>>, HostNs, name) = {} /\ GetLinkByName(<<>>, name) = {}
BY DEF Named, GetLinkByName, GetLinkImpl

(* A request of setup_link does its part and undoes no other. *)
LEMMA SetupLinkIs ==
    ASSUME NEW L \in Pairs, NEW i \in {1, 2}, NEW j \in 1 .. 7,
           NEW M \in SetupLink(L, Handle(i), j)
    PROVE  /\ M \in Pairs /\ \A k \in {1, 2} \ {i} : M[k] = L[k]
           /\ IsSetUp(L[i], j - 1) => IsSetUp(M[i], j)
           /\ M[i].addrs = L[i].addrs /\ M[i].routes = L[i].routes
<1> DEFINE r == L[i]
<1>1. r \in LinkRecs /\ r.sysctl \in [Sysctls -> Values]
  BY DEF Pairs, LinkRecs
<1>2. Reach(L, Handle(i)) = {i} /\ Named(L, HostNs, DeviceName(i)) = {i}
      /\ Handle(i).ns = HostNs /\ Handle(i).name = DeviceName(i)
  BY PairIs DEF Handle
<1>3. ASSUME NEW key \in Sysctls, NEW value \in Values,
             M \in SysctlWrite(L, Handle(i), key, value)
      PROVE  /\ M = [L EXCEPT ![i] = [r EXCEPT !.sysctl = [r.sysctl EXCEPT ![key] = value]]]
  BY <1>2, <1>3 DEF SysctlWrite
<1> DEFINE Goal == /\ M \in Pairs /\ \A k \in {1, 2} \ {i} : M[k] = L[k]
                   /\ IsSetUp(L[i], j - 1) => IsSetUp(M[i], j)
                   /\ M[i].addrs = L[i].addrs /\ M[i].routes = L[i].routes
<1> SUFFICES Goal
  OBVIOUS
<1> HIDE DEF Goal
<1>5. ASSUME NEW s \in LinkRecs, s.name = r.name, M = [L EXCEPT ![i] = s],
             s.addrs = r.addrs, s.routes = r.routes,
             IsSetUp(r, j - 1) => IsSetUp(s, j)
      PROVE  Goal
  <2>1. M \in Pairs /\ M[i] = s /\ \A k \in {1, 2} \ {i} : M[k] = L[k]
    BY <1>5 DEF Pairs
  <2> QED
    BY <1>5, <2>1 DEF Goal
<1>6. ASSUME NEW key \in Sysctls, NEW value \in Values,
             M \in SysctlWrite(L, Handle(i), key, value),
             \/ j = 2 /\ key = "forwarding" /\ value = "1"
             \/ j = 3 /\ key = "rp_filter" /\ value = "0"
             \/ j = 4 /\ key = "accept_local" /\ value = "1"
             \/ j = 5 /\ key = "send_redirects" /\ value = "0"
      PROVE  Goal
  <2> DEFINE s == [r EXCEPT !.sysctl = [r.sysctl EXCEPT ![key] = value]]
  <2>1. M = [L EXCEPT ![i] = s]
    BY <1>3, <1>6
  <2>2. /\ s \in LinkRecs /\ s.name = r.name
        /\ s.up = r.up /\ s.arp = r.arp /\ s.mtu = r.mtu
        /\ s.addrs = r.addrs /\ s.routes = r.routes
        /\ s.sysctl[key] = value /\ \A k \in Sysctls \ {key} : s.sysctl[k] = r.sysctl[k]
    BY <1>1 DEF LinkRecs
  <2> HIDE DEF s, r
  <2>3. IsSetUp(r, j - 1) => IsSetUp(s, j)
    BY <1>6, <2>2 DEF IsSetUp, Sysctls
  <2> QED
    BY <1>5, <2>1, <2>2, <2>3
<1>7. CASE j \in {2, 3, 4, 5}
  <2>0. /\ "forwarding" \in Sysctls /\ "rp_filter" \in Sysctls
        /\ "accept_local" \in Sysctls /\ "send_redirects" \in Sysctls
        /\ "0" \in Values /\ "1" \in Values
    BY DEF Sysctls, Values
  <2>1. CASE j = 2
    <3>1. M \in SysctlWrite(L, Handle(i), "forwarding", "1")
      BY <2>1 DEF SetupLink, SetIpv4Forwarding
    <3> QED
      BY <1>6, <2>0, <2>1, <3>1
  <2>2. CASE j = 3
    <3>1. M \in SysctlWrite(L, Handle(i), "rp_filter", "0")
      BY <2>2 DEF SetupLink, SetRpFilter
    <3> QED
      BY <1>6, <2>0, <2>2, <3>1
  <2>3. CASE j = 4
    <3>1. M \in SysctlWrite(L, Handle(i), "accept_local", "1")
      BY <2>3 DEF SetupLink, SetAcceptLocal
    <3> QED
      BY <1>6, <2>0, <2>3, <3>1
  <2>4. CASE j = 5
    <3>1. M \in SysctlWrite(L, Handle(i), "send_redirects", "0")
      BY <2>4 DEF SetupLink, SetSendRedirects
    <3> QED
      BY <1>6, <2>0, <2>4, <3>1
  <2> QED
    BY <1>7, <2>1, <2>2, <2>3, <2>4
<1>8. CASE j = 1
  <2> DEFINE s == [r EXCEPT !.up = TRUE]
  <2>1. M = [L EXCEPT ![i] = s]
    BY <1>2, <1>8 DEF SetupLink, SetUp, LinkSetUpImpl
  <2>2. /\ s \in LinkRecs /\ s.name = r.name /\ s.up
        /\ s.addrs = r.addrs /\ s.routes = r.routes
    BY <1>1 DEF LinkRecs
  <2> HIDE DEF s, r
  <2>3. IsSetUp(r, j - 1) => IsSetUp(s, j)
    BY <1>8, <2>2 DEF IsSetUp
  <2> QED
    BY <1>5, <2>1, <2>2, <2>3
<1>9. CASE j = 6
  <2> DEFINE s == [r EXCEPT !.arp = FALSE]
  <2>1. M = [L EXCEPT ![i] = s]
    BY <1>2, <1>9 DEF SetupLink, SetArp, LinkSetArpImpl
  <2>2. /\ s \in LinkRecs /\ s.name = r.name /\ ~s.arp /\ s.up = r.up
        /\ s.sysctl = r.sysctl /\ s.addrs = r.addrs /\ s.routes = r.routes
    BY <1>1 DEF LinkRecs
  <2> HIDE DEF s, r
  <2>3. IsSetUp(r, j - 1) => IsSetUp(s, j)
    BY <1>9, <2>2 DEF IsSetUp
  <2> QED
    BY <1>5, <2>1, <2>2, <2>3
<1>10. CASE j = 7
  <2> DEFINE s == [r EXCEPT !.mtu = Mtu]
  <2>1. M = [L EXCEPT ![i] = s]
    BY <1>2, <1>10 DEF SetupLink, SetMtu, LinkSetMtuImpl
  <2>2. /\ s \in LinkRecs /\ s.name = r.name /\ s.arp = r.arp /\ s.up = r.up /\ s.mtu = Mtu
        /\ s.sysctl = r.sysctl /\ s.addrs = r.addrs /\ s.routes = r.routes
    BY <1>1 DEF LinkRecs, Mtu
  <2> HIDE DEF s, r
  <2>3. IsSetUp(r, j - 1) => IsSetUp(s, j)
    BY <1>10, <2>2 DEF IsSetUp
  <2> QED
    BY <1>5, <2>1, <2>2, <2>3
<1> QED
  BY <1>7, <1>8, <1>9, <1>10

LEMMA CreatePairIs ==
    ASSUME NEW M \in CreateVethPair(<<>>, 1, 2, SARENA_HOST, SARENA_NET)
    PROVE  M \in Pairs
<1>1. M = [k \in {1, 2} |-> IF k = 1 THEN NewLink(SARENA_HOST, 2) ELSE NewLink(SARENA_NET, 1)]
  <2>1. M = [k \in DOMAIN <<>> \cup {1, 2} |->
               CASE k = 1 -> NewLink(SARENA_HOST, 2)
                 [] k = 2 -> NewLink(SARENA_NET, 1)
                 [] OTHER -> <<>>[k]]
    BY DEF CreateVethPair
  <2>2. DOMAIN <<>> \cup {1, 2} = {1, 2}
    OBVIOUS
  <2> HIDE DEF NewLink
  <2> QED
    BY <2>1, <2>2
<1>2. \A name \in {SARENA_HOST, SARENA_NET}, peer \in {1, 2} :
         NewLink(name, peer) \in LinkRecs /\ NewLink(name, peer).name = name
  BY DEF NewLink, LinkRecs, Values
<1> QED
  BY <1>1, <1>2 DEF Pairs, DeviceName

(* A request of setup_host_device does its part and undoes no other. *)
LEMMA SetupHostIs ==
    ASSUME NEW L \in Tables, NEW k \in 1 .. Requests, NEW M \in SetupHostDevice(L, k)
    PROVE  /\ M \in Tables /\ DOMAIN L \subseteq DOMAIN M
           /\ HostIsSetUp(L, k - 1) => HostIsSetUp(M, k)
<1> DEFINE Goal == /\ M \in Pairs /\ DOMAIN L \subseteq DOMAIN M
                   /\ HostIsSetUp(L, k - 1) => HostIsSetUp(M, k)
<1>0. DOMAIN <<>> = {} /\ \A P \in Pairs : DOMAIN P = {1, 2}
  BY DEF Pairs
<1> SUFFICES Goal
  BY DEF Tables
<1> HIDE DEF Goal
<1>1. CASE k = 1
  <2>1. M \in IF GetLinkByName(L, SARENA_HOST) = {}
              THEN CreateVethPair(L, 1, 2, SARENA_HOST, SARENA_NET) ELSE {L}
    BY <1>1 DEF SetupHostDevice
  <2>2. ASSUME L = <<>> PROVE M \in Pairs
    <3>1. M \in CreateVethPair(<<>>, 1, 2, SARENA_HOST, SARENA_NET)
      BY <2>1, <2>2, EmptyTable
    <3> QED
      BY <3>1, CreatePairIs
  <2>3. ASSUME L \in Pairs PROVE M \in Pairs
    <3>1. GetLinkByName(L, SARENA_HOST) = {Handle(1)}
      BY <2>3, PairIs DEF DeviceName
    <3> QED
      BY <2>1, <2>3, <3>1
  <2>4. M \in Pairs
    BY <2>2, <2>3 DEF Tables
  <2> QED
    BY <1>0, <1>1, <2>4 DEF HostIsSetUp, IsSetUp, Goal, Tables
<1>3. ASSUME L \in Pairs, M \in Pairs,
             HostIsSetUp(L, k - 1) => HostIsSetUp(M, k)
      PROVE  Goal
  BY <1>0, <1>3 DEF Goal
<1>4. CASE k \in 2 .. 8
  <2>1. M \in UNION {SetupLink(L, h, k - 1) : h \in GetLinkByName(L, SARENA_HOST)}
    BY <1>4 DEF SetupHostDevice
  <2>2. L \in Pairs
    BY <2>1, EmptyTable DEF Tables
  <2>3. M \in SetupLink(L, Handle(1), k - 1)
    BY <2>1, <2>2, PairIs DEF DeviceName
  <2>4. k - 1 \in 1 .. 7 /\ (k - 1) - 1 = k - 2
    BY <1>4
  <2>5. /\ M \in Pairs /\ M[2] = L[2]
        /\ IsSetUp(L[1], k - 2) => IsSetUp(M[1], k - 1)
    BY <2>2, <2>3, <2>4, SetupLinkIs
  <2>6. HostIsSetUp(L, k - 1) => HostIsSetUp(M, k)
    <3>1. IsSetUp(M[2], k - 8)
      BY <1>4 DEF IsSetUp
    <3> QED
      BY <1>4, <2>4, <2>5, <3>1 DEF HostIsSetUp
  <2> QED
    BY <1>3, <2>2, <2>5, <2>6
<1>5. CASE k \in 9 .. 15
  <2>1. M \in UNION {SetupLink(L, h, k - 8) : h \in GetLinkByName(L, SARENA_NET)}
    BY <1>5 DEF SetupHostDevice
  <2>2. L \in Pairs
    BY <2>1, EmptyTable DEF Tables
  <2>3. M \in SetupLink(L, Handle(2), k - 8)
    BY <2>1, <2>2, PairIs DEF DeviceName
  <2>4. k - 8 \in 1 .. 7 /\ (k - 8) - 1 = (k - 1) - 8
    BY <1>5
  <2>5. /\ M \in Pairs /\ M[1] = L[1]
        /\ IsSetUp(L[2], (k - 1) - 8) => IsSetUp(M[2], k - 8)
    BY <2>2, <2>3, <2>4, SetupLinkIs
  <2>6. HostIsSetUp(L, k - 1) => HostIsSetUp(M, k)
    <3>1. IsSetUp(M[1], (k - 1) - 1) => IsSetUp(M[1], k - 1)
      BY <1>5 DEF IsSetUp
    <3> QED
      BY <1>5, <2>5, <3>1 DEF HostIsSetUp
  <2> QED
    BY <1>3, <2>2, <2>5, <2>6
<1>6. ASSUME k \in {16, 17}, L \in Pairs, NEW r \in LinkRecs, r.name = L[1].name,
             M = [L EXCEPT ![1] = r],
             \A n \in Int : IsSetUp(L[1], n) => IsSetUp(r, n),
             InternalIp \in L[1].addrs => InternalIp \in r.addrs,
             k = 16 => InternalIp \in r.addrs, k = 17 => SubnetRoute \in r.routes
      PROVE  Goal
  <2>1. M \in Pairs /\ M[1] = r /\ M[2] = L[2]
    BY <1>6 DEF Pairs
  <2>2. /\ IsSetUp(L[1], (k - 1) - 1) => IsSetUp(M[1], k - 1)
        /\ IsSetUp(L[2], (k - 1) - 8) => IsSetUp(M[2], k - 8)
    <3>1. \A x : IsSetUp(x, (k - 1) - 1) => IsSetUp(x, k - 1)
      BY <1>6 DEF IsSetUp
    <3>2. \A x : IsSetUp(x, (k - 1) - 8) => IsSetUp(x, k - 8)
      BY <1>6 DEF IsSetUp
    <3>3. k - 1 \in Int
      OBVIOUS
    <3> QED
      BY <1>6, <2>1, <3>1, <3>2, <3>3
  <2>3. HostIsSetUp(L, k - 1) => HostIsSetUp(M, k)
    BY <1>6, <2>1, <2>2 DEF HostIsSetUp
  <2> QED
    BY <1>3, <1>6, <2>1, <2>3
<1>7. CASE k = 16
  <2>1. M \in UNION {ReplaceAddr(L, h, InternalIp) : h \in GetLinkByName(L, SARENA_HOST)}
    BY <1>7 DEF SetupHostDevice
  <2>2. L \in Pairs
    BY <2>1, EmptyTable DEF Tables
  <2>3. M \in ReplaceAddr(L, Handle(1), InternalIp)
    BY <2>1, <2>2, PairIs DEF DeviceName
  <2> DEFINE r == [L[1] EXCEPT !.addrs = L[1].addrs \cup {InternalIp}]
  <2>4. M = [L EXCEPT ![1] = r]
    BY <2>2, <2>3, PairIs DEF ReplaceAddr, LinkReplaceAddrImpl
  <2>5. L[1] \in LinkRecs
    BY <2>2 DEF Pairs
  <2>6. r \in LinkRecs /\ r.name = L[1].name /\ InternalIp \in r.addrs
        /\ r.up = L[1].up /\ r.sysctl = L[1].sysctl /\ r.arp = L[1].arp /\ r.mtu = L[1].mtu
    BY <2>5 DEF LinkRecs
  <2> HIDE DEF r
  <2>7. \A n \in Int : IsSetUp(L[1], n) => IsSetUp(r, n)
    BY <2>6 DEF IsSetUp
  <2> QED
    <3>1. /\ k \in {16, 17}
          /\ InternalIp \in L[1].addrs => InternalIp \in r.addrs
          /\ k = 16 => InternalIp \in r.addrs
          /\ k = 17 => SubnetRoute \in r.routes
      BY <1>7, <2>6
    <3> QED
      BY <1>6, <2>2, <2>4, <2>6, <2>7, <3>1, Zenon
<1>8. CASE k = 17
  <2>1. M \in UNION {AddRoute(L, h, SubnetRoute) : h \in GetLinkByName(L, SARENA_HOST)}
    BY <1>8 DEF SetupHostDevice
  <2>2. L \in Pairs
    BY <2>1, EmptyTable DEF Tables
  <2>3. M \in AddRoute(L, Handle(1), SubnetRoute)
    BY <2>1, <2>2, PairIs DEF DeviceName
  <2> DEFINE r == [L[1] EXCEPT !.routes = {q \in L[1].routes : q.prefix # SubnetRoute.prefix}
                                            \cup {SubnetRoute}]
  <2>4. M = [L EXCEPT ![1] = r]
    BY <2>2, <2>3, PairIs DEF AddRoute, LinkAddRouteImpl
  <2>5. L[1] \in LinkRecs
    BY <2>2 DEF Pairs
  <2>6. r \in LinkRecs /\ r.name = L[1].name /\ SubnetRoute \in r.routes
        /\ r.addrs = L[1].addrs
        /\ r.up = L[1].up /\ r.sysctl = L[1].sysctl /\ r.arp = L[1].arp /\ r.mtu = L[1].mtu
    BY <2>5 DEF LinkRecs
  <2> HIDE DEF r
  <2>7. \A n \in Int : IsSetUp(L[1], n) => IsSetUp(r, n)
    BY <2>6 DEF IsSetUp
  <2> QED
    <3>1. /\ k \in {16, 17}
          /\ InternalIp \in L[1].addrs => InternalIp \in r.addrs
          /\ k = 16 => InternalIp \in r.addrs
          /\ k = 17 => SubnetRoute \in r.routes
      BY <1>8, <2>6
    <3> QED
      BY <1>6, <2>2, <2>4, <2>6, <2>7, <3>1, Zenon
<1> QED
  BY <1>1, <1>4, <1>5, <1>7, <1>8 DEF Requests

(* The tables after some of the requests. *)
LEMMA AfterSteps ==
    ASSUME links \in Tables
    PROVE  /\ After(0) = {links}
           /\ \A k \in 1 .. Requests :
                After(k) = UNION {SetupHostDevice(L, k) : L \in After(k - 1)}
<1> DEFINE n == Requests
           V == SUBSET Tables
           Request(A, k) == UNION {SetupHostDevice(L, k) : L \in A}
           requests == [k \in 1 .. n |-> [A \in V |-> Request(A, k)]]
           Eqn(f) == f = [k \in 0 .. n |-> IF k = 0 THEN {links} ELSE Request(f[k - 1], k)]
           after == CHOOSE f : Eqn(f)
<1>1. \A A \in V, k \in 1 .. n : Request(A, k) \in V
  BY SetupHostIs
<1>2. requests \in [1 .. n -> [V -> V]]
  BY <1>1
<1>3. n \in Nat /\ {links} \in V
  BY DEF Requests
<1>4. PICK f \in [0 .. n -> V] : Runs(f, {links}, requests, n)
  <2> HIDE DEF n, V, requests
  <2> QED
    BY <1>2, <1>3, Recursion, Zenon
<1> HIDE DEF n, V
<1>5. ASSUME NEW k \in 1 .. n PROVE f[k] = Request(f[k - 1], k)
  <2>1. requests[k] = [A \in V |-> Request(A, k)]
    BY Zenon
  <2>2. f[k - 1] \in V
    BY <1>3
  <2> HIDE DEF requests, Request
  <2>3. requests[k][f[k - 1]] = Request(f[k - 1], k)
    BY <2>1, <2>2, Zenon
  <2> QED
    BY <1>4, <2>3, Zenon DEF Runs
<1>6. Eqn(f)
  <2> HIDE DEF Request
  <2> QED
    BY <1>3, <1>4, <1>5 DEF Runs
<1>7. Eqn(after)
  BY <1>6, Zenon
<1>8. \A k \in 0 .. n : After(k) = after[k]
  BY DEF After, n
<1> HIDE DEF after
<1>9. ASSUME NEW k \in 0 .. n
      PROVE  after[k] = IF k = 0 THEN {links} ELSE Request(after[k - 1], k)
  <2> HIDE DEF Request
  <2> QED
    BY <1>7
<1>10. After(0) = {links}
  <2> HIDE DEF Request
  <2>1. 0 \in 0 .. n
    BY <1>3
  <2> QED
    BY <1>8, <1>9, <2>1
<1>11. ASSUME NEW k \in 1 .. n PROVE After(k) = Request(After(k - 1), k)
  <2> HIDE DEF Request
  <2>1. k \in 0 .. n /\ k - 1 \in 0 .. n /\ k # 0
    BY <1>3
  <2> QED
    BY <1>8, <1>9, <2>1
<1> QED
  BY <1>10, <1>11 DEF n

(* However the links were left, the first requests bring the host's device  *)
(* as far as they go.                                                       *)
LEMMA AfterIs ==
    ASSUME links \in Tables, NEW n \in 0 .. Requests, NEW M \in After(n)
    PROVE  M \in Tables /\ DOMAIN links \subseteq DOMAIN M /\ HostIsSetUp(M, n)
<1> DEFINE Good(A, k) == \A L \in A : L \in Tables /\ DOMAIN links \subseteq DOMAIN L
                                      /\ HostIsSetUp(L, k)
           S == {k \in Nat : k <= Requests => Good(After(k), k)}
<1>1. 0 \in S
  BY AfterSteps DEF HostIsSetUp
<1>2. ASSUME NEW k \in Nat, k \in S PROVE k + 1 \in S
  <2> SUFFICES ASSUME k + 1 <= Requests PROVE Good(After(k + 1), k + 1)
    OBVIOUS
  <2>1. k + 1 \in 1 .. Requests /\ (k + 1) - 1 = k
    BY DEF Requests
  <2>2. Good(After(k), k)
    BY <1>2, <2>1 DEF Requests
  <2>3. After(k + 1) = UNION {SetupHostDevice(L, k + 1) : L \in After(k)}
    BY <2>1, AfterSteps
  <2> TAKE K \in After(k + 1)
  <2>4. PICK L \in After(k) : K \in SetupHostDevice(L, k + 1)
    BY <2>3
  <2>5. L \in Tables /\ DOMAIN links \subseteq DOMAIN L /\ HostIsSetUp(L, k)
    BY <2>2, <2>4
  <2>6. /\ K \in Tables /\ DOMAIN L \subseteq DOMAIN K
        /\ HostIsSetUp(L, (k + 1) - 1) => HostIsSetUp(K, k + 1)
    BY <2>1, <2>4, <2>5, SetupHostIs
  <2> QED
    BY <2>1, <2>5, <2>6
<1>3. n \in S
  <2> HIDE DEF S
  <2> QED
    BY <1>1, <1>2, Counting DEF Requests
<1> QED
  BY <1>3 DEF Requests

-----------------------------------------------------------------------------
(* What a step of the loader's thread leaves of its work. *)

LEMMA AdvanceIs ==
    ASSUME actor \in Actors, actor.todo # <<>>, Advance
    PROVE  /\ actor' \in Actors /\ actor'.cmd = actor.cmd /\ actor'.todo = Tail(actor.todo)
           /\ actor'.rest = actor.rest /\ actor'.then = actor.then
           /\ actor'.failed = actor.failed /\ actor'.index = actor.index
<1>1. Tail(actor.todo) \in Operations
  BY TailIs DEF Actors
<1> QED
  BY <1>1 DEF Advance, Actors

LEMMA NoteFailureIs ==
    ASSUME actor \in Actors, actor.todo # <<>>, NoteFailure
    PROVE  /\ actor' \in Actors /\ actor'.cmd = actor.cmd /\ actor'.todo = Tail(actor.todo)
           /\ actor'.rest = actor.rest /\ actor'.then = actor.then
           /\ actor'.failed = TRUE
<1>1. Tail(actor.todo) \in Operations
  BY TailIs DEF Actors
<1> QED
  BY <1>1 DEF NoteFailure, Actors

LEMMA AbandonIs ==
    ASSUME actor \in Actors, actor.todo # <<>>, Abandon
    PROVE  /\ actor' \in Actors /\ actor'.cmd = actor.cmd /\ actor'.todo = <<>>
           /\ actor'.rest \in {actor.rest, {}} /\ actor'.then \in {actor.then, <<>>}
           /\ actor'.failed = TRUE
<1>1. <<>> \in Operations /\ <<>> \in Whole
  BY NothingIsWhole DEF Whole
<1> QED
  BY <1>1 DEF Abandon, Actors

LEMMA ResolvedIs ==
    ASSUME actor \in Actors, actor.todo # <<>>, NEW i \in Nat,
           actor' = [actor EXCEPT !.index = i, !.todo = Tail(@)]
    PROVE  /\ actor' \in Actors /\ actor'.cmd = actor.cmd /\ actor'.todo = Tail(actor.todo)
           /\ actor'.rest = actor.rest /\ actor'.then = actor.then
           /\ actor'.failed = actor.failed /\ actor'.index = i
<1>1. Tail(actor.todo) \in Operations
  BY TailIs DEF Actors
<1> QED
  BY <1>1 DEF Actors

LEMMA DeviceIs ==
    ASSUME KernelType, NEW l \in AllLinks
    PROVE  /\ Device(l) \in Nat
           /\ l = SARENA_HOST => Device(l) = IF links = <<>> THEN 0 ELSE 1
           /\ l # SARENA_HOST => Device(l) = veth[l] /\ l \in Containers
<1>1. CASE l = SARENA_HOST
  <2>1. Named(links, HostNs, SARENA_HOST) = IF links = <<>> THEN {} ELSE {1}
    BY PairIs, EmptyTable DEF KernelType, Tables, DeviceName
  <2>2. (CHOOSE i \in {1} : TRUE) = 1
    OBVIOUS
  <2> QED
    BY <1>1, <2>1, <2>2 DEF Device
<1>2. CASE l # SARENA_HOST
  BY <1>2 DEF Device, KernelType, AllLinks
<1> QED
  BY <1>1, <1>2

(* Only list and reconcile have steps that list.  *)
Lists(s) == \E i \in DOMAIN s : s[i].do \in {"list", "infos"}

ListInv ==
    actor # None =>
        /\ Lists(actor.todo) => actor.cmd.op \in {"list", "reconcile"}
        /\ actor.then # <<>> => actor.cmd.op = "reconcile"
        /\ \A s \in actor.rest : ~Lists(s)

LEMMA AddNeverLists ==
    ASSUME NEW ep \in ContainerEps \cup {HostEndpoint}
    PROVE  ~Lists(AddSteps(ep))
<1>1. CASE ep \in ContainerEps
  <2> DEFINE s == AddSteps(ep)
  <2>1. /\ DOMAIN s = 1 .. 6
        /\ s[1].do = "resolve" /\ s[2].do = "load" /\ s[3].do = "config"
        /\ s[4].do = "lxc" /\ s[5].do = "ingress" /\ s[6].do = "egress"
    BY <1>1, AddStepsAre
  <2> HIDE DEF s
  <2> QED
    BY <2>1 DEF Lists, s
<1>2. CASE ep = HostEndpoint
  <2> DEFINE s == AddSteps(HostEndpoint)
  <2>1. /\ DOMAIN s = 1 .. 4
        /\ s[1].do = "resolve" /\ s[2].do = "load"
        /\ s[3].do = "egress" /\ s[4].do = "ingress"
    BY HostStepsAre
  <2> HIDE DEF s
  <2> QED
    BY <1>2, <2>1 DEF Lists, s
<1> QED
  BY <1>1, <1>2

LEMMA DetachNeverLists ==
    ASSUME NEW ep \in StepEps, ep.link \in Containers
    PROVE  ~Lists(DetachSteps(ep)) /\ ~Lists(RemoveSteps(ep))
<1> DEFINE s == DetachSteps(ep)
           t == RemoveSteps(ep)
<1>1. /\ DOMAIN s = 1 .. 3
      /\ s[1].do = "stop_logging" /\ s[2].do = "unpin_links" /\ s[3].do = "unpin_maps"
  BY DetachStepsAre
<1>2. /\ DOMAIN t = 1 .. 4
      /\ t[1].do = "forget" /\ t[2].do = "stop_logging"
      /\ t[3].do = "unpin_links" /\ t[4].do = "unpin_maps"
  BY RemoveStepsAre
<1> HIDE DEF s, t
<1> QED
  BY <1>1, <1>2 DEF Lists, s, t

LEMMA StepsOfList ==
    ASSUME NEW cmd \in Commands, NEW steps \in StepsOf(cmd)
    PROVE  /\ Lists(steps) => cmd.op = "list"
           /\ \A s \in StepsOf(cmd) \ {steps} : ~Lists(s)
<1>1. cmd.op \in Ops /\ cmd.eps \subseteq ContainerEps \cup {HostEndpoint}
      /\ (cmd.op = "remove" => cmd.eps \subseteq ContainerEps)
  BY DEF Commands
<1>2. None \in StepEps
  BY DEF StepEps
<1>3. \A ep \in ContainerEps : ep \in StepEps /\ ep.link \in Containers
  BY DEF StepEps, ContainerEps, AllLinks
<1>4. CASE cmd.op = "list"
  <2>1. StepsOf(cmd) = {<<Do("list", None)>>}
    BY <1>4 DEF StepsOf
  <2> QED
    BY <1>4, <2>1
<1>5. CASE cmd.op \in {"load", "shutdown"}
  <2>1. PICK name \in {"globals", "teardown"} : StepsOf(cmd) = {<<Do(name, None)>>}
    BY <1>5 DEF StepsOf
  <2>2. ~Lists(<<Do(name, None)>>)
    <3> DEFINE s == <<Do(name, None)>>
    <3>1. Do(name, None).do = name
      BY DEF Do
    <3>2. DOMAIN s = {1} /\ s[1].do = name
      BY <3>1
    <3> HIDE DEF s
    <3> QED
      BY <3>2 DEF Lists, s
  <2> QED
    BY <2>1, <2>2
<1>6. CASE cmd.op \in {"add", "reconcile"}
  BY <1>1, <1>6, AddNeverLists DEF StepsOf
<1>7. CASE cmd.op = "remove"
  BY <1>1, <1>3, <1>7, DetachNeverLists DEF StepsOf
<1> QED
  BY <1>1, <1>4, <1>5, <1>6, <1>7 DEF Ops

(* What a step leaves of an operation holds no step that was not in it. *)
LEMMA TailLists ==
    ASSUME NEW s \in Operations, s # <<>>
    PROVE  (Lists(Tail(s)) => Lists(s)) /\ ~Lists(<<>>)
<1>1. \A i \in DOMAIN Tail(s) : i + 1 \in DOMAIN s /\ Tail(s)[i] = s[i + 1]
  BY TailIs
<1> QED
  BY <1>1 DEF Lists

(* The work of the thread keeps its form. *)
LEMMA WorkKeepsActorType ==
    ASSUME TypeInv, ListInv, Work \/ BackendFails
    PROVE  ActorType'
<1>1. ASSUME actor # None, actor.todo # <<>>
      PROVE  /\ actor \in Actors
             /\ Advance \/ NoteFailure \/ Abandon => ActorType'
  BY <1>1, AdvanceIs, NoteFailureIs, AbandonIs DEF TypeInv, ActorType
<1>2. CASE LoadGlobalMaps \/ LoadInstance \/ SetEndpointConfig \/ UpsertEndpointInfo
           \/ RemoveEndpointInfo \/ StopLogging \/ RemovePinDir \/ UnpinMap \/ TeardownAll
           \/ BackendFails \/ \E h \in Hooks : EnsureAttached(h)
  BY <1>1, <1>2 DEF At, LoadGlobalMaps, LoadInstance, SetEndpointConfig, UpsertEndpointInfo,
     RemoveEndpointInfo, StopLogging, RemovePinDir, UnpinMap, TeardownAll, BackendFails,
     EnsureAttached
<1>3. CASE ResolveLink
  <2>1. /\ actor # None /\ actor.todo # <<>> /\ Head(actor.todo).do = "resolve"
        /\ Ep = Head(actor.todo).ep
    BY <1>3 DEF ResolveLink, At, Ep
  <2>2. Ep.link \in AllLinks
    BY <1>1, <2>1, TailIs DEF Actors, StepSet, ContainerEps, HostEndpoint, AllLinks
  <2>3. Device(Ep.link) \in Nat
    BY <2>2, DeviceIs DEF TypeInv
  <2> QED
    BY <1>1, <1>3, <2>1, <2>3, ResolvedIs DEF ResolveLink, ActorType
<1>4. CASE Receive
  <2>1. Head(queue) \in Commands
    BY <1>4, HeadTailProperties DEF Receive, TypeInv, LoaderType
  <2>2. StepsOf(Head(queue)) \subseteq Whole
    BY <2>1, StepsOfAreWhole
  <2>3. <<Do("list", None)>> \in Whole /\ <<>> \in Whole
    BY SingleIsWhole, NothingIsWhole DEF StepEps
  <2>4. Whole \subseteq Operations
    BY DEF Whole
  <2>5. PICK steps \in StepsOf(Head(queue)), next \in {<<Do("list", None)>>, <<>>} :
           actor' = [cmd |-> Head(queue), todo |-> steps,
                     rest |-> StepsOf(Head(queue)) \ {steps}, then |-> next,
                     index |-> 0, failed |-> FALSE]
    BY <1>4 DEF Receive
  <2> HIDE DEF Whole, Commands
  <2> QED
    BY <2>1, <2>2, <2>3, <2>4, <2>5 DEF ActorType, Actors
<1>5. CASE TakeUp
  <2>1. actor \in Actors
    BY <1>5 DEF TakeUp, TypeInv, ActorType
  <2>2. <<>> \in Whole /\ Whole \subseteq Operations
    BY NothingIsWhole DEF Whole
  <2> QED
    BY <1>5, <2>1, <2>2 DEF TakeUp, ActorType, Actors
<1>6. CASE Reply
  BY <1>6 DEF Reply, ActorType
<1>7. ASSUME actor \in Actors, NEW R \in SUBSET Whole, NEW next \in Whole,
             actor' = [actor EXCEPT !.todo = <<>>, !.then = next, !.rest = R]
      PROVE  ActorType'
  <2>1. <<>> \in Operations
    BY NothingIsWhole DEF Whole
  <2> QED
    BY <1>7, <2>1 DEF ActorType, Actors
<1>8. CASE ListPins
  <2>1. actor # None /\ actor.todo # <<>> /\ actor \in Actors
    BY <1>1, <1>8 DEF ListPins, At
  <2>2. CASE actor.cmd.op = "list"
    BY <1>1, <1>8, <2>1, <2>2 DEF ListPins
  <2>3. CASE actor.cmd.op # "list"
    <3> DEFINE R == {DetachSteps(Endpoint(l, None, 0)) : l \in Stale(actor.cmd.eps)}
    <3>1. actor' = [actor EXCEPT !.todo = <<>>, !.then = <<Do("infos", None)>>, !.rest = R]
      BY <1>8, <2>3 DEF ListPins
    <3>2. HostEndpoint \in actor.cmd.eps
      <4>1. Head(actor.todo).do = "list"
        BY <1>8 DEF ListPins, At
      <4>2. Lists(actor.todo)
        BY <2>1, <4>1, TailIs DEF Lists, Actors
      <4> QED
        BY <2>1, <2>3, <4>2 DEF ListInv, Actors, Commands
    <3>3. Stale(actor.cmd.eps) \subseteq Containers
      BY <3>2 DEF Stale, Listed, Links, AllLinks, HostEndpoint
    <3>4. \A l \in Containers : Endpoint(l, None, 0) \in StepEps
                               /\ Endpoint(l, None, 0).link \in Containers
      BY DEF Endpoint, StepEps, AllLinks
    <3>5. R \subseteq Whole
      BY <3>3, <3>4, DetachIsWhole
    <3>6. <<Do("infos", None)>> \in Whole
      BY SingleIsWhole DEF StepEps
    <3> QED
      BY <1>7, <2>1, <3>1, <3>5, <3>6
  <2> QED
    BY <2>2, <2>3
<1>9. CASE ListEndpointInfos
  <2>1. actor # None /\ actor.todo # <<>> /\ actor \in Actors
    BY <1>1, <1>9 DEF ListEndpointInfos, At
  <2> DEFINE R == {<<Do("forget", Endpoint(None, ip, 0))>> :
                     ip \in {a \in Ips : lxc[a] # None} \ {ep.ip : ep \in actor.cmd.eps}}
  <2>2. actor' = [actor EXCEPT !.todo = <<>>, !.rest = R]
    BY <1>9 DEF ListEndpointInfos
  <2>3. \A ip \in Ips : Endpoint(None, ip, 0) \in StepEps
    BY DEF Endpoint, StepEps
  <2>4. R \subseteq Whole
    BY <2>3, SingleIsWhole
  <2>5. <<>> \in Operations
    BY NothingIsWhole DEF Whole
  <2> QED
    BY <2>1, <2>2, <2>4, <2>5 DEF ActorType, Actors
<1> QED
  BY <1>2, <1>3, <1>4, <1>5, <1>6, <1>8, <1>9 DEF Work

LEMMA WorkKeepsListInv ==
    ASSUME TypeInv, ListInv, Work \/ BackendFails
    PROVE  ListInv'
<1>1. ASSUME actor # None, actor.todo # <<>>
      PROVE  /\ actor \in Actors
             /\ Advance \/ NoteFailure \/ Abandon => ListInv'
  <2>1. actor \in Actors
    BY <1>1 DEF TypeInv, ActorType
  <2>2. actor.todo \in Operations
    BY <2>1 DEF Actors
  <2> QED
    BY <1>1, <2>1, <2>2, AdvanceIs, NoteFailureIs, AbandonIs, TailLists DEF ListInv
<1>2. CASE LoadGlobalMaps \/ LoadInstance \/ SetEndpointConfig \/ UpsertEndpointInfo
           \/ RemoveEndpointInfo \/ StopLogging \/ RemovePinDir \/ UnpinMap \/ TeardownAll
           \/ BackendFails \/ \E h \in Hooks : EnsureAttached(h)
  BY <1>1, <1>2 DEF At, LoadGlobalMaps, LoadInstance, SetEndpointConfig, UpsertEndpointInfo,
     RemoveEndpointInfo, StopLogging, RemovePinDir, UnpinMap, TeardownAll, BackendFails,
     EnsureAttached
<1>3. CASE ResolveLink
  <2>1. /\ actor # None /\ actor.todo # <<>> /\ Head(actor.todo).do = "resolve"
        /\ Ep = Head(actor.todo).ep
    BY <1>3 DEF ResolveLink, At, Ep
  <2>2. Ep.link \in AllLinks
    BY <1>1, <2>1, TailIs DEF Actors, StepSet, ContainerEps, HostEndpoint, AllLinks
  <2>3. Device(Ep.link) \in Nat
    BY <2>2, DeviceIs DEF TypeInv
  <2>4. Lists(Tail(actor.todo)) => Lists(actor.todo)
    BY <1>1, <2>1, TailLists DEF Actors
  <2>5. CASE Abandon
    BY <1>1, <2>1, <2>5
  <2>6. CASE actor' = [actor EXCEPT !.index = Device(Ep.link), !.todo = Tail(@)]
    BY <1>1, <2>1, <2>3, <2>4, <2>6, ResolvedIs DEF ListInv
  <2> QED
    BY <1>3, <2>5, <2>6 DEF ResolveLink
<1>4. CASE Receive
  <2>1. Head(queue) \in Commands
    BY <1>4, HeadTailProperties DEF Receive, TypeInv, LoaderType
  <2>2. PICK steps \in StepsOf(Head(queue)) :
           actor' = [cmd |-> Head(queue), todo |-> steps,
                     rest |-> StepsOf(Head(queue)) \ {steps},
                     then |-> IF Head(queue).op = "reconcile" THEN <<Do("list", None)>>
                              ELSE <<>>,
                     index |-> 0, failed |-> FALSE]
    BY <1>4 DEF Receive
  <2> QED
    BY <2>1, <2>2, StepsOfList DEF ListInv
<1>5. CASE TakeUp
  <2>1. actor \in Actors /\ actor # None
    BY <1>5 DEF TakeUp, TypeInv, ActorType
  <2> QED
    BY <1>5, <2>1 DEF TakeUp, ListInv, Actors
<1>6. CASE Reply
  BY <1>6 DEF Reply, ListInv
<1>7. CASE ListPins
  <2>1. actor # None /\ actor.todo # <<>> /\ actor \in Actors
    BY <1>1, <1>7 DEF ListPins, At
  <2>2. CASE actor.cmd.op = "list"
    BY <1>1, <1>7, <2>1, <2>2 DEF ListPins
  <2>3. CASE actor.cmd.op # "list"
    <3> DEFINE R == {DetachSteps(Endpoint(l, None, 0)) : l \in Stale(actor.cmd.eps)}
    <3>1. actor' = [actor EXCEPT !.todo = <<>>, !.then = <<Do("infos", None)>>, !.rest = R]
      BY <1>7, <2>3 DEF ListPins
    <3>2. HostEndpoint \in actor.cmd.eps /\ actor.cmd.op = "reconcile"
      <4>1. Head(actor.todo).do = "list"
        BY <1>7 DEF ListPins, At
      <4>2. Lists(actor.todo)
        BY <2>1, <4>1, TailIs DEF Lists, Actors
      <4> QED
        BY <2>1, <2>3, <4>2 DEF ListInv, Actors, Commands
    <3>3. Stale(actor.cmd.eps) \subseteq Containers
      BY <3>2 DEF Stale, Listed, Links, AllLinks, HostEndpoint
    <3>4. \A l \in Containers : Endpoint(l, None, 0) \in StepEps
                               /\ Endpoint(l, None, 0).link \in Containers
      BY DEF Endpoint, StepEps, AllLinks
    <3>5. \A s \in R : ~Lists(s)
      BY <3>3, <3>4, DetachNeverLists
    <3>6. ~Lists(<<>>)
      BY DEF Lists
    <3> HIDE DEF R
    <3> QED
      BY <2>1, <3>1, <3>2, <3>5, <3>6 DEF ListInv, Actors
  <2> QED
    BY <2>2, <2>3
<1>8. CASE ListEndpointInfos
  <2>1. actor # None /\ actor.todo # <<>> /\ actor \in Actors
    BY <1>1, <1>8 DEF ListEndpointInfos, At
  <2> DEFINE R == {<<Do("forget", Endpoint(None, ip, 0))>> :
                     ip \in {a \in Ips : lxc[a] # None} \ {ep.ip : ep \in actor.cmd.eps}}
  <2>2. actor' = [actor EXCEPT !.todo = <<>>, !.rest = R]
    BY <1>8 DEF ListEndpointInfos
  <2>3. ASSUME NEW ip \in Ips PROVE ~Lists(<<Do("forget", Endpoint(None, ip, 0))>>)
    <3> DEFINE s == <<Do("forget", Endpoint(None, ip, 0))>>
    <3>1. Endpoint(None, ip, 0) \in StepEps
      BY DEF Endpoint, StepEps
    <3>2. DOMAIN s = {1} /\ s[1].do = "forget"
      BY <3>1, SingleStepIs
    <3> HIDE DEF s
    <3> QED
      BY <3>2 DEF Lists, s
  <2>4. \A s \in R : ~Lists(s)
    BY <2>3
  <2>5. ~Lists(<<>>)
    BY DEF Lists
  <2> HIDE DEF R
  <2> QED
    BY <2>1, <2>2, <2>4, <2>5 DEF ListInv, Actors
<1> QED
  BY <1>2, <1>3, <1>4, <1>5, <1>6, <1>7, <1>8 DEF Work

-----------------------------------------------------------------------------
(* What a call of the loader, and the end of the process, leave. *)

Command(op, c, eps) == [op |-> op, who |-> c, eps |-> eps]

LEMMA SendIs ==
    ASSUME LoaderType, NEW c \in Callers, NEW op, NEW eps, Send(c, op, eps),
           Command(op, c, eps) \in Commands
    PROVE  /\ LoaderType' /\ UNCHANGED <<loggers, actor, alive>>
           /\ call[c] = "idle"
           /\ \A d \in Callers \ {c} : call'[d] = call[d]
           /\ \/ alive /\ queue' = Append(queue, Command(op, c, eps)) /\ call'[c] = "waiting"
              \/ queue' = queue /\ call'[c] \in {"idle", "err"}
<1>1. Answer(c, FALSE) \in {"idle", "err"}
  BY DEF Answer
<1>2. CASE alive /\ queue' = Append(queue, Command(op, c, eps)) /\ call' = Waiting(c)
  BY <1>2 DEF Send, LoaderType, Waiting
<1>3. CASE queue' = queue /\ call' = [call EXCEPT ![c] = Answer(c, FALSE)]
  BY <1>1, <1>3 DEF Send, LoaderType
<1> QED
  BY <1>2, <1>3 DEF Send, Command

LEMMA ExitIs ==
    ASSUME Exit
    PROVE  /\ LoaderType' /\ ActorType' /\ actor' = None
           /\ queue' = <<>> /\ \A i \in DOMAIN queue' : FALSE
           /\ phase' = "down" /\ step' = 1
           /\ call' = [c \in Callers |-> "idle"]
           /\ request' = [l \in Containers |-> "none"]
           /\ phase' \in Phases /\ step' \in 1 .. 6
           /\ known' \in [Containers -> ContainerEps \cup {None}]
           /\ request' \in [Containers -> {"none", "accepted", "served"}]
BY DEF Exit, LoaderType, ActorType, Phases

(* The commands that are sent. *)
LEMMA EndpointsAre ==
    ASSUME DaemonType
    PROVE  /\ \A c \in Callers : Command("load", c, {}) \in Commands
                               /\ Command("list", c, {}) \in Commands
                               /\ Command("shutdown", c, {}) \in Commands
                               /\ Command("add", c, {HostEndpoint}) \in Commands
           /\ \A c \in Callers, ep \in ContainerEps :
                 Command("add", c, {ep}) \in Commands /\ Command("remove", c, {ep}) \in Commands
           /\ \A c \in Callers : Command("reconcile", c, Desired) \in Commands
<1>1. Desired \subseteq ContainerEps \cup {HostEndpoint} /\ HostEndpoint \in Desired
  BY DEF Desired, DaemonType
<1>2. \A op \in Ops, c \in Callers, eps \in SUBSET (ContainerEps \cup {HostEndpoint}) :
         /\ Command(op, c, eps).op = op /\ Command(op, c, eps).eps = eps
         /\ Command(op, c, eps) \in
              [op : Ops, who : Callers, eps : SUBSET (ContainerEps \cup {HostEndpoint})]
  BY DEF Command
<1>3. \A op \in Ops, c \in Callers, eps \in SUBSET (ContainerEps \cup {HostEndpoint}) :
         /\ op = "remove" => eps \subseteq ContainerEps
         /\ op = "reconcile" => HostEndpoint \in eps
         => Command(op, c, eps) \in Commands
  BY <1>2 DEF Commands
<1> QED
  BY <1>1, <1>3 DEF Ops

-----------------------------------------------------------------------------
(* The steps that call the loader, and their commands. *)

Sent(c, op, eps) ==
    /\ Command(op, c, eps) \in Commands
    /\ Send(c, op, eps)
    /\ op = "shutdown" => phase = "drained" /\ phase' = "joining"
    /\ c = "daemon" => \/ phase = "drained"
                       \/ /\ phase = "starting"
                          /\ step = 4 => op = "add" /\ eps = {HostEndpoint}
                          /\ step \in {1, 4, 6}

SendStep ==
    /\ \E c \in Callers, op \in Ops, eps \in SUBSET (ContainerEps \cup {HostEndpoint}) :
          Sent(c, op, eps)
    /\ phase' = phase \/ (phase = "drained" /\ phase' = "joining")
    /\ known' \in [Containers -> ContainerEps \cup {None}]
    /\ request' \in [Containers -> {"none", "accepted", "served"}]
    /\ \A l \in Containers : request[l] = "none" => request'[l] = "none"
    /\ owner' \in [Ips -> ContainerEps \cup {None}]
    /\ UNCHANGED <<kernel, step, faults, crashes>>

LEMMA SendSteps ==
    ASSUME KernelType, DaemonType,
           \/ AskLoader /\ UNCHANGED phase
           \/ ShutdownLoader \/ Reconcile
           \/ \E l \in Containers : \/ Regenerate(l) \/ DeleteEndpoint(l)
                                    \/ \E ip \in Ips : CreateEndpoint(l, ip)
    PROVE  SendStep
<1>1. "daemon" \in Callers /\ "manager" \in Callers /\ Containers \subseteq Callers
      /\ "daemon" \notin Containers
  BY NodeAssumption DEF Callers
<1>2. CASE AskLoader /\ UNCHANGED phase
  <2>1. step \in 1 .. 6
    BY DEF DaemonType
  <2>2. /\ phase = "starting" /\ StartSteps[step] \in {"load", "attach", "restore"}
        /\ phase' = phase
        /\ CASE StartSteps[step] = "load"    -> Send("daemon", "load", {})
             [] StartSteps[step] = "attach"  -> Send("daemon", "add", {HostEndpoint})
             [] StartSteps[step] = "restore" -> Send("daemon", "list", {})
        /\ UNCHANGED <<kernel, step, faults, crashes, known, request, owner>>
    BY <1>2 DEF AskLoader, Starting, history
  <2>3. /\ StartSteps[step] = "load" => step = 1
        /\ StartSteps[step] = "attach" => step = 4
        /\ StartSteps[step] = "restore" => step = 6
    BY <2>1 DEF StartSteps
  <2>4. CASE StartSteps[step] = "load"
    <3>1. Sent("daemon", "load", {})
      BY <1>1, <2>2, <2>3, <2>4, EndpointsAre DEF Sent
    <3> QED
      BY <1>1, <2>2, <3>1 DEF SendStep, Ops, DaemonType
  <2>5. CASE StartSteps[step] = "attach"
    <3>1. Sent("daemon", "add", {HostEndpoint})
      BY <1>1, <2>2, <2>3, <2>5, EndpointsAre DEF Sent
    <3> QED
      BY <1>1, <2>2, <3>1 DEF SendStep, Ops, DaemonType
  <2>6. CASE StartSteps[step] = "restore"
    <3>1. Sent("daemon", "list", {})
      BY <1>1, <2>2, <2>3, <2>6, EndpointsAre DEF Sent
    <3> QED
      BY <1>1, <2>2, <3>1 DEF SendStep, Ops, DaemonType
  <2> QED
    BY <2>2, <2>4, <2>5, <2>6
<1>3. CASE ShutdownLoader
  <2>1. Sent("daemon", "shutdown", {})
    BY <1>1, <1>3, EndpointsAre DEF ShutdownLoader, Sent
  <2> QED
    BY <1>1, <1>3, <2>1 DEF ShutdownLoader, SendStep, Ops, history, DaemonType
<1>4. CASE Reconcile
  <2>1. Sent("manager", "reconcile", Desired) /\ Desired \in SUBSET (ContainerEps \cup {HostEndpoint})
    BY <1>1, <1>4, EndpointsAre DEF Reconcile, Sent, Desired, DaemonType
  <2> QED
    BY <1>1, <1>4, <2>1 DEF Reconcile, SendStep, Ops, history, daemon, DaemonType
<1>5. ASSUME NEW l \in Containers, Regenerate(l) PROVE SendStep
  <2>1. known[l] \in ContainerEps
    BY <1>5 DEF Regenerate, DaemonType
  <2>2. Sent(l, "add", {known[l]})
    BY <1>1, <1>5, <2>1, EndpointsAre DEF Regenerate, Sent
  <2> QED
    BY <1>1, <1>5, <2>1, <2>2 DEF Regenerate, SendStep, Ops, history, daemon, DaemonType
<1>6. ASSUME NEW l \in Containers, DeleteEndpoint(l) PROVE SendStep
  <2>1. known[l] \in ContainerEps
    BY <1>6 DEF DeleteEndpoint, DaemonType
  <2>2. Sent("manager", "remove", {known[l]})
    BY <1>1, <1>6, <2>1, EndpointsAre DEF DeleteEndpoint, Sent
  <2>3. owner' \in [Ips -> ContainerEps \cup {None}]
    BY <1>6 DEF DeleteEndpoint, DaemonType
  <2> QED
    BY <1>1, <1>6, <2>1, <2>2, <2>3 DEF DeleteEndpoint, SendStep, Ops, DaemonType
<1>7. ASSUME NEW l \in Containers, NEW ip \in Ips, CreateEndpoint(l, ip)
      PROVE  SendStep
  <2>1. known'[l] = Endpoint(l, ip, veth[l])
    BY <1>7 DEF CreateEndpoint, DaemonType
  <2>2. known'[l] \in ContainerEps
    BY <1>7, <2>1 DEF Endpoint, ContainerEps, KernelType
  <2>3. Sent(l, "add", {known'[l]})
    BY <1>1, <1>7, <2>2, EndpointsAre DEF CreateEndpoint, Sent
  <2>4. /\ known' \in [Containers -> ContainerEps \cup {None}]
        /\ owner' \in [Ips -> ContainerEps \cup {None}]
    BY <1>7, <2>2 DEF CreateEndpoint, DaemonType
  <2>5. /\ request' \in [Containers -> {"none", "accepted", "served"}]
        /\ \A k \in Containers : request[k] = "none" => request'[k] = "none"
    BY <1>7 DEF CreateEndpoint, DaemonType
  <2> QED
    BY <1>1, <1>7, <2>2, <2>3, <2>4, <2>5 DEF CreateEndpoint, SendStep, Ops
<1> QED
  BY <1>2, <1>3, <1>4, <1>5, <1>6, <1>7

-----------------------------------------------------------------------------
(* Types. *)

LEMMA HeadIs ==
    ASSUME TypeInv, NEW do \in StepNames, At(do)
    PROVE  /\ actor \in Actors /\ actor.todo # <<>> /\ Ep = actor.todo[1].ep
           /\ actor.todo[1].do = do /\ 1 \in DOMAIN actor.todo
           /\ do \in {"config", "lxc"} => Ep \in ContainerEps
           /\ do \in {"resolve", "load", "ingress", "egress"} =>
                 Ep \in ContainerEps \cup {HostEndpoint}
           /\ do \in {"stop_logging", "unpin_links", "unpin_maps"} => Ep.link \in Containers
<1>1. actor # None /\ actor.todo # <<>> /\ Head(actor.todo).do = do
  BY DEF At
<1>2. actor \in Actors /\ actor.todo \in Operations
  BY <1>1 DEF TypeInv, ActorType, Actors
<1>3. /\ Head(actor.todo) = actor.todo[1] /\ Head(actor.todo) \in StepSet
      /\ 1 \in DOMAIN actor.todo
  BY <1>1, <1>2, TailIs
<1> QED
  BY <1>1, <1>2, <1>3 DEF Ep, StepSet

LEMMA EndpointIs ==
    ASSUME NEW ep \in ContainerEps \cup {HostEndpoint}
    PROVE  /\ ep.link \in AllLinks
           /\ ep \in ContainerEps =>
                 ep.link \in Containers /\ ep.ip \in Ips /\ ep.mac \in Nat
           /\ ep.link \in Containers => ep \in ContainerEps
           /\ ep.link = SARENA_HOST => ep = HostEndpoint
BY NodeAssumption DEF ContainerEps, HostEndpoint, AllLinks

(* Where upsert_tcx leaves a program. *)
LEMMA UpsertTcxIs ==
    ASSUME KernelType, NEW l \in AllLinks, NEW h \in Hooks
    PROVE  /\ UpsertTcx(l, h) \in Nat
           /\ UpsertTcx(l, h) \in {pins[l][h], Device(l)}
BY DeviceIs DEF UpsertTcx, KernelType

LEMMA WorkKeepsKernelType ==
    ASSUME TypeInv, Work \/ BackendFails
    PROVE  KernelType'
<1>0. /\ links \in Tables
      /\ veth \in [Containers -> Nat] /\ made \in Nat
      /\ config \in [AllLinks -> Configs \cup {None}]
      /\ pins \in [AllLinks -> [Hooks -> Nat]]
      /\ Containers \subseteq AllLinks
  BY DEF TypeInv, KernelType, AllLinks
<1>1. CASE UNCHANGED <<links, veth, made, config, pins>>
  BY <1>0, <1>1 DEF KernelType
<1>2. CASE LoadInstance
  <2>1. Ep.link \in AllLinks
    BY <1>2, HeadIs, EndpointIs DEF LoadInstance, StepNames
  <2>2. Zero \in Configs
    BY DEF Zero, Configs
  <2> QED
    BY <1>0, <1>2, <2>1, <2>2 DEF LoadInstance, Backend, KernelType
<1>3. CASE SetEndpointConfig
  <2>1. Ep \in ContainerEps
    BY <1>3, HeadIs DEF SetEndpointConfig, StepNames
  <2>2. Ep.link \in AllLinks /\ [host_mac |-> Ep.mac, ipv4 |-> Ep.ip] \in Configs
    BY <2>1, EndpointIs DEF Configs
  <2> QED
    BY <1>0, <1>3, <2>2 DEF SetEndpointConfig, Backend, KernelType
<1>4. ASSUME NEW h \in Hooks, EnsureAttached(h) PROVE KernelType'
  <2>1. Ep.link \in AllLinks
    BY <1>4, HeadIs, EndpointIs DEF EnsureAttached, StepNames, Hooks
  <2>2. UpsertTcx(Ep.link, h) \in Nat
    BY <2>1, UpsertTcxIs DEF TypeInv
  <2> QED
    BY <1>0, <1>4, <2>1, <2>2 DEF EnsureAttached, Backend, KernelType
<1>5. CASE RemovePinDir
  <2>1. Ep.link \in Containers
    BY <1>5, HeadIs DEF RemovePinDir, StepNames
  <2> QED
    BY <1>0, <1>5, <2>1 DEF RemovePinDir, Backend, KernelType
<1>6. CASE UnpinMap
  <2>1. Ep.link \in Containers
    BY <1>6, HeadIs DEF UnpinMap, StepNames
  <2> QED
    BY <1>0, <1>6, <2>1 DEF UnpinMap, Backend, KernelType
<1> QED
  BY <1>1, <1>2, <1>3, <1>4, <1>5, <1>6 DEF Work, Receive, TakeUp, Reply, LoadGlobalMaps,
     ResolveLink, UpsertEndpointInfo, RemoveEndpointInfo, StopLogging, ListPins,
     ListEndpointInfos, TeardownAll, BackendFails, Backend, kernel

(* An answer. *)
LEMMA AnswerIs ==
    ASSUME NEW c, NEW ok
    PROVE  /\ Answer(c, ok) \in {"idle", "ok", "err"}
           /\ Answer(c, ok) = "ok" => c = "daemon" /\ ok
BY DEF Answer

LEMMA ReplyIs ==
    ASSUME TypeInv, Reply
    PROVE  /\ LoaderType' /\ DaemonType'
           /\ \A c \in Callers \ {actor.cmd.who} :
                 \/ call'[c] = call[c]
                 \/ call'[c] \in {"idle", "err"} /\ actor.cmd.op = "shutdown"
           /\ actor.cmd.who \in Callers
           /\ call'[actor.cmd.who] = Answer(actor.cmd.who, ~actor.failed)
           /\ queue' = IF actor.cmd.op = "shutdown" THEN <<>> ELSE queue
           /\ \A l \in Containers : request'[l] \in {request[l], "none"}
           /\ UNCHANGED <<kernel, loggers, phase, step, known, deleted, faults, crashes>>
           /\ actor' = None /\ actor \in Actors /\ actor.todo = <<>>
<1>1. actor \in Actors /\ actor.cmd \in Commands /\ actor.cmd.who \in Callers
  BY DEF Reply, TypeInv, ActorType, Actors, Commands
<1>2. queue' = IF actor.cmd.op = "shutdown" THEN <<>> ELSE queue
  BY DEF Reply
<1>3. queue' \in Seq(Commands)
  BY <1>2 DEF TypeInv, LoaderType
<1> DEFINE lost == IF actor.cmd.op = "shutdown" THEN {queue[i].who : i \in DOMAIN queue} ELSE {}
<1>4. call' = [c \in Callers |-> CASE c = actor.cmd.who -> Answer(c, ~actor.failed)
                                    [] c # actor.cmd.who /\ c \in lost -> Answer(c, FALSE)
                                    [] OTHER -> call[c]]
  BY DEF Reply
<1>5. ASSUME NEW c \in Callers
      PROVE  /\ c = actor.cmd.who => call'[c] = Answer(c, ~actor.failed)
             /\ c # actor.cmd.who =>
                  \/ call'[c] = call[c]
                  \/ call'[c] \in {"idle", "err"} /\ actor.cmd.op = "shutdown"
             /\ call'[c] \in {"idle", "waiting", "ok", "err"}
  <2>1. call[c] \in {"idle", "waiting", "ok", "err"}
    BY DEF TypeInv, LoaderType
  <2>2. c \in lost => actor.cmd.op = "shutdown"
    OBVIOUS
  <2>3. Answer(c, FALSE) \in {"idle", "err"}
    BY DEF Answer
  <2> HIDE DEF lost
  <2>4. CASE c = actor.cmd.who
    BY <1>4, <2>4, AnswerIs
  <2>5. CASE c # actor.cmd.who /\ c \in lost
    BY <1>4, <2>2, <2>3, <2>5
  <2>6. CASE c # actor.cmd.who /\ c \notin lost
    BY <1>4, <2>1, <2>6
  <2> QED
    BY <2>4, <2>5, <2>6
<1> HIDE DEF lost
<1>6. LoaderType'
  BY <1>3, <1>4, <1>5 DEF LoaderType
<1>7. /\ request' \in [Containers -> {"none", "accepted", "served"}]
      /\ \A l \in Containers : request'[l] \in {request[l], "none"}
  BY DEF Reply, TypeInv, DaemonType
<1>8. owner' \in [Ips -> ContainerEps \cup {None}]
  <2> DEFINE new == {ep \in actor.cmd.eps : /\ actor.cmd.op = "add" /\ ~actor.failed
                                             /\ ep.link \in Containers \ deleted
                                             /\ known[ep.link] = ep
                                             /\ veth[ep.link] = ep.mac}
  <2>1. owner' = [ip \in Ips |-> IF \E ep \in new : ep.ip = ip
                                 THEN CHOOSE ep \in new : ep.ip = ip ELSE owner[ip]]
    BY DEF Reply
  <2>2. new \subseteq ContainerEps
    <3>1. actor.cmd.eps \subseteq ContainerEps \cup {HostEndpoint}
      BY <1>1 DEF Commands
    <3> QED
      BY <3>1, EndpointIs
  <2> HIDE DEF new
  <2>3. \A ip \in Ips : (\E ep \in new : ep.ip = ip) => (CHOOSE ep \in new : ep.ip = ip) \in new
    OBVIOUS
  <2> QED
    BY <2>1, <2>2, <2>3 DEF TypeInv, DaemonType
<1>9. DaemonType' /\ UNCHANGED <<kernel, loggers, phase, step, known, deleted, faults, crashes>>
      /\ actor' = None /\ actor.todo = <<>>
  BY <1>7, <1>8 DEF Reply, TypeInv, DaemonType
<1> QED
  BY <1>1, <1>2, <1>5, <1>6, <1>7, <1>9

LEMMA WorkKeepsOthers ==
    ASSUME TypeInv, Work \/ BackendFails
    PROVE  /\ LoaderType' /\ DaemonType' /\ phase' = phase /\ step' = step
           /\ Reply \/ UNCHANGED <<call, request, known, deleted, owner>>
<1>1. CASE Receive
  BY <1>1, HeadTailProperties DEF Receive, TypeInv, LoaderType, DaemonType, daemon, history
<1>2. CASE Reply
  BY <1>2, ReplyIs
<1>3. CASE UNCHANGED <<queue, call, daemon, owner>>
  BY <1>3 DEF TypeInv, LoaderType, DaemonType, daemon
<1> QED
  BY <1>1, <1>2, <1>3 DEF Work, TakeUp, LoadGlobalMaps, LoadInstance, SetEndpointConfig,
     EnsureAttached, RemovePinDir, UnpinMap,
     ResolveLink, UpsertEndpointInfo, RemoveEndpointInfo, StopLogging, ListPins,
     ListEndpointInfos, TeardownAll, BackendFails, Backend, history

(* The steps of the other actors that call the loader, end the process, or  *)
(* leave the loader alone.                                                  *)
ExitStep ==
    /\ Exit
    /\ links' \in Tables /\ DOMAIN links \subseteq DOMAIN links'
    /\ UNCHANGED <<rpFilter, veth, made, lxc, config, pins, owner>>

HostConfigured ==
    /\ phase = "starting" /\ step = 3
    /\ links' \in After(Requests)
    /\ step' = 4
    /\ UNCHANGED <<rpFilter, veth, made, lxc, config, pins, loader,
                   phase, known, deleted, request, history>>

(* Without directories to restore the daemon runs at once. *)
NothingRestored ==
    /\ phase = "starting" /\ step = 6 /\ phase' = "running"
    /\ call["daemon"] = "idle"
    /\ UNCHANGED <<kernel, loader, step, known, deleted, request, history>>

QuietStep ==
    \/ Start \/ SetAllRpFilter \/ WriteHostConfig
    \/ HostConfigured \/ NothingRestored
    \/ Stop \/ Drained \/ AbortTasks
    \/ \E l \in Containers : PlugIn(l) \/ Unplug(l) \/ Accept(l) \/ Hangup(l)

Answered ==
    /\ phase = "starting" /\ step \in {1, 4, 6}
    /\ call["daemon"] = "ok" /\ call' = [call EXCEPT !["daemon"] = "idle"]
    /\ IF step = 6 THEN phase' = "running" /\ step' = step
       ELSE step' = step + 1 /\ phase' = phase
    /\ UNCHANGED <<kernel, queue, actor, known, deleted, request, history>>

Asks ==
    \/ AskLoader \/ ShutdownLoader \/ Reconcile
    \/ \E l \in Containers : \/ Regenerate(l) \/ DeleteEndpoint(l)
                             \/ \E ip \in Ips : CreateEndpoint(l, ip)

LEMMA StepKinds ==
    ASSUME TypeInv, Next
    PROVE  \/ Work \/ BackendFails \/ (SendStep /\ Asks)
           \/ ExitStep \/ QuietStep \/ Answered
<1>1. CASE Work \/ BackendFails \/ Start \/ SetAllRpFilter \/ WriteHostConfig
           \/ Stop \/ Drained \/ AbortTasks
           \/ \E l \in Containers : PlugIn(l) \/ Unplug(l) \/ Accept(l) \/ Hangup(l)
  BY <1>1 DEF QuietStep
<1>2. CASE ShutdownLoader \/ Reconcile
           \/ \E l \in Containers : \/ Regenerate(l) \/ DeleteEndpoint(l)
                                    \/ \E ip \in Ips : CreateEndpoint(l, ip)
  BY <1>2, SendSteps DEF TypeInv, Asks
<1>3. CASE AskLoader
  <2>1. UNCHANGED phase \/ NothingRestored
    <3>1. step \in 1 .. 6
      BY DEF TypeInv, DaemonType
    <3>2. StartSteps[step] = "restore" => step = 6
      BY <3>1 DEF StartSteps
    <3> QED
      BY <1>3, <3>2 DEF AskLoader, Starting, NothingRestored
  <2> QED
    BY <1>3, <2>1, SendSteps DEF TypeInv, QuietStep, Asks
<1>4. links \in Tables
  BY DEF TypeInv, KernelType
<1>5. CASE Finish \/ ShutdownStepTimeout \/ Crash
  BY <1>4, <1>5 DEF Finish, ShutdownStepTimeout, Crash, ExitStep, kernel, history
<1>6. CASE ConfigureHost
  <2>1. CASE \E n \in 0 .. Requests - 1 : links' \in After(n) /\ Exit
    <3>1. PICK n \in 0 .. Requests - 1 : links' \in After(n)
      BY <2>1
    <3>2. links' \in Tables /\ DOMAIN links \subseteq DOMAIN links'
      <4>1. n \in 0 .. Requests
        BY DEF Requests
      <4> QED
        BY <1>4, <3>1, <4>1, AfterIs
    <3> QED
      BY <1>6, <2>1, <3>2 DEF ConfigureHost, ExitStep
  <2>2. CASE ~\E n \in 0 .. Requests - 1 : links' \in After(n) /\ Exit
    <3>1. /\ phase = "starting" /\ StartSteps[step] = "host"
          /\ links' \in After(Requests) /\ step' = step + 1
          /\ UNCHANGED <<rpFilter, veth, made, lxc, config, pins, loader,
                         phase, known, deleted, request, history>>
      BY <1>6, <2>2 DEF ConfigureHost, Starting, history
    <3>2. step \in 1 .. 6
      BY DEF TypeInv, DaemonType
    <3>3. step = 3
      BY <3>1, <3>2 DEF StartSteps
    <3> QED
      BY <3>1, <3>3 DEF HostConfigured, QuietStep
  <2> QED
    BY <2>1, <2>2
<1>7. CASE LoaderAnswered
  <2>1. step \in 1 .. 6
    BY DEF TypeInv, DaemonType
  <2>2. /\ phase = "starting" /\ StartSteps[step] \in {"load", "attach", "restore"}
        /\ UNCHANGED <<kernel, history>>
    BY <1>7 DEF LoaderAnswered, Starting
  <2>3. step \in {1, 4, 6} /\ (StartSteps[step] = "restore" <=> step = 6)
    BY <2>1, <2>2 DEF StartSteps
  <2>4. CASE Exit
    BY <1>4, <2>2, <2>4 DEF ExitStep, kernel, history
  <2>5. CASE ~Exit
    <3>1. /\ call["daemon"] = "ok"
          /\ call' = [call EXCEPT !["daemon"] = "idle"]
          /\ IF StartSteps[step] = "restore"
             THEN phase' = "running" /\ UNCHANGED step
             ELSE step' = step + 1 /\ UNCHANGED phase
          /\ UNCHANGED <<loggers, queue, actor, alive, known, deleted, request>>
      BY <1>7, <2>5 DEF LoaderAnswered
    <3> QED
      BY <2>2, <2>3, <3>1 DEF Answered
  <2> QED
    BY <2>4, <2>5
<1> QED
  BY <1>1, <1>2, <1>3, <1>5, <1>6, <1>7 DEF Next, Daemon, Environment

LEMMA QuietIs ==
    ASSUME TypeInv, QuietStep
    PROVE  /\ KernelType' /\ DaemonType' /\ UNCHANGED <<loggers, queue, actor, call>>
           /\ DOMAIN links \subseteq DOMAIN links'
<1>0. /\ links \in Tables
      /\ veth \in [Containers -> Nat] /\ made \in Nat
      /\ config \in [AllLinks -> Configs \cup {None}]
      /\ pins \in [AllLinks -> [Hooks -> Nat]]
      /\ phase \in Phases /\ step \in 1 .. 6
      /\ known \in [Containers -> ContainerEps \cup {None}]
      /\ request \in [Containers -> {"none", "accepted", "served"}]
      /\ owner \in [Ips -> ContainerEps \cup {None}]
  BY DEF TypeInv, KernelType, DaemonType
<1>1. CASE Start
  BY <1>0, <1>1 DEF Start, KernelType, DaemonType, Phases, kernel, history
<1>2. CASE SetAllRpFilter
  <2>1. step + 1 \in 1 .. 6
    BY <1>0, <1>2 DEF SetAllRpFilter, Starting, StartSteps
  <2> QED
    BY <1>0, <1>2, <2>1 DEF SetAllRpFilter, KernelType, DaemonType, loader, history
<1>3. CASE HostConfigured
  <2>1. Requests \in 0 .. Requests
    BY DEF Requests
  <2>2. links' \in Tables /\ DOMAIN links \subseteq DOMAIN links'
    BY <1>0, <1>3, <2>1, AfterIs DEF HostConfigured
  <2> QED
    BY <1>0, <1>3, <2>2 DEF HostConfigured, KernelType, DaemonType, loader, history
<1>4. CASE WriteHostConfig
  <2>1. step + 1 \in 1 .. 6
    BY <1>0, <1>4 DEF WriteHostConfig, Starting, StartSteps
  <2>2. SARENA_HOST \in AllLinks /\ Device(SARENA_HOST) \in Nat
    BY DeviceIs DEF TypeInv, AllLinks
  <2>3. [host_mac |-> Device(SARENA_HOST), ipv4 |-> InternalIp] \in Configs
    BY <2>2 DEF Configs
  <2> QED
    BY <1>0, <1>4, <2>1, <2>2, <2>3 DEF WriteHostConfig, KernelType, DaemonType, loader, history
<1>5. CASE NothingRestored
  BY <1>0, <1>5 DEF NothingRestored, KernelType, DaemonType, Phases, kernel, loader, history
<1>6. CASE Stop \/ Drained
  BY <1>0, <1>6 DEF Stop, Drained, KernelType, DaemonType, Phases, kernel, loader, history
<1>7. CASE AbortTasks
  BY <1>0, <1>7 DEF AbortTasks, KernelType, DaemonType, Phases, kernel, loader, history
<1>8. ASSUME NEW l \in Containers, PlugIn(l) \/ Accept(l) \/ Hangup(l)
      PROVE  /\ KernelType' /\ DaemonType' /\ UNCHANGED <<loggers, queue, actor, call>>
             /\ DOMAIN links \subseteq DOMAIN links'
  BY <1>0, <1>8 DEF PlugIn, Accept, Hangup, KernelType, DaemonType, kernel, loader,
     daemon, history
<1>9. ASSUME NEW l \in Containers, Unplug(l)
      PROVE  /\ KernelType' /\ DaemonType' /\ UNCHANGED <<loggers, queue, actor, call>>
             /\ DOMAIN links \subseteq DOMAIN links'
  <2>1. owner' \in [Ips -> ContainerEps \cup {None}]
    BY <1>0, <1>9 DEF Unplug
  <2> QED
    BY <1>0, <1>9, <2>1 DEF Unplug, KernelType, DaemonType, loader, daemon
<1> QED
  BY <1>1, <1>2, <1>3, <1>4, <1>5, <1>6, <1>7, <1>8, <1>9 DEF QuietStep

(* Types and the use of lists are invariant. *)
BaseInv == TypeInv /\ ListInv

LEMMA BaseInit == Init => BaseInv
<1> SUFFICES ASSUME Init PROVE BaseInv
  OBVIOUS
<1>1. KernelType
  BY DEF Init, KernelType, Tables
<1>2. ActorType /\ ListInv
  BY DEF Init, ActorType, ListInv
<1>3. LoaderType
  BY DEF Init, LoaderType
<1>4. DaemonType
  BY DEF Init, DaemonType, Phases
<1> QED
  BY <1>1, <1>2, <1>3, <1>4 DEF BaseInv, TypeInv

LEMMA BaseStep ==
    ASSUME BaseInv, [Next]_vars
    PROVE  BaseInv'
<1>1. TypeInv /\ ListInv
  BY DEF BaseInv
<1>2. CASE UNCHANGED vars
  BY <1>1, <1>2 DEF BaseInv, TypeInv, ListInv, KernelType, ActorType, LoaderType, DaemonType,
     vars, kernel, loader, daemon, history
<1>3. CASE Work \/ BackendFails
  BY <1>1, <1>3, WorkKeepsActorType, WorkKeepsListInv, WorkKeepsKernelType, WorkKeepsOthers
     DEF BaseInv, TypeInv
<1>4. CASE SendStep
  <2>1. LoaderType' /\ actor' = actor
    BY <1>1, <1>4, SendIs DEF SendStep, Sent, TypeInv
  <2>2. ActorType' /\ ListInv'
    BY <1>1, <2>1 DEF TypeInv, ActorType, ListInv
  <2>3. KernelType'
    BY <1>1, <1>4 DEF SendStep, TypeInv, KernelType, kernel
  <2>4. DaemonType'
    BY <1>1, <1>4 DEF SendStep, TypeInv, DaemonType, Phases
  <2> QED
    BY <2>1, <2>2, <2>3, <2>4 DEF BaseInv, TypeInv
<1>5. CASE ExitStep
  <2>1. KernelType'
    BY <1>1, <1>5 DEF ExitStep, TypeInv, KernelType
  <2>2. DaemonType'
    BY <1>1, <1>5, ExitIs DEF ExitStep, TypeInv, DaemonType
  <2> QED
    BY <1>5, <2>1, <2>2, ExitIs DEF ExitStep, BaseInv, TypeInv, ListInv
<1>6. CASE QuietStep
  <2>1. ActorType' /\ ListInv' /\ LoaderType'
    BY <1>1, <1>6, QuietIs DEF TypeInv, ActorType, ListInv, LoaderType
  <2> QED
    BY <1>1, <1>6, <2>1, QuietIs DEF BaseInv, TypeInv
<1>7. CASE Answered
  <2>1. ActorType' /\ ListInv' /\ LoaderType'
    BY <1>1, <1>7 DEF Answered, TypeInv, ActorType, ListInv, LoaderType
  <2>2. KernelType' /\ DaemonType'
    BY <1>1, <1>7 DEF Answered, TypeInv, KernelType, DaemonType, Phases, kernel, history
  <2> QED
    BY <2>1, <2>2 DEF BaseInv, TypeInv
<1> QED
  BY <1>1, <1>2, <1>3, <1>4, <1>5, <1>6, <1>7, StepKinds

LEMMA TypeCorrect == Spec => []BaseInv
<1>1. Init => BaseInv
  BY BaseInit
<1>2. BaseInv /\ [Next]_vars => BaseInv'
  BY BaseStep
<1> QED
  BY <1>1, <1>2, PTL DEF Spec

-----------------------------------------------------------------------------
(* The listeners drain before the loader is shut down. *)

ShutInv ==
    /\ phase # "joining" =>
          /\ \A i \in DOMAIN queue : queue[i].op # "shutdown"
          /\ actor # None => actor.cmd.op # "shutdown"
    /\ phase \in {"drained", "joining"} => \A l \in Containers : request[l] = "none"

(* What is queued was queued before, or is the command that was sent. *)
LEMMA AppendIs ==
    ASSUME NEW S, NEW q \in Seq(S), NEW c \in S
    PROVE  \A i \in DOMAIN Append(q, c) :
              (i \in DOMAIN q /\ Append(q, c)[i] = q[i]) \/ Append(q, c)[i] = c
<1>1. /\ Append(q, c) \in Seq(S) /\ Len(Append(q, c)) = Len(q) + 1
      /\ \A i \in 1 .. Len(q) : Append(q, c)[i] = q[i]
      /\ Append(q, c)[Len(q) + 1] = c
  BY AppendProperties
<1>2. DOMAIN Append(q, c) = 1 .. Len(q) + 1 /\ DOMAIN q = 1 .. Len(q) /\ Len(q) \in Nat
  BY <1>1, LenProperties
<1> QED
  BY <1>1, <1>2

LEMMA QueueTailIs ==
    ASSUME NEW S, NEW q \in Seq(S), q # <<>>
    PROVE  /\ Head(q) = q[1] /\ 1 \in DOMAIN q
           /\ \A i \in DOMAIN Tail(q) : i \in Nat /\ i + 1 \in DOMAIN q /\ Tail(q)[i] = q[i + 1]
<1>1. /\ Tail(q) \in Seq(S) /\ Len(Tail(q)) = Len(q) - 1
      /\ \A i \in 1 .. Len(Tail(q)) : Tail(q)[i] = q[i + 1]
  BY HeadTailProperties
<1>2. Len(q) \in Nat /\ DOMAIN q = 1 .. Len(q) /\ DOMAIN Tail(q) = 1 .. Len(Tail(q))
  BY <1>1, LenProperties
<1>3. Len(q) # 0
  OBVIOUS
<1> QED
  BY <1>1, <1>2, <1>3

(* Within a command, its thread takes no other. *)
LEMMA SameCommand ==
    ASSUME TypeInv, ListInv, Work \/ BackendFails, ~Receive, ~Reply
    PROVE  /\ actor # None /\ actor' # None => actor'.cmd = actor.cmd
           /\ actor # None /\ actor \in Actors /\ queue' = queue /\ call' = call
<1>1. actor # None /\ queue' = queue /\ call' = call
  BY DEF Work, TakeUp, LoadGlobalMaps, LoadInstance, SetEndpointConfig,
     EnsureAttached, RemovePinDir, UnpinMap, At,
     ResolveLink, UpsertEndpointInfo, RemoveEndpointInfo, StopLogging, ListPins,
     ListEndpointInfos, TeardownAll, BackendFails, Backend
<1>2. actor \in Actors
  BY <1>1 DEF TypeInv, ActorType
<1>3. actor' \in Actors => actor'.cmd = actor.cmd
  BY <1>2 DEF Work, TakeUp, LoadGlobalMaps, LoadInstance, SetEndpointConfig,
     EnsureAttached, RemovePinDir, UnpinMap, Advance, NoteFailure, Abandon, Actors,
     ResolveLink, UpsertEndpointInfo, RemoveEndpointInfo, StopLogging, ListPins,
     ListEndpointInfos, TeardownAll, BackendFails
<1>4. ActorType'
  BY WorkKeepsActorType
<1> QED
  BY <1>1, <1>2, <1>3, <1>4 DEF ActorType

LEMMA ShutStep ==
    ASSUME BaseInv, ShutInv, [Next]_vars
    PROVE  ShutInv'
<1>1. TypeInv /\ ListInv /\ queue \in Seq(Commands)
  BY DEF BaseInv, TypeInv, LoaderType
<1>2. CASE UNCHANGED vars
  BY <1>2 DEF ShutInv, vars, kernel, loader, daemon, history
<1>3. CASE Receive
  <2>1. actor'.cmd = queue[1] /\ 1 \in DOMAIN queue
    BY <1>1, <1>3, QueueTailIs DEF Receive
  <2>2. \A i \in DOMAIN queue' : i + 1 \in DOMAIN queue /\ queue'[i] = queue[i + 1]
    BY <1>1, <1>3, QueueTailIs DEF Receive
  <2> QED
    BY <1>3, <2>1, <2>2 DEF Receive, ShutInv, daemon
<1>4. CASE Reply
  <2>1. /\ queue' = (IF actor.cmd.op = "shutdown" THEN <<>> ELSE queue) /\ phase' = phase
        /\ \A l \in Containers : request'[l] \in {request[l], "none"}
        /\ actor' = None
    BY <1>1, <1>4, ReplyIs
  <2> QED
    BY <2>1 DEF ShutInv
<1>5. CASE (Work \/ BackendFails) /\ ~Receive /\ ~Reply
  <2>1. /\ actor # None /\ actor' # None => actor'.cmd = actor.cmd
        /\ actor # None /\ queue' = queue
    BY <1>1, <1>5, SameCommand
  <2>2. phase' = phase /\ request' = request
    BY <1>1, <1>5, WorkKeepsOthers
  <2> QED
    BY <2>1, <2>2 DEF ShutInv
<1>6. CASE SendStep
  <2>1. PICK c \in Callers, op \in Ops, eps \in SUBSET (ContainerEps \cup {HostEndpoint}) :
           Sent(c, op, eps)
    BY <1>6 DEF SendStep
  <2>2. actor' = actor /\ queue' \in {queue, Append(queue, Command(op, c, eps))}
    BY <1>1, <2>1, SendIs DEF Sent, TypeInv
  <2>3. \A i \in DOMAIN queue' :
           (i \in DOMAIN queue /\ queue'[i] = queue[i]) \/ queue'[i] = Command(op, c, eps)
    BY <1>1, <2>1, <2>2, AppendIs DEF Sent
  <2>4. phase' # "joining" => phase # "joining" /\ Command(op, c, eps).op # "shutdown"
    BY <1>6, <2>1 DEF SendStep, Sent, Command
  <2>5. phase' \in {"drained", "joining"} => phase \in {"drained", "joining"}
    BY <1>6 DEF SendStep
  <2> QED
    BY <1>6, <2>2, <2>3, <2>4, <2>5 DEF SendStep, ShutInv
<1>7. CASE ExitStep
  BY <1>7, ExitIs DEF ExitStep, ShutInv
<1>8. CASE QuietStep
  <2>1. queue' = queue /\ actor' = actor
    BY <1>1, <1>8, QuietIs
  <2>2. /\ phase' # "joining" => phase # "joining"
        /\ phase' \in {"drained", "joining"} => \A l \in Containers : request'[l] = "none"
    <3>1. request \in [Containers -> {"none", "accepted", "served"}]
      BY <1>1 DEF TypeInv, DaemonType
    <3> QED
      BY <1>8, <3>1 DEF QuietStep, Start, SetAllRpFilter, WriteHostConfig, HostConfigured,
         NothingRestored, Stop, Drained, AbortTasks, PlugIn, Unplug, Accept, Hangup, ShutInv,
         Starting, daemon
  <2> QED
    BY <2>1, <2>2 DEF ShutInv
<1>9. CASE Answered
  BY <1>9 DEF Answered, ShutInv
<1> QED
  BY <1>1, <1>2, <1>3, <1>4, <1>5, <1>6, <1>7, <1>8, <1>9, StepKinds

(* A request that the API server still serves is never cancelled by the    *)
(* shutdown of the loader, for any number of containers, any room in the   *)
(* channel, and wherever signals, crashes and deadlines fall: the shutdown *)
(* is sent once no request is left (RequestsAreServed).                    *)
THEOREM Served == Spec => []RequestsAreServed
<1>1. Init => ShutInv
  BY DEF Init, ShutInv
<1>2. BaseInv /\ ShutInv /\ [Next]_vars => ShutInv'
  BY ShutStep
<1>3. BaseInv /\ ShutInv => RequestsAreServed
  <2> SUFFICES ASSUME BaseInv, ShutInv,
                      NEW j \in DOMAIN queue, queue[j].who \in Containers,
                      request[queue[j].who] = "served"
               PROVE  /\ actor # None => actor.cmd.op # "shutdown"
                      /\ \A i \in 1 .. j - 1 : queue[i].op # "shutdown"
    BY DEF RequestsAreServed
  <2>1. phase # "joining"
    BY DEF ShutInv
  <2>2. \A i \in 1 .. j - 1 : i \in DOMAIN queue
    BY LenProperties DEF BaseInv, TypeInv, LoaderType
  <2> QED
    BY <2>1, <2>2 DEF ShutInv
<1> QED
  BY <1>1, <1>2, <1>3, TypeCorrect, PTL DEF Spec

-----------------------------------------------------------------------------
(* Indices are never used again, and a container's program is attached only *)
(* to devices of containers.                                                *)

Device3(i) == i = 0 \/ i \in 3 .. made + 2

NumberInv ==
    \A l \in Containers : Device3(veth[l]) /\ \A h \in Hooks : Device3(pins[l][h])

LEMMA NumberStep ==
    ASSUME BaseInv, NumberInv, [Next]_vars
    PROVE  NumberInv'
<1>1. /\ TypeInv /\ KernelType /\ Containers \subseteq AllLinks /\ made \in Nat
      /\ veth \in [Containers -> Nat] /\ pins \in [AllLinks -> [Hooks -> Nat]]
  BY DEF BaseInv, TypeInv, KernelType, AllLinks
<1>2. CASE UNCHANGED <<veth, made, pins>>
  BY <1>2 DEF NumberInv, Device3
<1>3. ASSUME NEW h \in Hooks, EnsureAttached(h) PROVE NumberInv'
  <2>1. Ep.link \in AllLinks
    BY <1>1, <1>3, HeadIs, EndpointIs DEF EnsureAttached, StepNames, Hooks
  <2>2. Ep.link \in Containers => Device3(UpsertTcx(Ep.link, h))
    <3>1. Ep.link \in Containers => Device(Ep.link) = veth[Ep.link]
      BY <1>1, <2>1, DeviceIs, NodeAssumption
    <3> QED
      BY <1>1, <2>1, <3>1, UpsertTcxIs DEF NumberInv
  <2>3. /\ pins' = [pins EXCEPT ![Ep.link][h] = UpsertTcx(Ep.link, h)]
        /\ veth' = veth /\ made' = made
    BY <1>3 DEF EnsureAttached, Backend
  <2> QED
    BY <1>1, <2>1, <2>2, <2>3 DEF NumberInv, Device3
<1>4. CASE RemovePinDir
  <2>1. Ep.link \in Containers
    BY <1>1, <1>4, HeadIs DEF RemovePinDir, StepNames
  <2>2. /\ pins' = [pins EXCEPT ![Ep.link] = [h \in Hooks |-> 0]]
        /\ veth' = veth /\ made' = made
    BY <1>4 DEF RemovePinDir, Backend
  <2> QED
    BY <1>1, <2>1, <2>2 DEF NumberInv, Device3
<1>5. ASSUME NEW l \in Containers, PlugIn(l) PROVE NumberInv'
  <2>1. made' = made + 1 /\ veth' = [veth EXCEPT ![l] = made' + 2] /\ pins' = pins
    BY <1>5 DEF PlugIn
  <2> QED
    BY <1>1, <2>1 DEF NumberInv, Device3
<1>6. ASSUME NEW l \in Containers, Unplug(l) PROVE NumberInv'
  <2>1. made' = made /\ veth' = [veth EXCEPT ![l] = 0] /\ pins' = pins
    BY <1>6 DEF Unplug
  <2> QED
    BY <1>1, <2>1 DEF NumberInv, Device3
<1>7. CASE SendStep \/ ExitStep \/ Answered
  BY <1>2, <1>7 DEF SendStep, ExitStep, Answered, kernel
<1>8. CASE QuietStep
  BY <1>2, <1>5, <1>6, <1>8 DEF QuietStep, Start, SetAllRpFilter, WriteHostConfig,
     HostConfigured, NothingRestored, Stop, Drained, AbortTasks, Accept, Hangup, kernel
<1>9. CASE Work \/ BackendFails
  BY <1>2, <1>3, <1>4, <1>9 DEF Work, Receive, TakeUp, Reply, LoadGlobalMaps, LoadInstance,
     SetEndpointConfig, UnpinMap, ResolveLink, UpsertEndpointInfo, RemoveEndpointInfo,
     StopLogging, ListPins, ListEndpointInfos, TeardownAll, BackendFails, Backend, kernel
<1>10. UNCHANGED vars => UNCHANGED <<veth, made, pins>>
  BY DEF vars, kernel
<1> QED
  BY <1>1, <1>2, <1>7, <1>8, <1>9, <1>10, StepKinds

-----------------------------------------------------------------------------
(* A container's configuration is written before its program is attached,  *)
(* and goes after it.                                                      *)

Written(c, l) == c[l] \notin {None, Zero}

(* What is left of an operation is in order, given the configurations c    *)
(* and the pins p.                                                         *)
InOrder(s, c, p) ==
    \A i \in DOMAIN s :
        /\ s[i].do = "ingress" /\ s[i].ep.link \in Containers =>
              \/ Written(c, s[i].ep.link)
              \/ \E j \in DOMAIN s : j < i /\ s[j].do = "config" /\ s[j].ep = s[i].ep
        /\ s[i].do = "unpin_maps" =>
              \/ p[s[i].ep.link]["ingress"] = 0
              \/ \E j \in DOMAIN s : j < i /\ s[j].do = "unpin_links" /\ s[j].ep = s[i].ep
        /\ s[i].do \in {"unpin_links", "unpin_maps"} =>
              \A j \in DOMAIN s : s[j].do # "ingress"

ConfigInv ==
    /\ NeverEmptyConfig
    /\ actor # None => InOrder(actor.todo, config, pins)

LEMMA WholeInOrder ==
    ASSUME NEW c, NEW p, NEW s \in Whole
    PROVE  InOrder(s, c, p)
BY DEF Whole, IsOrdered, InOrder

LEMMA NothingInOrder ==
    ASSUME NEW c, NEW p
    PROVE  InOrder(<<>>, c, p)
BY DEF InOrder

(* A step leaves the rest in order when it undoes nothing the rest needs   *)
(* and does its own part.                                                  *)
LEMMA TailInOrder ==
    ASSUME NEW s \in Operations, s # <<>>, NEW c, NEW d, NEW p, NEW q,
           InOrder(s, c, p),
           \A i \in DOMAIN s : s[i].do = "ingress" /\ Written(c, s[i].ep.link) =>
                                 Written(d, s[i].ep.link),
           \A i \in DOMAIN s : s[i].do = "unpin_maps" /\ p[s[i].ep.link]["ingress"] = 0 =>
                                 q[s[i].ep.link]["ingress"] = 0,
           s[1].do = "config" => Written(d, s[1].ep.link),
           s[1].do = "unpin_links" => q[s[1].ep.link]["ingress"] = 0
    PROVE  InOrder(Tail(s), d, q)
<1> DEFINE t == Tail(s)
<1>1. /\ t \in Operations
      /\ \A i \in DOMAIN t : i + 1 \in DOMAIN s /\ t[i] = s[i + 1] /\ i \in Nat \ {0}
      /\ \A i \in DOMAIN s : i \in Nat \ {0} /\ (i > 1 => i - 1 \in DOMAIN t)
  BY TailIs
<1>2. \A j \in DOMAIN s : j > 1 => j - 1 \in DOMAIN t /\ t[j - 1] = s[j]
  BY <1>1
<1> HIDE DEF t
<1> SUFFICES ASSUME NEW i \in DOMAIN t
             PROVE  /\ t[i].do = "ingress" /\ t[i].ep.link \in Containers =>
                          \/ Written(d, t[i].ep.link)
                          \/ \E j \in DOMAIN t : j < i /\ t[j].do = "config" /\ t[j].ep = t[i].ep
                    /\ t[i].do = "unpin_maps" =>
                          \/ q[t[i].ep.link]["ingress"] = 0
                          \/ \E j \in DOMAIN t : /\ j < i /\ t[j].do = "unpin_links"
                                                 /\ t[j].ep = t[i].ep
                    /\ t[i].do \in {"unpin_links", "unpin_maps"} =>
                          \A j \in DOMAIN t : t[j].do # "ingress"
  BY DEF InOrder, t
<1>3. i + 1 \in DOMAIN s /\ t[i] = s[i + 1] /\ i \in Nat
  BY <1>1
<1>4. ASSUME t[i].do = "ingress", t[i].ep.link \in Containers
      PROVE  \/ Written(d, t[i].ep.link)
             \/ \E j \in DOMAIN t : j < i /\ t[j].do = "config" /\ t[j].ep = t[i].ep
  <2>1. CASE Written(c, s[i + 1].ep.link)
    BY <1>3, <1>4, <2>1
  <2>2. CASE \E j \in DOMAIN s : j < i + 1 /\ s[j].do = "config" /\ s[j].ep = s[i + 1].ep
    <3>1. PICK j \in DOMAIN s : j < i + 1 /\ s[j].do = "config" /\ s[j].ep = s[i + 1].ep
      BY <2>2
    <3>2. j \in Nat \ {0}
      BY <1>1
    <3>3. CASE j = 1
      BY <1>3, <3>1, <3>3
    <3>4. CASE j > 1
      <4>1. j - 1 \in DOMAIN t /\ t[j - 1] = s[j] /\ j - 1 < i
        BY <1>2, <1>3, <3>1, <3>2, <3>4
      <4> QED
        BY <1>3, <3>1, <4>1
    <3> QED
      BY <3>2, <3>3, <3>4
  <2> QED
    BY <1>3, <1>4, <2>1, <2>2 DEF InOrder
<1>5. ASSUME t[i].do = "unpin_maps"
      PROVE  \/ q[t[i].ep.link]["ingress"] = 0
             \/ \E j \in DOMAIN t : j < i /\ t[j].do = "unpin_links" /\ t[j].ep = t[i].ep
  <2>1. CASE p[s[i + 1].ep.link]["ingress"] = 0
    BY <1>3, <1>5, <2>1
  <2>2. CASE \E j \in DOMAIN s : j < i + 1 /\ s[j].do = "unpin_links" /\ s[j].ep = s[i + 1].ep
    <3>1. PICK j \in DOMAIN s : j < i + 1 /\ s[j].do = "unpin_links" /\ s[j].ep = s[i + 1].ep
      BY <2>2
    <3>2. j \in Nat \ {0}
      BY <1>1
    <3>3. CASE j = 1
      BY <1>3, <3>1, <3>3
    <3>4. CASE j > 1
      <4>1. j - 1 \in DOMAIN t /\ t[j - 1] = s[j] /\ j - 1 < i
        BY <1>2, <1>3, <3>1, <3>2, <3>4
      <4> QED
        BY <1>3, <3>1, <4>1
    <3> QED
      BY <3>2, <3>3, <3>4
  <2> QED
    BY <1>3, <1>5, <2>1, <2>2 DEF InOrder
<1>6. ASSUME t[i].do \in {"unpin_links", "unpin_maps"}, NEW j \in DOMAIN t
      PROVE  t[j].do # "ingress"
  BY <1>1, <1>3, <1>6 DEF InOrder
<1> QED
  BY <1>4, <1>5, <1>6

(* New devices are nobody's pins: the programs that run stay the same.  *)
LEMMA ExistsKept ==
    ASSUME KernelType, KernelType', NumberInv, NeverEmptyConfig,
           \A l \in Containers : pins'[l]["ingress"] = pins[l]["ingress"]
                               /\ (Written(config, l) => Written(config', l)),
           \A l \in Containers : veth'[l] \in {veth[l], 0, made + 3}
    PROVE  NeverEmptyConfig'
<1> SUFFICES ASSUME NEW l \in Containers, Exists(pins[l]["ingress"])'
             PROVE  Written(config', l)
  BY DEF NeverEmptyConfig, Written
<1> DEFINE i == pins[l]["ingress"]
<1>1. /\ i # 0 /\ i \in 3 .. made + 2 /\ made \in Nat
      /\ i \in DOMAIN links' \/ \E k \in Containers : veth'[k] = i
  BY DEF Exists, NumberInv, Device3, Hooks, KernelType
<1>2. i \notin DOMAIN links'
  <2>1. \A P \in Pairs : DOMAIN P = {1, 2}
    BY DEF Pairs
  <2>2. links' \in Pairs \/ links' = <<>>
    BY DEF KernelType, Tables
  <2>3. links' = <<>> => DOMAIN links' = {}
    OBVIOUS
  <2>4. 1 # i /\ 2 # i
    BY <1>1
  <2> HIDE DEF i
  <2> QED
    BY <2>1, <2>2, <2>3, <2>4
<1>3. \E k \in Containers : veth[k] = i
  BY <1>1, <1>2
<1>4. Written(config, l)
  BY <1>1, <1>3 DEF Exists, NeverEmptyConfig, Written
<1> QED
  BY <1>4

(* The thread's calls of the backend. *)
LEMMA WorkKeepsConfig ==
    ASSUME BaseInv, NumberInv, ConfigInv, Work \/ BackendFails
    PROVE  ConfigInv'
<1>1. /\ TypeInv /\ ListInv /\ KernelType /\ Containers \subseteq AllLinks
      /\ config \in [AllLinks -> Configs \cup {None}]
      /\ pins \in [AllLinks -> [Hooks -> Nat]]
      /\ "ingress" \in Hooks
  BY DEF BaseInv, TypeInv, KernelType, AllLinks, Hooks
<1>2. ASSUME UNCHANGED <<links, veth, config, pins>>
      PROVE  NeverEmptyConfig'
  BY <1>2 DEF ConfigInv, NeverEmptyConfig, Exists
<1>3. ASSUME NEW s \in Operations, actor # None, s = actor.todo, s # <<>>
      PROVE  /\ InOrder(s, config, pins) /\ 1 \in DOMAIN s /\ Head(s) = s[1]
  BY <1>3, TailIs DEF ConfigInv
<1>4. CASE Receive \/ TakeUp \/ Reply \/ ListPins \/ ListEndpointInfos
           \/ LoadGlobalMaps \/ ResolveLink \/ UpsertEndpointInfo
           \/ RemoveEndpointInfo \/ StopLogging \/ TeardownAll \/ BackendFails
  <2>1. UNCHANGED <<links, veth, config, pins>>
    BY <1>4 DEF Receive, TakeUp, Reply, LoadGlobalMaps,
       ResolveLink, UpsertEndpointInfo, RemoveEndpointInfo, StopLogging, ListPins,
       ListEndpointInfos, TeardownAll, BackendFails, Backend, kernel
  <2>2. NeverEmptyConfig'
    BY <1>2, <2>1
  <2>3. ASSUME actor' # None, actor'.todo \in Whole \/ actor'.todo = <<>>
        PROVE  InOrder(actor'.todo, config', pins')
    BY <2>3, WholeInOrder, NothingInOrder
  <2>4. ASSUME actor # None, actor.todo # <<>>, actor \in Actors,
               actor'.todo = Tail(actor.todo),
               Head(actor.todo).do \notin {"config", "unpin_links"}
        PROVE  InOrder(actor'.todo, config', pins')
    <3>1. actor.todo \in Operations
      BY <2>4 DEF Actors
    <3>2. InOrder(actor.todo, config, pins) /\ Head(actor.todo) = actor.todo[1]
      BY <1>3, <2>4, <3>1
    <3> QED
      BY <2>1, <2>4, <3>1, <3>2, TailInOrder
  <2>5. ActorType' /\ (actor # None => actor \in Actors)
    BY <1>1, <1>4, WorkKeepsActorType DEF Work, TypeInv, ActorType
  <2>6. CASE Receive
    <3>1. Head(queue) \in Commands
      BY <1>1, <2>6, HeadTailProperties DEF Receive, TypeInv, LoaderType
    <3>2. actor'.todo \in Whole
      BY <2>6, <3>1, StepsOfAreWhole DEF Receive
    <3> QED
      BY <2>2, <2>3, <3>2 DEF ConfigInv
  <2>7. CASE TakeUp
    <3>1. actor \in Actors
      BY <2>5, <2>7 DEF TakeUp
    <3>2. actor'.todo \in Whole
      BY <2>7, <3>1 DEF TakeUp, Actors
    <3> QED
      BY <2>2, <2>3, <3>2 DEF ConfigInv
  <2>8. CASE Reply
    BY <2>2, <2>8 DEF ConfigInv, Reply
  <2>9. CASE ~Receive /\ ~TakeUp /\ ~Reply
    <3>1. actor # None /\ actor.todo # <<>> /\ actor \in Actors
      BY <1>4, <2>5, <2>9 DEF At, LoadGlobalMaps, ResolveLink, UpsertEndpointInfo,
         RemoveEndpointInfo, StopLogging, ListPins, ListEndpointInfos, TeardownAll, BackendFails
    <3>2. \/ actor'.todo = <<>>
          \/ /\ actor'.todo = Tail(actor.todo)
             /\ Head(actor.todo).do \notin {"config", "unpin_links"}
      BY <1>4, <2>9, <3>1 DEF At, LoadGlobalMaps, ResolveLink, UpsertEndpointInfo, Actors,
         RemoveEndpointInfo, StopLogging, ListPins, ListEndpointInfos, TeardownAll, BackendFails,
         Advance, Abandon, NoteFailure, Hooks
    <3> QED
      BY <2>2, <2>3, <2>4, <3>1, <3>2 DEF ConfigInv
  <2> QED
    BY <2>6, <2>7, <2>8, <2>9
<1>5. ASSUME NEW do \in StepNames, At(do)
      PROVE  /\ actor \in Actors /\ actor # None /\ actor.todo \in Operations
             /\ actor.todo # <<>>
             /\ InOrder(actor.todo, config, pins) /\ actor.todo[1].do = do
             /\ Ep = actor.todo[1].ep /\ 1 \in DOMAIN actor.todo
             /\ Advance \/ NoteFailure => actor'.todo = Tail(actor.todo)
             /\ \A i \in DOMAIN actor.todo : i \in Nat \ {0}
  <2>1. actor \in Actors /\ actor.todo # <<>> /\ actor # None
    BY <1>1, <1>5, HeadIs DEF At
  <2>2. actor.todo \in Operations
    BY <2>1 DEF Actors
  <2>3. actor.todo[1].do = do /\ Ep = actor.todo[1].ep /\ 1 \in DOMAIN actor.todo
    BY <1>1, <1>5, HeadIs
  <2> QED
    BY <1>3, <2>1, <2>2, <2>3, AdvanceIs, NoteFailureIs, TailIs
<1> DEFINE s == actor.todo
<1>6. CASE LoadInstance
  <2>1. /\ actor # None /\ s \in Operations /\ s # <<>> /\ InOrder(s, config, pins)
        /\ s[1].do = "load" /\ actor'.todo = Tail(s)
    BY <1>5, <1>6 DEF LoadInstance, StepNames
  <2>2. Ep.link \in AllLinks
    BY <1>1, <1>6, HeadIs, EndpointIs DEF LoadInstance, StepNames
  <2>3. /\ pins' = pins /\ veth' = veth
        /\ config' = [config EXCEPT ![Ep.link] = IF @ = None THEN Zero ELSE @]
    BY <1>6 DEF LoadInstance, Backend
  <2>4. \A l \in AllLinks : Written(config, l) => Written(config', l)
    BY <1>1, <2>2, <2>3 DEF Written
  <2>5. KernelType'
    BY <1>1, <1>6, WorkKeepsKernelType DEF Work
  <2>6. NeverEmptyConfig'
    <3>1. \A l \in Containers : veth'[l] \in {veth[l], 0, made + 3}
      BY <2>3
    <3> QED
      BY <1>1, <2>3, <2>4, <2>5, <3>1, ExistsKept DEF ConfigInv
  <2>7. \A i \in DOMAIN s : s[i].do = "ingress" => s[i].ep.link \in AllLinks
    BY <2>1, EndpointIs DEF Operations, StepSet
  <2>8. InOrder(Tail(s), config', pins')
    BY <2>1, <2>3, <2>4, <2>7, TailInOrder
  <2> QED
    BY <2>1, <2>6, <2>8 DEF ConfigInv
<1>7. CASE SetEndpointConfig
  <2>1. /\ actor # None /\ s \in Operations /\ s # <<>> /\ InOrder(s, config, pins)
        /\ s[1].do = "config" /\ Ep = s[1].ep /\ actor'.todo = Tail(s)
    BY <1>5, <1>7 DEF SetEndpointConfig, StepNames
  <2>2. Ep \in ContainerEps /\ Ep.link \in Containers /\ Ep.ip \in Ips /\ Ep.mac \in Nat
    BY <1>1, <1>7, HeadIs, EndpointIs DEF SetEndpointConfig, StepNames
  <2> DEFINE new == [host_mac |-> Ep.mac, ipv4 |-> Ep.ip]
  <2>3. pins' = pins /\ veth' = veth /\ config' = [config EXCEPT ![Ep.link] = new]
    BY <1>7 DEF SetEndpointConfig, Backend
  <2>4. new \notin {None, Zero}
    BY <2>2, NodeAssumption DEF Zero
  <2>5. \A l \in AllLinks : (Written(config, l) => Written(config', l))
      /\ Written(config', Ep.link)
    BY <1>1, <2>2, <2>3, <2>4 DEF Written
  <2>6. KernelType'
    BY <1>1, <1>7, WorkKeepsKernelType DEF Work
  <2>7. NeverEmptyConfig'
    <3>1. \A l \in Containers : veth'[l] \in {veth[l], 0, made + 3}
      BY <2>3
    <3> QED
      BY <1>1, <2>3, <2>5, <2>6, <3>1, ExistsKept DEF ConfigInv
  <2>8. \A i \in DOMAIN s : s[i].do = "ingress" => s[i].ep.link \in AllLinks
    BY <2>1, EndpointIs DEF Operations, StepSet
  <2>9. Written(config', Ep.link)
    BY <2>2, <2>5, <1>1
  <2>10. InOrder(Tail(s), config', pins')
    BY <2>1, <2>3, <2>5, <2>8, <2>9, TailInOrder
  <2> QED
    BY <2>1, <2>7, <2>10 DEF ConfigInv
<1>8. ASSUME NEW h \in Hooks, EnsureAttached(h) PROVE ConfigInv'
  <2>0. h \in StepNames
    BY DEF Hooks, StepNames
  <2>1. /\ actor # None /\ s \in Operations /\ s # <<>> /\ InOrder(s, config, pins)
        /\ s[1].do = h /\ Ep = s[1].ep /\ actor'.todo = Tail(s) /\ 1 \in DOMAIN s
        /\ \A i \in DOMAIN s : i \in Nat \ {0}
    BY <1>5, <1>8, <2>0 DEF EnsureAttached
  <2>2. Ep.link \in AllLinks
    BY <1>1, <1>8, HeadIs, EndpointIs DEF EnsureAttached, StepNames, Hooks
  <2>3. /\ pins' = [pins EXCEPT ![Ep.link][h] = UpsertTcx(Ep.link, h)]
        /\ config' = config /\ veth' = veth /\ links' = links
    BY <1>8 DEF EnsureAttached, Backend
  <2>4. \A l \in AllLinks : pins'[l]["ingress"] =
           IF l = Ep.link /\ h = "ingress" THEN UpsertTcx(Ep.link, h) ELSE pins[l]["ingress"]
    BY <1>1, <2>2, <2>3
  <2>5. h = "ingress" /\ Ep.link \in Containers => Written(config, Ep.link)
    BY <2>1 DEF InOrder
  <2>6. NeverEmptyConfig'
    BY <1>1, <2>3, <2>4, <2>5 DEF ConfigInv, NeverEmptyConfig, Exists, Written
  <2>7. \A i \in DOMAIN s : s[i].do = "unpin_maps" =>
           h # "ingress" /\ s[i].ep.link \in AllLinks
    BY <1>1, <2>1 DEF InOrder, Operations, StepSet
  <2>8. InOrder(Tail(s), config', pins')
    <3>1. \A i \in DOMAIN s : s[i].do = "unpin_maps" /\ pins[s[i].ep.link]["ingress"] = 0 =>
             pins'[s[i].ep.link]["ingress"] = 0
      BY <2>4, <2>7
    <3>2. s[1].do # "config" /\ s[1].do # "unpin_links"
      BY <2>1 DEF Hooks
    <3> QED
      BY <2>1, <2>3, <3>1, <3>2, TailInOrder
  <2> QED
    BY <2>1, <2>6, <2>8 DEF ConfigInv
<1>9. CASE RemovePinDir
  <2>1. /\ actor # None /\ s \in Operations /\ s # <<>> /\ InOrder(s, config, pins)
        /\ s[1].do = "unpin_links" /\ Ep = s[1].ep /\ actor'.todo = Tail(s)
    BY <1>5, <1>9 DEF RemovePinDir, StepNames
  <2>2. Ep.link \in Containers
    BY <1>1, <1>9, HeadIs DEF RemovePinDir, StepNames
  <2>3. /\ pins' = [pins EXCEPT ![Ep.link] = [h \in Hooks |-> 0]]
        /\ config' = config /\ veth' = veth /\ links' = links
    BY <1>9 DEF RemovePinDir, Backend
  <2>4. \A l \in AllLinks : pins'[l]["ingress"] = IF l = Ep.link THEN 0 ELSE pins[l]["ingress"]
    BY <1>1, <2>2, <2>3
  <2>5. NeverEmptyConfig'
    BY <1>1, <2>3, <2>4 DEF ConfigInv, NeverEmptyConfig, Exists
  <2>6. \A i \in DOMAIN s : s[i].do = "unpin_maps" => s[i].ep.link \in AllLinks
    BY <1>1, <2>1 DEF Operations, StepSet
  <2>7. InOrder(Tail(s), config', pins')
    <3>1. \A i \in DOMAIN s : s[i].do = "unpin_maps" /\ pins[s[i].ep.link]["ingress"] = 0 =>
             pins'[s[i].ep.link]["ingress"] = 0
      BY <2>4, <2>6
    <3>2. s[1].do # "config" /\ pins'[s[1].ep.link]["ingress"] = 0
      BY <1>1, <2>1, <2>2, <2>4
    <3>3. \A i \in DOMAIN s : s[i].do = "ingress" /\ Written(config, s[i].ep.link) =>
             Written(config', s[i].ep.link)
      BY <2>3
    <3>4. InOrder(s, config, pins) /\ s \in Operations /\ s # <<>>
      BY <2>1
    <3> HIDE DEF s
    <3> QED
      BY <3>1, <3>2, <3>3, <3>4, TailInOrder
  <2> QED
    BY <2>1, <2>5, <2>7 DEF ConfigInv
<1>10. CASE UnpinMap
  <2>1. /\ actor # None /\ s \in Operations /\ s # <<>> /\ InOrder(s, config, pins)
        /\ s[1].do = "unpin_maps" /\ Ep = s[1].ep /\ actor'.todo = Tail(s)
        /\ 1 \in DOMAIN s /\ \A i \in DOMAIN s : i \in Nat \ {0}
    BY <1>5, <1>10 DEF UnpinMap, StepNames
  <2>2. Ep.link \in Containers
    BY <1>1, <1>10, HeadIs DEF UnpinMap, StepNames
  <2>3. /\ config' = [config EXCEPT ![Ep.link] = None]
        /\ pins' = pins /\ veth' = veth /\ links' = links
    BY <1>10 DEF UnpinMap, Backend
  <2>4. pins[Ep.link]["ingress"] = 0 /\ \A i \in DOMAIN s : s[i].do # "ingress"
    BY <2>1 DEF InOrder
  <2>5. NeverEmptyConfig'
    BY <1>1, <2>2, <2>3, <2>4 DEF ConfigInv, NeverEmptyConfig, Exists
  <2>6. InOrder(Tail(s), config', pins')
    BY <2>1, <2>3, <2>4, TailInOrder
  <2> QED
    BY <2>1, <2>5, <2>6 DEF ConfigInv
<1> QED
  BY <1>4, <1>6, <1>7, <1>8, <1>9, <1>10 DEF Work

LEMMA ConfigStep ==
    ASSUME BaseInv, NumberInv, ConfigInv, [Next]_vars
    PROVE  ConfigInv'
<1>1. /\ TypeInv /\ KernelType /\ KernelType' /\ BaseInv'
  BY BaseStep DEF BaseInv, TypeInv
<1>2. CASE UNCHANGED vars
  BY <1>2 DEF ConfigInv, NeverEmptyConfig, Exists, vars, kernel, loader
<1>3. CASE Work \/ BackendFails
  BY <1>3, WorkKeepsConfig
<1>4. ASSUME actor' = actor \/ actor' = None, pins' = pins,
             \A l \in Containers : config'[l] = config[l] /\ veth'[l] \in {veth[l], 0, made + 3},
             config' = config \/ actor' = None \/ \A s \in Operations :
                InOrder(s, config, pins) => InOrder(s, config', pins)
      PROVE  ConfigInv'
  <2>1. NeverEmptyConfig'
    BY <1>1, <1>4, ExistsKept DEF ConfigInv, Written
  <2>2. actor # None => actor.todo \in Operations
    BY <1>1 DEF TypeInv, ActorType, Actors
  <2> QED
    BY <1>4, <2>1, <2>2 DEF ConfigInv
<1>5. CASE SendStep
  <2>1. actor' = actor
    BY <1>1, <1>5, SendIs DEF SendStep, Sent, TypeInv
  <2> QED
    BY <1>4, <1>5, <2>1 DEF SendStep, kernel
<1>6. CASE ExitStep
  BY <1>4, <1>6, ExitIs DEF ExitStep
<1>7. CASE Answered
  BY <1>4, <1>7 DEF Answered, kernel
<1>8. CASE QuietStep
  <2>1. actor' = actor
    BY <1>1, <1>8, QuietIs
  <2>2. ASSUME NEW l \in Containers, PlugIn(l) \/ Unplug(l) PROVE ConfigInv'
    <3>1. pins' = pins /\ config' = config
      BY <2>2 DEF PlugIn, Unplug
    <3>2. \A k \in Containers : veth'[k] \in {veth[k], 0, made + 3}
      BY <1>1, <2>2 DEF PlugIn, Unplug, KernelType
    <3> QED
      BY <1>4, <2>1, <3>1, <3>2
  <2>3. CASE WriteHostConfig
    <3>1. /\ pins' = pins /\ veth' = veth
          /\ config' = [config EXCEPT ![SARENA_HOST] =
                          [host_mac |-> Device(SARENA_HOST), ipv4 |-> InternalIp]]
      BY <2>3 DEF WriteHostConfig
    <3>2. \A l \in Containers : config'[l] = config[l]
      BY <1>1, <3>1, NodeAssumption DEF KernelType, AllLinks
    <3>3. \A s \in Operations : InOrder(s, config, pins) => InOrder(s, config', pins)
      BY <3>2 DEF InOrder, Written
    <3> QED
      BY <1>4, <2>1, <3>1, <3>2, <3>3
  <2>4. CASE UNCHANGED <<veth, config, pins>>
    BY <1>4, <2>1, <2>4
  <2> QED
    BY <1>8, <2>2, <2>3, <2>4 DEF QuietStep, Start, SetAllRpFilter, HostConfigured,
       NothingRestored, Stop, Drained, AbortTasks, Accept, Hangup, kernel
<1> QED
  BY <1>1, <1>2, <1>3, <1>5, <1>6, <1>7, <1>8, StepKinds

(* A container's program never runs against an empty configuration, for    *)
(* any number of containers and commands, whichever calls of the backend   *)
(* fail and wherever the daemon crashes: the configuration is written      *)
(* before the hooks are attached, and the pins go before the maps          *)
(* (NeverEmptyConfig).                                                     *)
THEOREM Configured == Spec => []NeverEmptyConfig
<1>1. Init => NumberInv /\ ConfigInv
  <2> SUFFICES ASSUME Init PROVE NumberInv /\ ConfigInv
    OBVIOUS
  <2>1. \A l \in Containers : veth[l] = 0 /\ \A h \in Hooks : pins[l][h] = 0
    BY DEF Init, AllLinks
  <2> QED
    BY <2>1 DEF Init, NumberInv, Device3, ConfigInv, NeverEmptyConfig, Exists, Hooks
<1>2. BaseInv /\ NumberInv /\ ConfigInv /\ [Next]_vars => NumberInv' /\ ConfigInv'
  BY NumberStep, ConfigStep
<1>3. ConfigInv => NeverEmptyConfig
  BY DEF ConfigInv
<1> QED
  BY <1>1, <1>2, <1>3, TypeCorrect, PTL DEF Spec

-----------------------------------------------------------------------------
(* The start of the daemon. *)

Mine(i) == queue[i].who = "daemon"

(* One call of the daemon's at a time. *)
FlightInv ==
    /\ \A i, j \in DOMAIN queue : Mine(i) /\ Mine(j) => i = j
    /\ \A i \in DOMAIN queue : Mine(i) => call["daemon"] = "waiting"
    /\ actor # None /\ actor.cmd.who = "daemon" =>
          call["daemon"] = "waiting" /\ \A i \in DOMAIN queue : ~Mine(i)

PhaseInv ==
    /\ phase = "down" => /\ step = 1 /\ call["daemon"] = "idle"
                         /\ actor = None /\ queue = <<>> /\ ~alive
    /\ phase \notin {"down", "starting"} => step = 6
    /\ step \in {2, 3, 5} => call["daemon"] = "idle"

LEMMA FlightStep ==
    ASSUME BaseInv, FlightInv, [Next]_vars
    PROVE  FlightInv'
<1>1. TypeInv /\ ListInv /\ queue \in Seq(Commands) /\ LoaderType
      /\ call \in [Callers -> {"idle", "waiting", "ok", "err"}] /\ "daemon" \in Callers
  BY DEF BaseInv, TypeInv, LoaderType, Callers
<1>2. CASE UNCHANGED <<queue, actor, call>>
  BY <1>2 DEF FlightInv, Mine
<1>3. CASE Receive
  <2>1. actor'.cmd = queue[1] /\ 1 \in DOMAIN queue /\ call' = call
    BY <1>1, <1>3, QueueTailIs DEF Receive
  <2>2. \A i \in DOMAIN queue' :
           i \in Nat /\ i + 1 \in DOMAIN queue /\ queue'[i] = queue[i + 1]
    BY <1>1, <1>3, QueueTailIs DEF Receive
  <2>3. \A i \in DOMAIN queue' : i + 1 # 1
    <3>1. DOMAIN queue' = 1 .. Len(queue')
      <4>1. queue' \in Seq(Commands)
        BY <1>1, <1>3, HeadTailProperties DEF Receive
      <4> QED
        BY <4>1, LenProperties
    <3> QED
      BY <3>1
  <2> QED
    BY <2>1, <2>2, <2>3 DEF FlightInv, Mine
<1>4. CASE Reply
  <2>1. /\ queue' = (IF actor.cmd.op = "shutdown" THEN <<>> ELSE queue)
        /\ actor' = None
        /\ actor.cmd.who # "daemon" => \/ call'["daemon"] = call["daemon"]
                                       \/ actor.cmd.op = "shutdown"
    BY <1>1, <1>4, ReplyIs
  <2>2. actor # None
    BY <1>4 DEF Reply
  <2> QED
    BY <2>1, <2>2 DEF FlightInv, Mine
<1>5. CASE (Work \/ BackendFails) /\ ~Receive /\ ~Reply
  <2>1. /\ actor # None /\ actor' # None => actor'.cmd = actor.cmd
        /\ actor # None /\ queue' = queue /\ call' = call
    BY <1>1, <1>5, SameCommand
  <2> QED
    BY <2>1 DEF FlightInv, Mine
<1>6. CASE SendStep
  <2>1. PICK c \in Callers, op \in Ops, eps \in SUBSET (ContainerEps \cup {HostEndpoint}) :
           Sent(c, op, eps)
    BY <1>6 DEF SendStep
  <2> DEFINE new == Command(op, c, eps)
  <2>2. /\ actor' = actor /\ call[c] = "idle" /\ new \in Commands /\ new.who = c
        /\ \A d \in Callers \ {c} : call'[d] = call[d]
        /\ \/ queue' = Append(queue, new) /\ call'[c] = "waiting"
           \/ queue' = queue
    BY <1>1, <2>1, SendIs DEF Sent, Command
  <2> HIDE DEF new
  <2>3. CASE queue' = queue
    BY <1>1, <2>2, <2>3 DEF FlightInv, Mine
  <2>4. CASE queue' = Append(queue, new) /\ call'[c] = "waiting"
    <3>1. /\ queue' \in Seq(Commands) /\ Len(queue') = Len(queue) + 1
          /\ \A i \in 1 .. Len(queue) : queue'[i] = queue[i]
          /\ queue'[Len(queue) + 1] = new
      BY <1>1, <2>2, <2>4, AppendProperties
    <3>2. DOMAIN queue' = 1 .. Len(queue) + 1 /\ DOMAIN queue = 1 .. Len(queue) /\ Len(queue) \in Nat
      BY <1>1, <3>1, LenProperties
    <3>3. CASE c = "daemon"
      <4>1. \A i \in DOMAIN queue : ~Mine(i)
        BY <2>2, <3>3 DEF FlightInv
      <4>2. \A i \in DOMAIN queue' : Mine(i)' => i = Len(queue) + 1
        BY <3>1, <3>2, <4>1 DEF Mine
      <4>3. actor' # None => actor'.cmd.who # "daemon"
        BY <2>2, <3>3 DEF FlightInv
      <4> QED
        BY <2>4, <3>3, <4>2, <4>3 DEF FlightInv
    <3>4. CASE c # "daemon"
      <4>1. \A i \in DOMAIN queue' : Mine(i)' => i \in DOMAIN queue /\ Mine(i)
        BY <2>2, <3>1, <3>2, <3>4 DEF Mine
      <4>2. call'["daemon"] = call["daemon"]
        BY <1>1, <2>2, <3>4
      <4> QED
        BY <2>2, <4>1, <4>2 DEF FlightInv
    <3> QED
      BY <3>3, <3>4
  <2> QED
    BY <2>2, <2>3, <2>4
<1>7. CASE ExitStep
  BY <1>7, ExitIs DEF ExitStep, FlightInv
<1>8. CASE QuietStep
  BY <1>1, <1>2, <1>8, QuietIs
<1>9. CASE Answered
  BY <1>9 DEF Answered, FlightInv, Mine
<1>10. UNCHANGED vars => UNCHANGED <<queue, actor, call>>
  BY DEF vars, loader
<1> QED
  BY <1>1, <1>2, <1>3, <1>4, <1>5, <1>6, <1>7, <1>8, <1>9, <1>10, StepKinds

LEMMA PhaseStep ==
    ASSUME BaseInv, ShutInv, FlightInv, PhaseInv, [Next]_vars
    PROVE  PhaseInv'
<1>1. TypeInv /\ ListInv /\ queue \in Seq(Commands) /\ LoaderType /\ step \in 1 .. 6
      /\ "daemon" \in Callers /\ call \in [Callers -> {"idle", "waiting", "ok", "err"}]
  BY DEF BaseInv, TypeInv, LoaderType, DaemonType, Callers
<1>2. CASE UNCHANGED <<queue, actor, call, phase, step, alive>>
  BY <1>2 DEF PhaseInv
<1>3. CASE Work \/ BackendFails
  <2>1. phase' = phase /\ step' = step /\ (Reply \/ call' = call)
    BY <1>1, <1>3, WorkKeepsOthers
  <2>2. phase # "down"
    <3>1. CASE Receive
      BY <3>1 DEF Receive, PhaseInv
    <3>2. CASE Reply
      BY <3>2 DEF Reply, PhaseInv
    <3>3. CASE ~Receive /\ ~Reply
      BY <1>1, <1>3, <3>3, SameCommand DEF PhaseInv
    <3> QED
      BY <3>1, <3>2, <3>3
  <2>3. ASSUME step \in {2, 3, 5} PROVE call'["daemon"] = "idle"
    <3>1. call["daemon"] = "idle" /\ phase # "joining"
      BY <2>3 DEF PhaseInv
    <3>2. CASE Reply
      <4>1. actor.cmd.who # "daemon" /\ actor.cmd.op # "shutdown"
        BY <3>1, <3>2 DEF FlightInv, ShutInv, Reply
      <4> QED
        BY <1>1, <3>1, <3>2, <4>1, ReplyIs
    <3> QED
      BY <2>1, <3>1, <3>2
  <2> QED
    BY <2>1, <2>2, <2>3 DEF PhaseInv
<1>4. CASE SendStep
  <2>1. PICK c \in Callers, op \in Ops, eps \in SUBSET (ContainerEps \cup {HostEndpoint}) :
           Sent(c, op, eps)
    BY <1>4 DEF SendStep
  <2>2. /\ actor' = actor /\ alive' = alive
        /\ \A d \in Callers \ {c} : call'[d] = call[d]
        /\ alive \/ queue' = queue
    BY <1>1, <2>1, SendIs DEF Sent
  <2>3. c = "daemon" => phase = "drained" \/ (phase = "starting" /\ step \in {1, 4, 6})
    BY <2>1 DEF Sent
  <2>4. step' = step /\ (phase' = phase \/ (phase = "drained" /\ phase' = "joining"))
    BY <1>4 DEF SendStep
  <2>5. CASE phase = "down"
    BY <1>1, <2>2, <2>3, <2>4, <2>5 DEF PhaseInv
  <2>6. CASE phase # "down"
    <3>1. step' \in {2, 3, 5} => call'["daemon"] = "idle"
      BY <1>1, <2>2, <2>3, <2>4 DEF PhaseInv
    <3>2. phase' # "down" /\ (phase' \notin {"down", "starting"} => step' = 6)
      BY <2>4, <2>6 DEF PhaseInv
    <3> QED
      BY <3>1, <3>2 DEF PhaseInv
  <2> QED
    BY <2>5, <2>6
<1>5. CASE ExitStep
  BY <1>1, <1>5, ExitIs DEF ExitStep, PhaseInv, Exit
<1>6. CASE Answered
  BY <1>1, <1>6 DEF Answered, PhaseInv
<1>7. CASE QuietStep
  <2>1. UNCHANGED <<queue, actor, call>>
    BY <1>1, <1>7, QuietIs
  <2>2. CASE Start
    BY <2>1, <2>2 DEF Start, PhaseInv
  <2>3. CASE SetAllRpFilter \/ WriteHostConfig
    <3>1. phase = "starting" /\ phase' = phase /\ step \in {2, 5} /\ step' = step + 1
      BY <1>1, <2>3 DEF SetAllRpFilter, WriteHostConfig, Starting, StartSteps
    <3> QED
      BY <2>1, <3>1 DEF PhaseInv
  <2>4. CASE HostConfigured \/ NothingRestored
    BY <2>1, <2>4 DEF HostConfigured, NothingRestored, PhaseInv
  <2>5. CASE Stop \/ Drained \/ AbortTasks
    BY <2>1, <2>5 DEF Stop, Drained, AbortTasks, PhaseInv
  <2>6. ASSUME NEW l \in Containers, PlugIn(l) \/ Unplug(l) \/ Accept(l) \/ Hangup(l)
        PROVE  PhaseInv'
    BY <1>2, <2>6 DEF PlugIn, Unplug, Accept, Hangup, loader, daemon
  <2> QED
    BY <1>7, <2>2, <2>3, <2>4, <2>5, <2>6 DEF QuietStep
<1>8. UNCHANGED vars => UNCHANGED <<queue, actor, call, phase, step, alive>>
  BY DEF vars, loader, daemon
<1> QED
  BY <1>1, <1>2, <1>3, <1>4, <1>5, <1>6, <1>7, <1>8, StepKinds

HostConfig == [host_mac |-> 1, ipv4 |-> InternalIp]

HostAttached == \A h \in Hooks : pins[SARENA_HOST][h] = 1

(* How far the start has come with the host's device. *)
HostInv ==
    /\ \A h \in Hooks : pins[SARENA_HOST][h] \in {0, 1}
    /\ step >= 3 => rpFilter = "0"
    /\ step >= 4 => HostIsSetUp(links, Requests)
    /\ step >= 5 => HostAttached
    /\ step >= 6 => config[SARENA_HOST] = HostConfig

(* The attachment of the host's programs, the daemon's call of its fourth  *)
(* step: unless it failed, each hook is pinned or still to be attached.    *)
AttachInv ==
    step = 4 =>
        /\ \A i \in DOMAIN queue : Mine(i) => queue[i].op = "add" /\ queue[i].eps = {HostEndpoint}
        /\ actor # None /\ actor.cmd.who = "daemon" =>
              /\ actor.cmd.op = "add" /\ actor.rest = {} /\ actor.then = <<>>
              /\ ~actor.failed =>
                    \A h \in Hooks : \/ pins[SARENA_HOST][h] = 1
                                    \/ \E i \in DOMAIN actor.todo :
                                          actor.todo[i].do = h /\ actor.todo[i].ep = HostEndpoint
        /\ call["daemon"] = "ok" => HostAttached

LEMMA UpsertHost ==
    ASSUME KernelType, NEW h \in Hooks, pins[SARENA_HOST][h] \in {0, 1}
    PROVE  /\ UpsertTcx(SARENA_HOST, h) \in {0, 1}
           /\ links \in Pairs => UpsertTcx(SARENA_HOST, h) = 1
<1>1. Device(SARENA_HOST) = IF links = <<>> THEN 0 ELSE 1
  BY DeviceIs DEF AllLinks
<1>2. links \in Pairs => links # <<>>
  <2>1. links \in Pairs => DOMAIN links = {1, 2}
    BY DEF Pairs
  <2>2. DOMAIN <<>> = {}
    OBVIOUS
  <2> QED
    BY <2>1, <2>2
<1>3. ~Exists(0)
  BY DEF Exists
<1> QED
  BY <1>1, <1>2, <1>3 DEF UpsertTcx

(* What the thread's calls do to the host's link. *)
LEMMA WorkOnHost ==
    ASSUME BaseInv, HostInv, Work \/ BackendFails
    PROVE  /\ links' = links /\ rpFilter' = rpFilter /\ step' = step
           /\ config[SARENA_HOST] \notin {None} => config'[SARENA_HOST] = config[SARENA_HOST]
           /\ \A h \in Hooks :
                 /\ pins'[SARENA_HOST][h] \in {0, 1}
                 /\ links \in Pairs /\ pins[SARENA_HOST][h] = 1 => pins'[SARENA_HOST][h] = 1
                 /\ links \in Pairs /\ EnsureAttached(h) /\ Ep = HostEndpoint =>
                       pins'[SARENA_HOST][h] = 1
<1>1. /\ TypeInv /\ KernelType /\ SARENA_HOST \in AllLinks /\ Containers \subseteq AllLinks
      /\ SARENA_HOST \notin Containers
      /\ config \in [AllLinks -> Configs \cup {None}]
      /\ pins \in [AllLinks -> [Hooks -> Nat]]
      /\ \A h \in Hooks : pins[SARENA_HOST][h] \in {0, 1}
  BY NodeAssumption DEF BaseInv, TypeInv, KernelType, AllLinks, HostInv
<1>2. links' = links /\ rpFilter' = rpFilter /\ step' = step
  BY DEF Work, Receive, TakeUp, Reply, LoadGlobalMaps, LoadInstance, SetEndpointConfig,
     EnsureAttached, RemovePinDir, UnpinMap, ResolveLink, UpsertEndpointInfo,
     RemoveEndpointInfo, StopLogging, ListPins, ListEndpointInfos, TeardownAll, BackendFails,
     Backend, kernel, daemon
<1>3. config[SARENA_HOST] # None => config'[SARENA_HOST] = config[SARENA_HOST]
  <2>1. CASE config' = config
    BY <2>1
  <2>2. CASE LoadInstance
    <3>1. Ep.link \in AllLinks
      BY <1>1, <2>2, HeadIs, EndpointIs DEF LoadInstance, StepNames
    <3> QED
      BY <1>1, <2>2, <3>1 DEF LoadInstance
  <2>3. CASE SetEndpointConfig
    <3>1. Ep.link \in Containers
      BY <1>1, <2>3, HeadIs, EndpointIs DEF SetEndpointConfig, StepNames
    <3> QED
      BY <1>1, <2>3, <3>1 DEF SetEndpointConfig
  <2>4. CASE UnpinMap
    <3>1. Ep.link \in Containers
      BY <1>1, <2>4, HeadIs DEF UnpinMap, StepNames
    <3> QED
      BY <1>1, <2>4, <3>1 DEF UnpinMap
  <2> QED
    BY <2>1, <2>2, <2>3, <2>4 DEF Work, Receive, TakeUp, Reply, LoadGlobalMaps,
       EnsureAttached, RemovePinDir, ResolveLink, UpsertEndpointInfo,
       RemoveEndpointInfo, StopLogging, ListPins, ListEndpointInfos, TeardownAll, BackendFails,
       kernel
<1>4. ASSUME NEW h \in Hooks
      PROVE  /\ pins'[SARENA_HOST][h] \in {0, 1}
             /\ links \in Pairs /\ pins[SARENA_HOST][h] = 1 => pins'[SARENA_HOST][h] = 1
             /\ links \in Pairs /\ EnsureAttached(h) /\ Ep = HostEndpoint =>
                   pins'[SARENA_HOST][h] = 1
  <2>1. ASSUME NEW g \in Hooks, EnsureAttached(g)
        PROVE  /\ pins'[SARENA_HOST][h] =
                     IF Ep = HostEndpoint /\ g = h THEN UpsertTcx(SARENA_HOST, h)
                     ELSE pins[SARENA_HOST][h]
    <3>1. Ep \in ContainerEps \cup {HostEndpoint}
      BY <1>1, <2>1, HeadIs DEF EnsureAttached, StepNames, Hooks
    <3>2. Ep.link \in AllLinks /\ (Ep.link = SARENA_HOST => Ep = HostEndpoint)
          /\ HostEndpoint.link = SARENA_HOST
      BY <3>1, EndpointIs DEF HostEndpoint
    <3>3. pins' = [pins EXCEPT ![Ep.link][g] = UpsertTcx(Ep.link, g)]
      BY <2>1 DEF EnsureAttached
    <3> QED
      BY <1>1, <3>2, <3>3
  <2>2. /\ UpsertTcx(SARENA_HOST, h) \in {0, 1}
        /\ links \in Pairs => UpsertTcx(SARENA_HOST, h) = 1
    BY <1>1, UpsertHost
  <2>3. CASE \E g \in Hooks : EnsureAttached(g)
    BY <1>1, <2>1, <2>2, <2>3
  <2>4. CASE ~\E g \in Hooks : EnsureAttached(g)
    <3>1. CASE RemovePinDir
      <4>1. Ep.link \in Containers
        BY <1>1, <3>1, HeadIs DEF RemovePinDir, StepNames
      <4> QED
        BY <1>1, <2>4, <3>1, <4>1 DEF RemovePinDir
    <3>2. CASE pins' = pins
      BY <1>1, <2>4, <3>2
    <3> QED
      BY <2>4, <3>1, <3>2 DEF Work, Receive, TakeUp, Reply, LoadGlobalMaps, LoadInstance,
         SetEndpointConfig, UnpinMap, ResolveLink, UpsertEndpointInfo, RemoveEndpointInfo,
         StopLogging, ListPins, ListEndpointInfos, TeardownAll, BackendFails, kernel
  <2> QED
    BY <2>3, <2>4
<1> QED
  BY <1>2, <1>3, <1>4

LEMMA HostStep ==
    ASSUME BaseInv, PhaseInv, HostInv, AttachInv, [Next]_vars
    PROVE  HostInv'
<1>1. /\ TypeInv /\ KernelType /\ step \in 1 .. 6 /\ SARENA_HOST \in AllLinks
      /\ config \in [AllLinks -> Configs \cup {None}]
      /\ HostConfig # None /\ Requests = 17 /\ links \in Tables
  BY NodeAssumption DEF BaseInv, TypeInv, KernelType, DaemonType, AllLinks, HostConfig, Requests
<1>2. CASE UNCHANGED <<links, rpFilter, config, pins, step>>
  BY <1>2 DEF HostInv, HostAttached
<1>3. step >= 4 => links \in Pairs
  BY <1>1 DEF HostInv, HostIsSetUp
<1>4. CASE Work \/ BackendFails
  <2>1. /\ links' = links /\ rpFilter' = rpFilter /\ step' = step
        /\ config[SARENA_HOST] # None => config'[SARENA_HOST] = config[SARENA_HOST]
        /\ \A h \in Hooks : pins'[SARENA_HOST][h] \in {0, 1}
        /\ links \in Pairs => \A h \in Hooks : pins[SARENA_HOST][h] = 1 =>
                                                 pins'[SARENA_HOST][h] = 1
    BY <1>4, WorkOnHost
  <2> QED
    BY <1>1, <1>3, <2>1 DEF HostInv, HostAttached
<1>5. CASE SendStep
  BY <1>2, <1>5 DEF SendStep, kernel
<1>6. CASE ExitStep
  <2>1. step' = 1 /\ pins' = pins
    BY <1>6, ExitIs DEF ExitStep
  <2> QED
    BY <2>1 DEF HostInv
<1>7. CASE Answered
  <2>1. UNCHANGED <<links, rpFilter, config, pins>>
    BY <1>7 DEF Answered, kernel
  <2>2. CASE step = 1
    <3>1. step' = 2
      BY <1>7, <2>2 DEF Answered
    <3> QED
      BY <2>1, <3>1 DEF HostInv
  <2>3. CASE step = 4
    <3>1. step' = 5 /\ HostAttached
      BY <1>7, <2>3 DEF Answered, AttachInv
    <3> QED
      BY <2>1, <2>3, <3>1 DEF HostInv, HostAttached
  <2>4. CASE step = 6
    <3>1. step' = step
      BY <1>7, <2>4 DEF Answered
    <3> QED
      BY <1>2, <2>1, <3>1
  <2> QED
    BY <1>7, <2>2, <2>3, <2>4 DEF Answered
<1>8. CASE QuietStep
  <2>1. CASE Start
    BY <2>1 DEF Start, HostInv, kernel
  <2>2. CASE SetAllRpFilter
    <3>1. step = 2 /\ step' = 3 /\ rpFilter' = "0" /\ UNCHANGED <<links, config, pins>>
      BY <1>1, <2>2 DEF SetAllRpFilter, Starting, StartSteps
    <3> QED
      BY <3>1 DEF HostInv
  <2>3. CASE HostConfigured
    <3>1. step = 3 /\ step' = 4 /\ links' \in After(Requests)
          /\ UNCHANGED <<rpFilter, config, pins>>
      BY <2>3 DEF HostConfigured
    <3>2. HostIsSetUp(links', Requests)
      BY <1>1, <3>1, AfterIs
    <3> QED
      BY <3>1, <3>2 DEF HostInv
  <2>4. CASE WriteHostConfig
    <3>1. step = 5 /\ step' = 6 /\ UNCHANGED <<links, rpFilter, pins>>
          /\ config' = [config EXCEPT ![SARENA_HOST] =
                          [host_mac |-> Device(SARENA_HOST), ipv4 |-> InternalIp]]
      BY <1>1, <2>4 DEF WriteHostConfig, Starting, StartSteps
    <3>2. Device(SARENA_HOST) = 1
      <4>1. links \in Pairs
        BY <1>3, <3>1
      <4>2. links # <<>>
        <5>1. DOMAIN links = {1, 2}
          BY <4>1 DEF Pairs
        <5>2. DOMAIN <<>> = {}
          OBVIOUS
        <5> QED
          BY <5>1, <5>2
      <4> QED
        BY <1>1, <4>2, DeviceIs
    <3>3. config'[SARENA_HOST] = HostConfig
      BY <1>1, <3>1, <3>2 DEF HostConfig
    <3> QED
      BY <3>1, <3>3 DEF HostInv, HostAttached
  <2>5. CASE NothingRestored \/ Stop \/ Drained \/ AbortTasks
    BY <1>2, <2>5 DEF NothingRestored, Stop, Drained, AbortTasks, kernel
  <2>6. ASSUME NEW l \in Containers, PlugIn(l) \/ Unplug(l) \/ Accept(l) \/ Hangup(l)
        PROVE  HostInv'
    BY <1>2, <2>6 DEF PlugIn, Unplug, Accept, Hangup, kernel, daemon
  <2> QED
    BY <1>8, <2>1, <2>2, <2>3, <2>4, <2>5, <2>6 DEF QuietStep
<1>9. UNCHANGED vars => UNCHANGED <<links, rpFilter, config, pins, step>>
  BY DEF vars, kernel, daemon
<1> QED
  BY <1>1, <1>2, <1>4, <1>5, <1>6, <1>7, <1>8, <1>9, StepKinds

(* The steps that are left, but the first, are left after it. *)
LEMMA StillLeft ==
    ASSUME NEW s \in Operations, s # <<>>, NEW i \in DOMAIN s, i # 1
    PROVE  \E j \in DOMAIN Tail(s) : Tail(s)[j] = s[i]
<1>1. i \in Nat \ {0} /\ (i > 1 => i - 1 \in DOMAIN Tail(s))
      /\ \A j \in DOMAIN Tail(s) : Tail(s)[j] = s[j + 1]
  BY TailIs
<1>2. i - 1 \in DOMAIN Tail(s) /\ (i - 1) + 1 = i
  BY <1>1
<1> QED
  BY <1>1, <1>2

Pending(h) ==
    \/ pins[SARENA_HOST][h] = 1
    \/ \E i \in DOMAIN actor.todo : actor.todo[i].do = h /\ actor.todo[i].ep = HostEndpoint

(* The thread at the daemon's call. *)
LEMMA AttachWork ==
    ASSUME BaseInv, HostInv, FlightInv, AttachInv, step = 4, Work \/ BackendFails,
           ~Receive, ~Reply, actor.cmd.who = "daemon"
    PROVE  /\ actor'.cmd.op = "add" /\ actor'.rest = {} /\ actor'.then = <<>>
           /\ ~actor'.failed => \A h \in Hooks : Pending(h)'
<1>1. /\ TypeInv /\ ListInv /\ actor # None /\ actor \in Actors /\ actor.todo \in Operations
  BY SameCommand DEF BaseInv, TypeInv, ActorType, Actors
<1>2. /\ actor.cmd.op = "add" /\ actor.rest = {} /\ actor.then = <<>>
      /\ ~actor.failed => \A h \in Hooks : Pending(h)
  BY <1>1 DEF AttachInv, Pending
<1>3. links \in Pairs
  BY DEF HostInv, HostIsSetUp, Requests
<1>4. \A h \in Hooks :
         /\ pins[SARENA_HOST][h] = 1 => pins'[SARENA_HOST][h] = 1
         /\ EnsureAttached(h) /\ Ep = HostEndpoint => pins'[SARENA_HOST][h] = 1
  BY <1>3, WorkOnHost
<1>5. actor.todo # <<>>
  BY <1>1, <1>2 DEF Work, TakeUp, LoadGlobalMaps, LoadInstance, SetEndpointConfig,
     EnsureAttached, RemovePinDir, UnpinMap, At,
     ResolveLink, UpsertEndpointInfo, RemoveEndpointInfo, StopLogging, ListPins,
     ListEndpointInfos, TeardownAll, BackendFails
<1>6. Head(actor.todo) = actor.todo[1] /\ 1 \in DOMAIN actor.todo
  BY <1>1, <1>5, TailIs
<1>7. Head(actor.todo).do \notin {"list", "infos"}
  BY <1>1, <1>2, <1>6 DEF ListInv, Lists
<1>8. CASE NoteFailure \/ Abandon
  BY <1>1, <1>2, <1>5, <1>8, NoteFailureIs, AbandonIs
<1>9. ASSUME actor'.todo = Tail(actor.todo), actor'.cmd = actor.cmd, actor'.rest = actor.rest,
             actor'.then = actor.then, actor'.failed = actor.failed,
             actor.todo[1].do \notin Hooks \/ EnsureAttached(actor.todo[1].do)
      PROVE  /\ actor'.cmd.op = "add" /\ actor'.rest = {} /\ actor'.then = <<>>
             /\ ~actor'.failed => \A h \in Hooks : Pending(h)'
  <2> SUFFICES ASSUME ~actor.failed, NEW h \in Hooks PROVE Pending(h)'
    BY <1>2, <1>9
  <2>1. CASE pins[SARENA_HOST][h] = 1
    BY <1>4, <2>1 DEF Pending
  <2>2. CASE pins[SARENA_HOST][h] # 1
    <3>1. PICK i \in DOMAIN actor.todo : actor.todo[i].do = h /\ actor.todo[i].ep = HostEndpoint
      BY <1>2, <2>2 DEF Pending
    <3>2. CASE i = 1
      <4>1. EnsureAttached(h) /\ Ep = HostEndpoint
        BY <1>6, <1>9, <3>1, <3>2 DEF Ep
      <4> QED
        BY <1>4, <4>1 DEF Pending
    <3>3. CASE i # 1
      <4>1. PICK j \in DOMAIN Tail(actor.todo) : Tail(actor.todo)[j] = actor.todo[i]
        BY <1>1, <1>5, <3>3, StillLeft
      <4> QED
        BY <1>9, <3>1, <4>1 DEF Pending
    <3> QED
      BY <3>2, <3>3
  <2> QED
    BY <2>1, <2>2
<1>10. CASE Advance
  <2>1. actor.todo[1].do \notin Hooks \/ EnsureAttached(actor.todo[1].do) \/ Abandon \/ NoteFailure
    BY <1>1, <1>2, <1>5, <1>6, <1>7 DEF Work, TakeUp, LoadGlobalMaps, LoadInstance,
       SetEndpointConfig, EnsureAttached, RemovePinDir, UnpinMap, At,
       ResolveLink, UpsertEndpointInfo, RemoveEndpointInfo, StopLogging, ListPins,
       ListEndpointInfos, TeardownAll, BackendFails, Hooks
  <2> QED
    BY <1>1, <1>5, <1>8, <1>9, <1>10, <2>1, AdvanceIs
<1>11. CASE ResolveLink
  <2>1. At("resolve") /\ actor.todo[1].do = "resolve"
    BY <1>6, <1>11 DEF ResolveLink, At
  <2>2. Device(Ep.link) \in Nat
    BY <1>1, <2>1, HeadIs, EndpointIs, DeviceIs DEF TypeInv, StepNames
  <2>3. CASE actor' = [actor EXCEPT !.index = Device(Ep.link), !.todo = Tail(@)]
    <3>1. "resolve" \notin Hooks
      BY DEF Hooks
    <3> QED
      BY <1>1, <1>5, <1>9, <2>1, <2>2, <2>3, <3>1, ResolvedIs
  <2> QED
    BY <1>8, <1>11, <2>3 DEF ResolveLink
<1> QED
  BY <1>1, <1>5, <1>6, <1>7, <1>8, <1>10, <1>11, <1>2 DEF Work, TakeUp, LoadGlobalMaps,
     LoadInstance, SetEndpointConfig, EnsureAttached, RemovePinDir, UnpinMap, At,
     UpsertEndpointInfo, RemoveEndpointInfo, StopLogging, ListPins,
     ListEndpointInfos, TeardownAll, BackendFails

LEMMA AttachStep ==
    ASSUME BaseInv, ShutInv, FlightInv, PhaseInv, HostInv, AttachInv, [Next]_vars
    PROVE  AttachInv'
<1>1. TypeInv /\ ListInv /\ queue \in Seq(Commands) /\ LoaderType /\ step \in 1 .. 6
      /\ "daemon" \in Callers /\ call \in [Callers -> {"idle", "waiting", "ok", "err"}]
  BY DEF BaseInv, TypeInv, LoaderType, DaemonType, Callers
<1>2. CASE UNCHANGED <<queue, actor, call, pins, step>>
  BY <1>2 DEF AttachInv, Mine, HostAttached
<1>3. links \in Pairs \/ step # 4
  BY DEF HostInv, HostIsSetUp, Requests
<1>4. CASE Work \/ BackendFails
  <2> SUFFICES ASSUME step = 4 PROVE AttachInv'
    <3>1. step' = step
      BY <1>4, WorkOnHost
    <3> QED
      BY <3>1 DEF AttachInv
  <2>1. HostAttached => HostAttached'
    BY <1>3, <1>4, WorkOnHost DEF HostAttached
  <2>2. CASE Receive
    <3>1. actor'.cmd = queue[1] /\ 1 \in DOMAIN queue /\ call' = call
      BY <1>1, <2>2, QueueTailIs DEF Receive
    <3>2. \A i \in DOMAIN queue' :
             i \in Nat /\ i + 1 \in DOMAIN queue /\ queue'[i] = queue[i + 1]
      BY <1>1, <2>2, QueueTailIs DEF Receive
    <3>3. ASSUME actor'.cmd.who = "daemon"
          PROVE  /\ actor'.cmd.op = "add" /\ actor'.rest = {} /\ actor'.then = <<>>
                 /\ \A h \in Hooks : Pending(h)'
      <4>1. queue[1].op = "add" /\ queue[1].eps = {HostEndpoint} /\ Head(queue) = queue[1]
        BY <1>1, <2>2, <3>1, <3>3, QueueTailIs DEF AttachInv, Mine, Receive
      <4>2. StepsOf(Head(queue)) = {AddSteps(HostEndpoint)}
        BY <4>1 DEF StepsOf
      <4>3. actor'.todo = AddSteps(HostEndpoint) /\ actor'.rest = {} /\ actor'.then = <<>>
        BY <2>2, <4>1, <4>2 DEF Receive
      <4> DEFINE s == AddSteps(HostEndpoint)
      <4>4. /\ DOMAIN s = 1 .. 4 /\ \A i \in 1 .. 4 : s[i].ep = HostEndpoint
            /\ s[3].do = "egress" /\ s[4].do = "ingress"
        BY HostStepsAre
      <4> HIDE DEF s
      <4>5. \A h \in Hooks : \E i \in DOMAIN s : s[i].do = h /\ s[i].ep = HostEndpoint
        <5>1. 3 \in DOMAIN s /\ 4 \in DOMAIN s /\ s[3].ep = HostEndpoint /\ s[4].ep = HostEndpoint
          BY <4>4
        <5> QED
          BY <4>4, <5>1 DEF Hooks
      <4> QED
        BY <3>1, <4>1, <4>3, <4>5 DEF Pending, s
    <3> QED
      BY <2>1, <3>1, <3>2, <3>3 DEF AttachInv, Mine, Pending
  <2>3. CASE Reply
    <3>1. /\ actor' = None /\ actor # None /\ actor.todo = <<>> /\ pins' = pins
          /\ call'[actor.cmd.who] = Answer(actor.cmd.who, ~actor.failed)
          /\ actor.cmd.who # "daemon" => \/ call'["daemon"] = call["daemon"]
                                         \/ call'["daemon"] \in {"idle", "err"}
          /\ queue' \in {<<>>, queue}
      BY <1>1, <2>3, ReplyIs DEF kernel, Reply
    <3>2. call'["daemon"] = "ok" => HostAttached
      <4>1. CASE actor.cmd.who # "daemon"
        BY <3>1, <4>1 DEF AttachInv
      <4>2. CASE actor.cmd.who = "daemon"
        <5>1. call'["daemon"] = "ok" => ~actor.failed
          BY <3>1, <4>2, AnswerIs
        <5>2. \A i \in DOMAIN actor.todo : FALSE
          BY <3>1
        <5> QED
          BY <3>1, <4>2, <5>1, <5>2 DEF AttachInv, HostAttached
      <4> QED
        BY <4>1, <4>2
    <3> QED
      BY <2>1, <3>1, <3>2 DEF AttachInv, Mine
  <2>4. CASE ~Receive /\ ~Reply
    <3>1. /\ actor # None /\ actor' # None => actor'.cmd = actor.cmd
          /\ actor # None /\ queue' = queue /\ call' = call
      BY <1>1, <1>4, <2>4, SameCommand
    <3>2. actor.cmd.who = "daemon" =>
             /\ actor'.cmd.op = "add" /\ actor'.rest = {} /\ actor'.then = <<>>
             /\ ~actor'.failed => \A h \in Hooks : Pending(h)'
      BY <1>4, <2>4, AttachWork
    <3> QED
      BY <2>1, <3>1, <3>2 DEF AttachInv, Mine, Pending
  <2> QED
    BY <2>2, <2>3, <2>4
<1>5. CASE SendStep
  <2>1. PICK c \in Callers, op \in Ops, eps \in SUBSET (ContainerEps \cup {HostEndpoint}) :
           Sent(c, op, eps)
    BY <1>5 DEF SendStep
  <2> DEFINE new == Command(op, c, eps)
  <2>2. /\ actor' = actor /\ new \in Commands /\ pins' = pins /\ step' = step
        /\ new.who = c /\ new.op = op /\ new.eps = eps
        /\ \A d \in Callers \ {c} : call'[d] = call[d]
        /\ call'[c] # "ok"
        /\ queue' \in {queue, Append(queue, new)}
    BY <1>1, <1>5, <2>1, SendIs DEF Sent, Command, SendStep, kernel
  <2>3. \A i \in DOMAIN queue' : (i \in DOMAIN queue /\ queue'[i] = queue[i]) \/ queue'[i] = new
    BY <1>1, <2>2, AppendIs
  <2>4. step = 4 /\ c = "daemon" => op = "add" /\ eps = {HostEndpoint}
    BY <2>1 DEF Sent, PhaseInv
  <2>5. call'["daemon"] = "ok" => call["daemon"] = "ok"
    BY <1>1, <2>2
  <2> HIDE DEF new
  <2> QED
    BY <2>2, <2>3, <2>4, <2>5 DEF AttachInv, Mine, HostAttached
<1>6. CASE ExitStep
  BY <1>6, ExitIs DEF ExitStep, AttachInv
<1>7. CASE Answered
  <2>1. step' # 4
    BY <1>7 DEF Answered
  <2> QED
    BY <2>1 DEF AttachInv
<1>8. CASE QuietStep
  <2>1. UNCHANGED <<queue, actor, call>>
    BY <1>1, <1>8, QuietIs
  <2>2. CASE HostConfigured
    <3>1. call["daemon"] = "idle"
      BY <2>2 DEF HostConfigured, PhaseInv
    <3> QED
      BY <2>1, <3>1 DEF AttachInv, FlightInv, Mine
  <2>3. CASE Start \/ SetAllRpFilter \/ WriteHostConfig
    <3>1. step' # 4
      BY <1>1, <2>3 DEF Start, SetAllRpFilter, WriteHostConfig, Starting, StartSteps
    <3> QED
      BY <3>1 DEF AttachInv
  <2>4. CASE NothingRestored \/ Stop \/ Drained \/ AbortTasks
    BY <1>2, <2>1, <2>4 DEF NothingRestored, Stop, Drained, AbortTasks, kernel
  <2>5. ASSUME NEW l \in Containers, PlugIn(l) \/ Unplug(l) \/ Accept(l) \/ Hangup(l)
        PROVE  AttachInv'
    BY <1>2, <2>1, <2>5 DEF PlugIn, Unplug, Accept, Hangup, kernel, daemon
  <2> QED
    BY <1>8, <2>2, <2>3, <2>4, <2>5 DEF QuietStep
<1>9. UNCHANGED vars => UNCHANGED <<queue, actor, call, pins, step>>
  BY DEF vars, kernel, loader, daemon
<1> QED
  BY <1>1, <1>2, <1>4, <1>5, <1>6, <1>7, <1>8, <1>9, StepKinds

BootInv == ShutInv /\ FlightInv /\ PhaseInv /\ HostInv /\ AttachInv

(* Once the daemon runs the host's device is complete, its programs are    *)
(* attached to it and their configuration is written, however many starts  *)
(* failed or crashed at any request or call before, and whatever the       *)
(* containers' endpoints do since (HostIsReady).                           *)
THEOREM HostReady == Spec => []HostIsReady
<1>1. Init => BootInv
  <2> SUFFICES ASSUME Init PROVE BootInv
    OBVIOUS
  <2>1. /\ ShutInv /\ FlightInv
    BY DEF Init, ShutInv, FlightInv
  <2>2. PhaseInv
    BY DEF Init, PhaseInv, Callers
  <2>3. HostInv /\ AttachInv
    BY DEF Init, HostInv, AttachInv, AllLinks
  <2> QED
    BY <2>1, <2>2, <2>3 DEF BootInv
<1>2. BaseInv /\ BootInv /\ [Next]_vars => BootInv'
  BY ShutStep, FlightStep, PhaseStep, HostStep, AttachStep DEF BootInv
<1>3. BaseInv /\ BootInv => HostIsReady
  <2> SUFFICES ASSUME BaseInv, BootInv, phase = "running" PROVE HostIsReady
    BY DEF HostIsReady
  <2>1. step = 6
    BY DEF BootInv, PhaseInv
  <2>2. /\ rpFilter = "0" /\ HostIsSetUp(links, 17) /\ HostAttached
        /\ config[SARENA_HOST] = HostConfig
    BY <2>1 DEF BootInv, HostInv, Requests
  <2>3. /\ links \in Pairs /\ IsSetUp(links[1], 16) /\ IsSetUp(links[2], 9)
        /\ InternalIp \in links[1].addrs /\ SubnetRoute \in links[1].routes
    BY <2>2 DEF HostIsSetUp
  <2>4. ASSUME NEW i \in {1, 2}
        PROVE  /\ links[i].up /\ ~links[i].arp /\ links[i].mtu = Mtu
               /\ links[i].sysctl = [forwarding |-> "1", rp_filter |-> "0",
                                     accept_local |-> "1", send_redirects |-> "0"]
    <3>1. IsSetUp(links[i], 7)
      BY <2>3 DEF IsSetUp
    <3>2. links[i].sysctl \in [Sysctls -> Values]
      BY <2>3 DEF Pairs, LinkRecs
    <3> QED
      BY <3>1, <3>2 DEF IsSetUp, Sysctls
  <2> QED
    BY <2>2, <2>3, <2>4 DEF HostIsReady, HostAttached, HostConfig
<1> QED
  BY <1>1, <1>2, <1>3, TypeCorrect, PTL DEF Spec

-----------------------------------------------------------------------------
(* An endpoint that was added is reachable. *)

ForContainer(ep) == ep.link \in Containers

(* The endpoint of a container that was created and not deleted, and whose *)
(* device is still the one it was created for.                             *)
Live(e) ==
    known[e.link] = e /\ e.link \notin deleted /\ veth[e.link] = e.mac

(* An endpoint to be added does not take e's address or spoil its link. *)
Agrees(ep, e) == (ep.link = e.link => ep.mac = e.mac) /\ (ep.ip = e.ip => ep = e)

(* A command that leaves e reachable. *)
Fits(c, e) ==
    /\ c.op \in {"add", "reconcile"} => \A ep \in c.eps : Agrees(ep, e)
    /\ c.op = "remove" => \A ep \in c.eps : ep.link # e.link /\ ep.ip # e.ip
    /\ c.op = "reconcile" => e \in c.eps

StepFits(st, e) ==
    /\ st.do \in {"config", "lxc"} => Agrees(st.ep, e)
    /\ st.do = "forget" => st.ep.ip # e.ip
    /\ st.do \in {"unpin_links", "unpin_maps"} => st.ep.link # e.link

OpFits(s, e) == \A i \in DOMAIN s : StepFits(s[i], e)

WorkFits(e) ==
    actor # None => /\ Fits(actor.cmd, e)
                    /\ OpFits(actor.todo, e) /\ OpFits(actor.then, e)
                    /\ \A s \in actor.rest : OpFits(s, e)

EntryOf(e) == [if_index |-> e.mac, container_mac |-> e.mac, host_mac |-> e.mac]
ConfigOf(e) == [host_mac |-> e.mac, ipv4 |-> e.ip]

IsReachable(e) ==
    /\ veth[e.link] = e.mac
    /\ lxc[e.ip] = EntryOf(e)
    /\ config[e.link] # None
    /\ config[e.link].host_mac = e.mac /\ config[e.link].ipv4 \in Ips
    /\ \A h \in Hooks : pins[e.link][h] = e.mac

(* What the endpoints' devices were numbered. *)
Numbered(ep) == ep.mac \in 3 .. made + 2

PinInv ==
    /\ DOMAIN lxc = Ips
    /\ \A k, l \in Containers :
          /\ veth[l] # 0 /\ veth[l] = veth[k] => k = l
          /\ \A h \in Hooks : pins[l][h] # 0 /\ pins[l][h] = veth[k] => k = l

KnownInv ==
    /\ \A l \in Containers : known[l] # None => known[l].link = l /\ Numbered(known[l])
    /\ \A k, l \in Containers : known[k] # None /\ known[l] # None /\ known[k].ip = known[l].ip
                               => k = l
    /\ \A ip \in Ips, l \in Containers :
          owner[ip] # None /\ known[l] # None =>
            /\ owner[ip].link = l => known[l].mac = owner[ip].mac
            /\ known[l].ip = ip => known[l] = owner[ip]

CommandIs(c) ==
    /\ c.op = "add" => \E ep \in c.eps : /\ c.eps = {ep}
                                         /\ ForContainer(ep) => known[ep.link] = ep
    /\ \A ep \in c.eps : ForContainer(ep) => Numbered(ep)

CommandInv ==
    /\ \A i \in DOMAIN queue : CommandIs(queue[i])
    /\ actor # None => CommandIs(actor.cmd)

(* lxc_map gets the index that was resolved for the endpoint: an operation  *)
(* resolves it before, and is for one endpoint.                             *)
Resolves(s) ==
    \A i \in DOMAIN s : s[i].do = "lxc" => \E j \in DOMAIN s : j < i /\ s[j].do = "resolve"

ForOne(s) == \A i, k \in DOMAIN s : s[i].do = "lxc" => s[k].ep = s[i].ep

EntriesAre(s) == ForOne(s) /\ \A i \in DOMAIN s : s[i].do = "lxc" => Numbered(s[i].ep)

(* In what is left of an operation the index was or will be resolved. *)
IsResolved(s, v, index) ==
    \A i \in DOMAIN s : s[i].do = "lxc" =>
       \/ \E j \in DOMAIN s : j < i /\ s[j].do = "resolve"
       \/ v[s[i].ep.link] = s[i].ep.mac => index = s[i].ep.mac

IndexInv ==
    actor # None =>
        /\ \A s \in actor.rest \cup {actor.then} : EntriesAre(s) /\ Resolves(s)
        /\ EntriesAre(actor.todo) /\ IsResolved(actor.todo, veth, actor.index)
        /\ \A i \in DOMAIN actor.todo :
              actor.todo[i].do = "infos" => actor.cmd.op = "reconcile"
        /\ \A s \in actor.rest : \A i \in DOMAIN s : s[i].do # "infos"

OwnersInv ==
    \A ip \in Ips : owner[ip] # None =>
        /\ owner[ip].ip = ip /\ Numbered(owner[ip]) /\ IsReachable(owner[ip])
        /\ WorkFits(owner[ip]) /\ \A i \in DOMAIN queue : Fits(queue[i], owner[ip])

AddNames == {"resolve", "load", "config", "lxc", "ingress", "egress"}

Left(name) == \E i \in DOMAIN actor.todo : actor.todo[i].do = name

Progress(e) ==
    /\ lxc[e.ip] = EntryOf(e) \/ Left("lxc")
    /\ config[e.link] = ConfigOf(e) \/ Left("config")
    /\ \A h \in Hooks : pins[e.link][h] = e.mac \/ Left(h)

(* An add of e at hand: its steps are left, or have done their part. *)
Adding(e) ==
    /\ actor.rest = {} /\ actor.then = <<>>
    /\ \A i \in DOMAIN actor.todo : actor.todo[i].ep = e /\ actor.todo[i].do \in AddNames
    /\ ~actor.failed => Progress(e)

(* After an endpoint's add nothing comes that undoes it. *)
AddsInv ==
    /\ \A i, j \in DOMAIN queue : i < j /\ queue[i].op = "add" =>
          \A e \in queue[i].eps : ForContainer(e) /\ Live(e) => Fits(queue[j], e)
    /\ actor # None /\ actor.cmd.op = "add" =>
          \A e \in actor.cmd.eps : ForContainer(e) /\ Live(e) =>
             Adding(e) /\ \A j \in DOMAIN queue : Fits(queue[j], e)

LEMMA PinStep ==
    ASSUME BaseInv, NumberInv, PinInv, [Next]_vars
    PROVE  PinInv'
<1>1. /\ TypeInv /\ KernelType /\ Containers \subseteq AllLinks /\ made \in Nat
      /\ veth \in [Containers -> Nat] /\ pins \in [AllLinks -> [Hooks -> Nat]]
      /\ DOMAIN lxc = Ips
  BY DEF BaseInv, TypeInv, KernelType, AllLinks, PinInv
<1>2. CASE UNCHANGED <<veth, pins, lxc>>
  BY <1>2 DEF PinInv
<1>3. ASSUME NEW h \in Hooks, EnsureAttached(h) PROVE PinInv'
  <2>1. Ep.link \in AllLinks
    BY <1>1, <1>3, HeadIs, EndpointIs DEF EnsureAttached, StepNames, Hooks
  <2>2. Ep.link \in Containers => UpsertTcx(Ep.link, h) \in {pins[Ep.link][h], veth[Ep.link]}
    <3>1. Ep.link \in Containers => Device(Ep.link) = veth[Ep.link]
      BY <1>1, <2>1, DeviceIs, NodeAssumption
    <3> QED
      BY <1>1, <2>1, <3>1, UpsertTcxIs
  <2>3. /\ pins' = [pins EXCEPT ![Ep.link][h] = UpsertTcx(Ep.link, h)]
        /\ veth' = veth /\ lxc' = lxc
    BY <1>3 DEF EnsureAttached, Backend
  <2>4. \A l \in Containers, g \in Hooks : pins'[l][g] \in {pins[l][g], veth[l]}
    BY <1>1, <2>1, <2>2, <2>3
  <2> QED
    BY <2>3, <2>4 DEF PinInv
<1>4. CASE RemovePinDir
  <2>1. Ep.link \in Containers
    BY <1>1, <1>4, HeadIs DEF RemovePinDir, StepNames
  <2>2. /\ pins' = [pins EXCEPT ![Ep.link] = [h \in Hooks |-> 0]]
        /\ veth' = veth /\ lxc' = lxc
    BY <1>4 DEF RemovePinDir, Backend
  <2>3. \A l \in Containers, g \in Hooks : pins'[l][g] \in {pins[l][g], 0}
    BY <1>1, <2>1, <2>2
  <2> QED
    BY <2>2, <2>3 DEF PinInv
<1>5. CASE UpsertEndpointInfo \/ RemoveEndpointInfo
  <2>1. veth' = veth /\ pins' = pins /\ DOMAIN lxc' = DOMAIN lxc
    BY <1>5 DEF UpsertEndpointInfo, RemoveEndpointInfo, Backend
  <2> QED
    BY <2>1 DEF PinInv
<1>6. ASSUME NEW l \in Containers, PlugIn(l) PROVE PinInv'
  <2>1. veth' = [veth EXCEPT ![l] = made + 3] /\ pins' = pins /\ lxc' = lxc
    BY <1>1, <1>6 DEF PlugIn
  <2>2. \A k \in Containers : veth[k] # made + 3 /\ \A h \in Hooks : pins[k][h] # made + 3
    BY <1>1 DEF NumberInv, Device3
  <2>3. \A k \in Containers : veth'[k] = IF k = l THEN made + 3 ELSE veth[k]
    BY <1>1, <2>1
  <2> QED
    BY <2>1, <2>2, <2>3 DEF PinInv
<1>7. ASSUME NEW l \in Containers, Unplug(l) PROVE PinInv'
  <2>1. veth' = [veth EXCEPT ![l] = 0] /\ pins' = pins /\ lxc' = lxc
    BY <1>7 DEF Unplug
  <2>2. \A k \in Containers : veth'[k] = IF k = l THEN 0 ELSE veth[k]
    BY <1>1, <2>1
  <2> QED
    BY <2>1, <2>2 DEF PinInv
<1>8. CASE SendStep \/ ExitStep \/ Answered
  BY <1>2, <1>8 DEF SendStep, ExitStep, Answered, kernel
<1>9. CASE QuietStep
  BY <1>2, <1>6, <1>7, <1>9 DEF QuietStep, Start, SetAllRpFilter, WriteHostConfig,
     HostConfigured, NothingRestored, Stop, Drained, AbortTasks, Accept, Hangup, kernel
<1>10. CASE Work \/ BackendFails
  BY <1>2, <1>3, <1>4, <1>5, <1>10 DEF Work, Receive, TakeUp, Reply, LoadGlobalMaps, LoadInstance,
     SetEndpointConfig, UnpinMap, ResolveLink,
     StopLogging, ListPins, ListEndpointInfos, TeardownAll, BackendFails, Backend, kernel
<1>11. UNCHANGED vars => UNCHANGED <<veth, pins, lxc>>
  BY DEF vars, kernel
<1> QED
  BY <1>1, <1>2, <1>8, <1>9, <1>10, <1>11, StepKinds

(* Who an answer makes the owner of an address. *)
LEMMA ReplyOwner ==
    ASSUME BaseInv, Reply, NEW ip \in Ips
    PROVE  \/ owner'[ip] = owner[ip]
           \/ /\ owner'[ip] \in ContainerEps /\ owner'[ip] \in actor.cmd.eps
              /\ owner'[ip].ip = ip /\ Live(owner'[ip])
              /\ actor.cmd.op = "add" /\ ~actor.failed
<1> DEFINE new == {ep \in actor.cmd.eps : /\ actor.cmd.op = "add" /\ ~actor.failed
                                           /\ ep.link \in Containers \ deleted
                                           /\ known[ep.link] = ep
                                           /\ veth[ep.link] = ep.mac}
<1>1. owner'[ip] = IF \E ep \in new : ep.ip = ip
                   THEN CHOOSE ep \in new : ep.ip = ip ELSE owner[ip]
  BY DEF Reply
<1>2. actor.cmd.eps \subseteq ContainerEps \cup {HostEndpoint}
  BY ReplyIs DEF BaseInv, Actors, Commands
<1>3. CASE ~\E ep \in new : ep.ip = ip
  <2> HIDE DEF new
  <2> QED
    BY <1>1, <1>3
<1>4. CASE \E ep \in new : ep.ip = ip
  <2>1. owner'[ip] \in new /\ owner'[ip].ip = ip
    <3> HIDE DEF new
    <3> QED
      BY <1>1, <1>4
  <2>2. owner'[ip] \in ContainerEps
    BY <1>2, <2>1, EndpointIs
  <2> QED
    BY <2>1, <2>2 DEF Live
<1> QED
  BY <1>3, <1>4

OwnersShrink == \A ip \in Ips : owner'[ip] \in {owner[ip], None}

LEMMA NoneIsNone ==
    /\ None \notin ContainerEps /\ None \notin Configs
    /\ HostEndpoint \notin ContainerEps
BY NodeAssumption DEF ContainerEps, Configs, HostEndpoint

LEMMA KnownStep ==
    ASSUME BaseInv, NumberInv, KnownInv, OwnersInv, [Next]_vars
    PROVE  KnownInv'
<1>1. /\ TypeInv /\ KernelType /\ DaemonType /\ made \in Nat
      /\ known \in [Containers -> ContainerEps \cup {None}]
      /\ owner \in [Ips -> ContainerEps \cup {None}]
      /\ veth \in [Containers -> Nat]
  BY DEF BaseInv, TypeInv, KernelType, DaemonType
<1>2. ASSUME UNCHANGED <<known, made>>, OwnersShrink PROVE KnownInv'
  BY <1>2 DEF KnownInv, Numbered, OwnersShrink
<1>3. UNCHANGED owner => OwnersShrink
  BY DEF OwnersShrink
<1>4. CASE Reply
  <2>1. UNCHANGED <<known, made, veth>>
    BY <1>4 DEF Reply, kernel
  <2>2. ASSUME NEW ip \in Ips, NEW l \in Containers, owner'[ip] # None, known[l] # None
        PROVE  /\ owner'[ip].link = l => known[l].mac = owner'[ip].mac
               /\ known[l].ip = ip => known[l] = owner'[ip]
    <3>1. CASE owner'[ip] = owner[ip]
      BY <2>2, <3>1 DEF KnownInv
    <3>2. CASE owner'[ip] \in ContainerEps /\ owner'[ip].ip = ip /\ Live(owner'[ip])
      <4>1. owner'[ip].link \in Containers /\ known[owner'[ip].link] = owner'[ip]
        BY <3>2 DEF Live, ContainerEps
      <4> QED
        BY <2>2, <3>2, <4>1 DEF KnownInv
    <3> QED
      BY <1>4, <3>1, <3>2, ReplyOwner
  <2> QED
    BY <2>1, <2>2 DEF KnownInv, Numbered
<1>5. CASE (Work \/ BackendFails) /\ ~Reply
  <2>1. UNCHANGED <<known, owner>>
    BY <1>1, <1>5, WorkKeepsOthers
  <2>2. UNCHANGED made
    BY <1>5 DEF Work, Receive, TakeUp, LoadGlobalMaps, LoadInstance, SetEndpointConfig,
       EnsureAttached, RemovePinDir, UnpinMap, ResolveLink, UpsertEndpointInfo,
       RemoveEndpointInfo, StopLogging, ListPins, ListEndpointInfos, TeardownAll, BackendFails,
       Backend, kernel
  <2> QED
    BY <1>2, <1>3, <2>1, <2>2
<1>6. ASSUME NEW l \in Containers, NEW ip \in Ips, CreateEndpoint(l, ip) PROVE KnownInv'
  <2>1. /\ known[l] = None /\ veth[l] # 0 /\ made' = made
        /\ \A k \in Containers : known[k] # None => known[k].ip # ip
        /\ known' = [known EXCEPT ![l] = Endpoint(l, ip, veth[l])]
        /\ owner' = [owner EXCEPT ![ip] = None]
    BY <1>6 DEF CreateEndpoint, kernel
  <2> DEFINE e == Endpoint(l, ip, veth[l])
  <2>2. e.link = l /\ e.ip = ip /\ e.mac = veth[l] /\ veth[l] \in 3 .. made + 2
    BY <1>1, <2>1 DEF Endpoint, NumberInv, Device3
  <2>3. /\ \A k \in Containers : known'[k] = IF k = l THEN e ELSE known[k]
        /\ \A a \in Ips : owner'[a] = IF a = ip THEN None ELSE owner[a]
    BY <1>1, <2>1
  <2>4. \A a \in Ips : owner[a] # None => owner[a].mac = veth[owner[a].link]
    BY DEF OwnersInv, IsReachable
  <2> HIDE DEF e
  <2>5. \A k \in Containers : known'[k] # None => known'[k].link = k /\ known'[k].mac \in 3 .. made' + 2
    BY <2>1, <2>2, <2>3 DEF KnownInv, Numbered
  <2>6. \A j, k \in Containers :
           known'[j] # None /\ known'[k] # None /\ known'[j].ip = known'[k].ip => j = k
    BY <2>1, <2>2, <2>3 DEF KnownInv
  <2>7. \A a \in Ips, k \in Containers : owner'[a] # None /\ known'[k] # None =>
            /\ owner'[a].link = k => known'[k].mac = owner'[a].mac
            /\ known'[k].ip = a => known'[k] = owner'[a]
    <3> SUFFICES ASSUME NEW a \in Ips, NEW k \in Containers, owner'[a] # None, known'[k] # None
                 PROVE  /\ owner'[a].link = k => known'[k].mac = owner'[a].mac
                        /\ known'[k].ip = a => known'[k] = owner'[a]
      OBVIOUS
    <3>1. a # ip /\ owner'[a] = owner[a] /\ owner[a] # None
      BY <2>3
    <3>2. CASE k = l
      BY <2>2, <2>3, <2>4, <3>1, <3>2
    <3>3. CASE k # l
      BY <2>3, <3>1, <3>3 DEF KnownInv
    <3> QED
      BY <3>2, <3>3
  <2> QED
    BY <2>5, <2>6, <2>7 DEF KnownInv, Numbered
<1>7. ASSUME NEW l \in Containers, DeleteEndpoint(l) \/ Unplug(l) PROVE KnownInv'
  <2>1. OwnersShrink /\ UNCHANGED <<known, made>>
    BY <1>7 DEF DeleteEndpoint, Unplug, OwnersShrink, kernel, daemon
  <2> QED
    BY <1>2, <2>1
<1>8. CASE AskLoader \/ ShutdownLoader \/ Reconcile \/ \E l \in Containers : Regenerate(l)
  BY <1>2, <1>3, <1>8 DEF AskLoader, ShutdownLoader, Reconcile, Regenerate, kernel, daemon, history
<1>9. CASE ExitStep
  <2>1. \A l \in Containers : known'[l] = None
    BY <1>9 DEF ExitStep, Exit
  <2> QED
    BY <2>1 DEF KnownInv
<1>10. CASE Answered
  BY <1>2, <1>3, <1>10 DEF Answered, kernel, history
<1>11. ASSUME NEW l \in Containers, PlugIn(l) PROVE KnownInv'
  <2>1. known' = known /\ owner' = owner /\ made' = made + 1
    BY <1>11 DEF PlugIn, daemon, history
  <2>2. \A ep : Numbered(ep) => Numbered(ep)'
    BY <1>1, <2>1 DEF Numbered
  <2> QED
    BY <2>1, <2>2 DEF KnownInv
<1>12. CASE QuietStep
  BY <1>2, <1>3, <1>7, <1>11, <1>12 DEF QuietStep, Start, SetAllRpFilter, WriteHostConfig,
     HostConfigured, NothingRestored, Stop, Drained, AbortTasks, Accept, Hangup, kernel, history
<1>13. CASE UNCHANGED vars
  BY <1>2, <1>3, <1>13 DEF vars, kernel, daemon, history
<1>14. CASE Asks
  BY <1>6, <1>7, <1>8, <1>14 DEF Asks
<1> QED
  BY <1>1, <1>4, <1>5, <1>9, <1>10, <1>12, <1>13, <1>14, StepKinds

(* The endpoints of the manager and the owners of addresses do not contradict *)
(* each other.                                                                *)
Consistent(k, o) ==
    /\ \A l \in Containers : k[l] # None => k[l].link = l
    /\ \A i, l \in Containers : k[i] # None /\ k[l] # None /\ k[i].ip = k[l].ip => i = l
    /\ \A ip \in Ips, l \in Containers : o[ip] # None /\ k[l] # None =>
          /\ o[ip].link = l => k[l].mac = o[ip].mac
          /\ k[l].ip = ip => k[l] = o[ip]
    /\ \A ip \in Ips : o[ip] # None => o[ip].ip = ip
    /\ \A a, b \in Ips : o[a] # None /\ o[b] # None /\ o[a].link = o[b].link =>
          o[a].mac = o[b].mac

Registered(e, k, o) == k[e.link] = e \/ \E ip \in Ips : o[ip] = e

LEMMA RegisteredAgree ==
    ASSUME NEW k, NEW o, Consistent(k, o), NEW e \in ContainerEps, NEW f \in ContainerEps,
           Registered(e, k, o), Registered(f, k, o)
    PROVE  Agrees(e, f)
<1>1. /\ e.link \in Containers /\ f.link \in Containers /\ e.ip \in Ips /\ f.ip \in Ips
      /\ e # None /\ f # None
  BY EndpointIs, NoneIsNone
<1>2. CASE k[e.link] = e /\ k[f.link] = f
  BY <1>1, <1>2 DEF Consistent, Agrees
<1>3. CASE k[e.link] = e /\ \E ip \in Ips : o[ip] = f
  BY <1>1, <1>3 DEF Consistent, Agrees
<1>4. CASE k[f.link] = f /\ \E ip \in Ips : o[ip] = e
  BY <1>1, <1>4 DEF Consistent, Agrees
<1>5. CASE (\E ip \in Ips : o[ip] = e) /\ \E ip \in Ips : o[ip] = f
  BY <1>1, <1>5 DEF Consistent, Agrees
<1> QED
  BY <1>2, <1>3, <1>4, <1>5 DEF Registered

KnownGrows == \A l \in Containers : known[l] # None => known'[l] = known[l]

Protected(e) == Live(e) \/ \E ip \in Ips : owner[ip] = e

(* A command that does no harm. *)
NewCommand(c) ==
    /\ c \in Commands
    /\ queue' \in {queue, Append(queue, c)}
    /\ CommandIs(c)'
    /\ \A e \in ContainerEps : Protected(e)' => Fits(c, e)

LEMMA AsksKeep ==
    ASSUME BaseInv, SendStep, Asks
    PROVE  /\ KnownGrows /\ OwnersShrink /\ UNCHANGED <<kernel, actor>>
           /\ deleted \subseteq deleted'
<1>1. LoaderType /\ known \in [Containers -> ContainerEps \cup {None}]
      /\ owner \in [Ips -> ContainerEps \cup {None}]
  BY DEF BaseInv, TypeInv, DaemonType
<1>2. UNCHANGED <<kernel, actor>>
  BY <1>1, SendIs DEF SendStep, Sent
<1>3. CASE UNCHANGED <<known, owner, deleted>>
  BY <1>2, <1>3 DEF KnownGrows, OwnersShrink
<1>4. ASSUME NEW l \in Containers, NEW ip \in Ips, CreateEndpoint(l, ip)
      PROVE  KnownGrows /\ OwnersShrink /\ deleted' = deleted
  BY <1>1, <1>4 DEF CreateEndpoint, KnownGrows, OwnersShrink
<1>5. ASSUME NEW l \in Containers, DeleteEndpoint(l)
      PROVE  KnownGrows /\ OwnersShrink /\ deleted \subseteq deleted'
  BY <1>5 DEF DeleteEndpoint, KnownGrows, OwnersShrink
<1>6. CASE AskLoader \/ ShutdownLoader \/ Reconcile \/ \E l \in Containers : Regenerate(l)
  BY <1>3, <1>6 DEF AskLoader, ShutdownLoader, Reconcile, Regenerate, daemon, history
<1> QED
  BY <1>2, <1>4, <1>5, <1>6 DEF Asks

LEMMA AsksFit ==
    ASSUME BaseInv, NumberInv, KnownInv, OwnersInv, Next, SendStep, Asks
    PROVE  \E c : NewCommand(c)
<1>1. /\ LoaderType /\ DaemonType
      /\ known \in [Containers -> ContainerEps \cup {None}]
      /\ owner \in [Ips -> ContainerEps \cup {None}]
      /\ known' \in [Containers -> ContainerEps \cup {None}]
      /\ owner' \in [Ips -> ContainerEps \cup {None}]
      /\ "daemon" \in Callers /\ "manager" \in Callers /\ Containers \subseteq Callers
  BY DEF BaseInv, TypeInv, DaemonType, SendStep, Callers
<1>2. /\ KnownGrows /\ OwnersShrink /\ UNCHANGED <<kernel, actor>> /\ deleted \subseteq deleted'
  BY AsksKeep
<1>3. KnownInv'
  BY KnownStep
<1>4. Consistent(known', owner') /\ Consistent(known, owner)
  <2>1. \A a \in Ips : owner[a] # None =>
           owner[a].ip = a /\ owner[a].mac = veth[owner[a].link]
    BY DEF OwnersInv, IsReachable
  <2> QED
    BY <1>2, <1>3, <2>1 DEF OwnersShrink, KnownInv, Consistent
<1>5. ASSUME NEW e \in ContainerEps, Protected(e)'
      PROVE  Registered(e, known', owner')
  BY <1>5 DEF Protected, Live, Registered
<1>6. ASSUME NEW who \in Callers, NEW op \in Ops,
             NEW eps \in SUBSET (ContainerEps \cup {HostEndpoint}),
             Command(op, who, eps) \in Commands,
             Send(who, op, eps) \/ UNCHANGED queue,
             CommandIs(Command(op, who, eps))',
             \A e \in ContainerEps : Protected(e)' => Fits(Command(op, who, eps), e)
      PROVE  \E c : NewCommand(c)
  <2>1. queue' \in {queue, Append(queue, Command(op, who, eps))}
    BY <1>1, <1>6, SendIs
  <2> QED
    BY <1>6, <2>1 DEF NewCommand
<1>7. ASSUME NEW who \in Callers, NEW op \in {"load", "list", "shutdown"},
             Send(who, op, {}) \/ UNCHANGED queue
      PROVE  \E c : NewCommand(c)
  <2>1. Command(op, who, {}) \in Commands /\ Command(op, who, {}).op = op
        /\ Command(op, who, {}).eps = {}
    BY <1>1, EndpointsAre DEF Command
  <2>2. CommandIs(Command(op, who, {}))'
    BY <2>1 DEF CommandIs
  <2>3. \A e \in ContainerEps : Fits(Command(op, who, {}), e)
    BY <2>1 DEF Fits
  <2> QED
    BY <1>6, <1>7, <2>1, <2>2, <2>3 DEF Ops
<1>8. HostEndpoint.link = SARENA_HOST /\ SARENA_HOST \notin Containers /\ HostEndpoint.ip = None
      /\ None \notin Ips
  BY NodeAssumption DEF HostEndpoint
<1>9. \A e \in ContainerEps : Agrees(HostEndpoint, e)
  BY <1>8, EndpointIs DEF Agrees
<1>10. ASSUME NEW who \in Callers, Send(who, "add", {HostEndpoint})
       PROVE  \E c : NewCommand(c)
  <2> DEFINE c == Command("add", who, {HostEndpoint})
  <2>1. c \in Commands /\ c.op = "add" /\ c.eps = {HostEndpoint}
    BY <1>1, EndpointsAre DEF Command
  <2>2. CommandIs(c)'
    BY <1>8, <2>1 DEF CommandIs, ForContainer
  <2>3. \A e \in ContainerEps : Fits(c, e)
    BY <1>9, <2>1 DEF Fits
  <2> QED
    BY <1>6, <1>10, <2>1, <2>2, <2>3 DEF Ops
<1>11. ASSUME NEW l \in Containers, Send(l, "add", {known'[l]}), known'[l] # None
       PROVE  \E c : NewCommand(c)
  <2>0. PICK n : n = known'[l]
    OBVIOUS
  <2> DEFINE c == Command("add", l, {n})
  <2>1. n \in ContainerEps /\ n.link = l /\ n.mac \in 3 .. made' + 2
    BY <1>1, <1>3, <1>11, <2>0 DEF KnownInv, Numbered
  <2>2. c \in Commands /\ c.op = "add" /\ c.eps = {n}
    BY <1>1, <2>1, EndpointsAre DEF Command
  <2>3. CommandIs(c)'
    BY <2>0, <2>1, <2>2 DEF CommandIs, ForContainer, Numbered
  <2>4. Registered(n, known', owner')
    BY <2>0, <2>1 DEF Registered
  <2>5. \A e \in ContainerEps : Protected(e)' => Fits(c, e)
    <3> SUFFICES ASSUME NEW e \in ContainerEps, Protected(e)' PROVE Fits(c, e)
      OBVIOUS
    <3>1. Agrees(n, e)
      BY <1>4, <1>5, <2>1, <2>4, RegisteredAgree
    <3> QED
      BY <2>2, <3>1 DEF Fits
  <2> QED
    BY <1>1, <1>6, <1>11, <2>0, <2>1, <2>2, <2>3, <2>5 DEF Ops
<1>12. ASSUME NEW l \in Containers, DeleteEndpoint(l)
       PROVE  \E c : NewCommand(c)
  <2>0. PICK n : n = known[l]
    OBVIOUS
  <2> DEFINE c == Command("remove", "manager", {n})
  <2>1. n \in ContainerEps /\ n.link = l /\ n.mac \in 3 .. made' + 2 /\ known'[l] = n
        /\ Send("manager", "remove", {n})
    BY <1>1, <1>2, <1>12, <2>0 DEF DeleteEndpoint, KnownInv, Numbered, kernel
  <2>2. c \in Commands /\ c.op = "remove" /\ c.eps = {n}
    BY <1>1, <2>1, EndpointsAre DEF Command
  <2>3. CommandIs(c)'
    BY <2>1, <2>2 DEF CommandIs, ForContainer, Numbered
  <2>4. Registered(n, known', owner')
    BY <2>1 DEF Registered
  <2>5. \A e \in ContainerEps : Protected(e)' => Fits(c, e)
    <3> SUFFICES ASSUME NEW e \in ContainerEps, Protected(e)' PROVE Fits(c, e)
      OBVIOUS
    <3>1. e.link # l
      <4>1. CASE Live(e)'
        BY <1>12, <4>1 DEF Live, DeleteEndpoint
      <4>2. CASE \E ip \in Ips : owner'[ip] = e
        BY <1>12, <4>2, NoneIsNone DEF DeleteEndpoint
      <4> QED
        BY <4>1, <4>2 DEF Protected
    <3>2. Agrees(n, e)
      BY <1>4, <1>5, <2>1, <2>4, RegisteredAgree
    <3>3. n.link # e.link /\ n.ip # e.ip
      BY <2>1, <3>1, <3>2 DEF Agrees
    <3> QED
      BY <2>2, <3>3 DEF Fits
  <2> QED
    BY <1>1, <1>6, <2>1, <2>2, <2>3, <2>5 DEF Ops
<1>13. CASE Reconcile
  <2>0. PICK D : D = Desired
    OBVIOUS
  <2> DEFINE c == Command("reconcile", "manager", D)
  <2>1. /\ UNCHANGED <<known, owner, deleted, made>>
        /\ Send("manager", "reconcile", D)
    BY <1>13, <2>0 DEF Reconcile, kernel, daemon, history
  <2>2. c \in Commands /\ c.op = "reconcile" /\ c.eps = D
        /\ D \subseteq ContainerEps \cup {HostEndpoint}
    BY <1>1, <2>0, EndpointsAre DEF Command, Desired
  <2>3. ASSUME NEW ep \in D, ep # HostEndpoint
        PROVE  ep \in ContainerEps /\ Registered(ep, known', owner') /\ Numbered(ep)
    <3>1. ep \in ContainerEps
      BY <2>2, <2>3
    <3>2. CASE \E l \in Containers : known[l] # None /\ ep = known[l]
      BY <2>1, <3>1, <3>2 DEF KnownInv, Registered
    <3>3. CASE \E ip \in Ips : owner[ip] # None /\ ep = owner[ip]
      BY <2>1, <3>1, <3>3 DEF OwnersInv, Registered
    <3> QED
      BY <2>0, <2>3, <3>1, <3>2, <3>3 DEF Desired
  <2>4. CommandIs(c)'
    <3>1. \A ep \in D : ForContainer(ep) => ep.mac \in 3 .. made' + 2
      BY <1>8, <2>1, <2>3 DEF ForContainer, Numbered
    <3> QED
      BY <2>2, <3>1 DEF CommandIs, ForContainer, Numbered
  <2>5. \A e \in ContainerEps : Protected(e)' => Fits(c, e)
    <3> SUFFICES ASSUME NEW e \in ContainerEps, Protected(e)' PROVE Fits(c, e)
      OBVIOUS
    <3>1. e \in D
      <4>1. e.link \in Containers /\ e # None
        BY EndpointIs, NoneIsNone
      <4> QED
        BY <2>0, <2>1, <4>1 DEF Protected, Live, Desired
    <3>2. \A ep \in D : Agrees(ep, e)
      BY <1>4, <1>5, <1>9, <2>3, RegisteredAgree
    <3> QED
      BY <2>2, <3>1, <3>2 DEF Fits
  <2> QED
    BY <1>1, <1>6, <2>1, <2>2, <2>4, <2>5 DEF Ops
<1>14. CASE AskLoader
  <2>1. \/ Send("daemon", "load", {}) \/ Send("daemon", "add", {HostEndpoint})
        \/ Send("daemon", "list", {}) \/ UNCHANGED queue
    BY <1>14 DEF AskLoader, Starting, loader
  <2> QED
    BY <1>1, <1>7, <1>10, <2>1
<1>15. CASE ShutdownLoader
  BY <1>1, <1>7, <1>15 DEF ShutdownLoader
<1>16. ASSUME NEW l \in Containers, Regenerate(l) PROVE \E c : NewCommand(c)
  BY <1>2, <1>11, <1>16 DEF Regenerate, KnownGrows
<1>17. ASSUME NEW l \in Containers, NEW ip \in Ips, CreateEndpoint(l, ip)
       PROVE  \E c : NewCommand(c)
  <2>1. known'[l] = Endpoint(l, ip, veth[l])
    BY <1>1, <1>17 DEF CreateEndpoint
  <2>2. known'[l] \in ContainerEps
    BY <1>17, <2>1 DEF Endpoint, ContainerEps, BaseInv, TypeInv, KernelType
  <2>3. known'[l] # None /\ Send(l, "add", {known'[l]})
    BY <1>17, <2>2, NoneIsNone DEF CreateEndpoint
  <2> QED
    BY <1>11, <2>3
<1> QED
  BY <1>12, <1>13, <1>14, <1>15, <1>16, <1>17 DEF Asks

(* The steps that neither call the loader nor are its own. *)
OutsideStep == QuietStep \/ Answered \/ UNCHANGED vars

Outside ==
    /\ UNCHANGED <<known, deleted, queue, actor, lxc, pins>>
    /\ OwnersShrink
    /\ \A l \in Containers : config'[l] = config[l]
    /\ made' \in Nat /\ made <= made'
    /\ \A l \in Containers :
          \/ veth'[l] = veth[l]
          \/ veth[l] = 0 /\ veth'[l] = made + 3 /\ made' = made + 1
          \/ veth'[l] = 0 /\ \A ip \in Ips : owner'[ip] # None => owner'[ip].link # l

LEMMA OutsideIs ==
    ASSUME TypeInv, OutsideStep
    PROVE  Outside
<1>1. /\ made \in Nat /\ veth \in [Containers -> Nat] /\ SARENA_HOST \notin Containers
      /\ config \in [AllLinks -> Configs \cup {None}]
      /\ owner \in [Ips -> ContainerEps \cup {None}]
  BY NodeAssumption DEF TypeInv, KernelType, DaemonType
<1>2. CASE UNCHANGED <<known, deleted, queue, actor, lxc, pins, owner, config, made, veth>>
  BY <1>1, <1>2 DEF Outside, OwnersShrink
<1>3. CASE WriteHostConfig
  <2>1. \A l \in Containers : config'[l] = config[l]
    BY <1>1, <1>3 DEF WriteHostConfig, AllLinks
  <2> QED
    BY <1>1, <1>3, <2>1 DEF WriteHostConfig, loader, history, Outside, OwnersShrink
<1>4. ASSUME NEW l \in Containers, PlugIn(l) PROVE Outside
  <2>1. /\ UNCHANGED <<known, deleted, queue, actor, lxc, pins, owner, config>>
        /\ made' = made + 1 /\ veth[l] = 0 /\ veth' = [veth EXCEPT ![l] = made + 3]
    BY <1>1, <1>4 DEF PlugIn, loader, daemon, history
  <2> QED
    BY <1>1, <2>1 DEF Outside, OwnersShrink
<1>5. ASSUME NEW l \in Containers, Unplug(l) PROVE Outside
  <2>1. /\ UNCHANGED <<known, deleted, queue, actor, lxc, pins, made, config>>
        /\ veth' = [veth EXCEPT ![l] = 0]
        /\ owner' = [ip \in Ips |-> IF owner[ip] # None /\ owner[ip].link = l
                                    THEN None ELSE owner[ip]]
    BY <1>5 DEF Unplug, loader, daemon
  <2>2. OwnersShrink /\ \A ip \in Ips : owner'[ip] # None => owner'[ip].link # l
    BY <2>1 DEF OwnersShrink
  <2> QED
    BY <1>1, <2>1, <2>2 DEF Outside
<1>6. CASE QuietStep
  BY <1>2, <1>3, <1>4, <1>5, <1>6 DEF QuietStep, Start, SetAllRpFilter, HostConfigured,
     NothingRestored, Stop, Drained, AbortTasks, Accept, Hangup, kernel, loader, history
<1>7. CASE Answered \/ UNCHANGED vars
  BY <1>2, <1>7 DEF Answered, vars, kernel, loader, daemon, history
<1> QED
  BY <1>6, <1>7 DEF OutsideStep

(* The kinds of steps again. *)
LEMMA StepsAre ==
    ASSUME TypeInv, [Next]_vars
    PROVE  \/ (Work \/ BackendFails) \/ (Next /\ SendStep /\ Asks) \/ ExitStep \/ OutsideStep
BY StepKinds DEF OutsideStep

LEMMA CommandKept ==
    ASSUME made \in Nat, made' \in Nat, made <= made', KnownGrows,
           NEW c \in Commands, CommandIs(c)
    PROVE  CommandIs(c)'
<1>1. c.eps \subseteq ContainerEps \cup {HostEndpoint}
  BY DEF Commands
<1>2. \A ep : Numbered(ep) => Numbered(ep)'
  BY DEF Numbered
<1>3. ASSUME NEW ep \in c.eps, ForContainer(ep), known[ep.link] = ep
      PROVE  known'[ep.link] = ep
  <2>1. ep \in ContainerEps /\ ep.link \in Containers
    BY <1>1, <1>3, EndpointIs DEF ForContainer
  <2>2. ep # None
    BY <2>1, NoneIsNone
  <2> QED
    BY <1>3, <2>1, <2>2 DEF KnownGrows
<1>4. \A ep \in c.eps : ForContainer(ep)' = ForContainer(ep)
  BY DEF ForContainer
<1> QED
  BY <1>2, <1>3, <1>4 DEF CommandIs

LEMMA CommandStep ==
    ASSUME BaseInv, NumberInv, KnownInv, OwnersInv, CommandInv, [Next]_vars
    PROVE  CommandInv'
<1>1. /\ TypeInv /\ ListInv /\ queue \in Seq(Commands) /\ made \in Nat
      /\ actor # None => actor.cmd \in Commands
  BY DEF BaseInv, TypeInv, LoaderType, KernelType, ActorType, Actors
<1>2. \A i \in DOMAIN queue : queue[i] \in Commands
  BY <1>1
<1>3. ASSUME UNCHANGED <<known, made>>, NEW c, CommandIs(c) PROVE CommandIs(c)'
  BY <1>3 DEF CommandIs, Numbered, ForContainer
<1>4. CASE Receive
  <2>1. actor'.cmd = queue[1] /\ 1 \in DOMAIN queue /\ UNCHANGED <<known, made>>
    BY <1>1, <1>4, QueueTailIs DEF Receive, kernel, daemon
  <2>2. \A i \in DOMAIN queue' : i + 1 \in DOMAIN queue /\ queue'[i] = queue[i + 1]
    BY <1>1, <1>4, QueueTailIs DEF Receive
  <2> QED
    BY <1>3, <2>1, <2>2 DEF CommandInv
<1>5. CASE Reply
  <2>1. /\ queue' = (IF actor.cmd.op = "shutdown" THEN <<>> ELSE queue) /\ actor' = None
        /\ UNCHANGED <<known, made>>
    BY <1>1, <1>5, ReplyIs DEF kernel
  <2> QED
    BY <1>3, <2>1 DEF CommandInv
<1>6. CASE (Work \/ BackendFails) /\ ~Receive /\ ~Reply
  <2>1. /\ actor # None /\ actor' # None => actor'.cmd = actor.cmd
        /\ actor # None /\ queue' = queue
    BY <1>1, <1>6, SameCommand
  <2>2. known' = known
    BY <1>1, <1>6, WorkKeepsOthers
  <2>3. made' = made
    BY <1>6 DEF Work, TakeUp, LoadGlobalMaps, LoadInstance, SetEndpointConfig,
       EnsureAttached, RemovePinDir, UnpinMap, ResolveLink, UpsertEndpointInfo,
       RemoveEndpointInfo, StopLogging, ListPins, ListEndpointInfos, TeardownAll, BackendFails,
       Backend, kernel
  <2> QED
    BY <1>3, <2>1, <2>2, <2>3 DEF CommandInv
<1>7. CASE Next /\ SendStep /\ Asks
  <2>1. KnownGrows /\ made' = made /\ actor' = actor
    BY <1>7, AsksKeep DEF kernel
  <2>2. PICK c : NewCommand(c)
    BY <1>7, AsksFit
  <2>3. \A i \in DOMAIN queue' : (i \in DOMAIN queue /\ queue'[i] = queue[i]) \/ queue'[i] = c
    BY <1>1, <2>2, AppendIs DEF NewCommand
  <2>4. \A d \in Commands : CommandIs(d) => CommandIs(d)'
    BY <1>1, <2>1, CommandKept
  <2>5. CommandIs(c)'
    BY <2>2 DEF NewCommand
  <2>6. \A i \in DOMAIN queue' : \E d : d = queue'[i] /\ CommandIs(d)'
    BY <1>2, <2>3, <2>4, <2>5 DEF CommandInv
  <2>7. actor' # None => \E d : d = actor'.cmd /\ CommandIs(d)'
    BY <1>1, <2>1, <2>4 DEF CommandInv
  <2> QED
    BY <2>6, <2>7 DEF CommandInv, CommandIs, ForContainer, Numbered
<1>8. CASE ExitStep
  BY <1>8, ExitIs DEF ExitStep, CommandInv
<1>9. CASE OutsideStep
  <2>1. Outside
    BY <1>1, <1>9, OutsideIs
  <2>2. \A d \in Commands : CommandIs(d) => CommandIs(d)'
    BY <1>1, <2>1, CommandKept DEF Outside, KnownGrows
  <2> QED
    BY <1>1, <1>2, <2>1, <2>2 DEF CommandInv, Outside
<1> QED
  BY <1>1, <1>4, <1>5, <1>6, <1>7, <1>8, <1>9, StepsAre

-----------------------------------------------------------------------------
(* What a step leaves of the work at hand. *)

(* The thread is at a command, and stays at it. *)
Continues ==
    /\ actor # None /\ actor \in Actors /\ actor' \in Actors /\ actor'.cmd = actor.cmd
    /\ UNCHANGED <<links, veth, made, queue, known, deleted, owner>>

LEMMA ContinuesIs ==
    ASSUME BaseInv, Work \/ BackendFails, ~Receive, ~Reply, actor' # None
    PROVE  Continues
<1>1. /\ actor # None /\ actor' # None => actor'.cmd = actor.cmd
      /\ actor # None /\ actor \in Actors /\ queue' = queue
  BY SameCommand DEF BaseInv
<1>2. ActorType' /\ UNCHANGED <<known, deleted, owner>>
  BY WorkKeepsActorType, WorkKeepsOthers DEF BaseInv
<1>3. UNCHANGED <<links, veth, made>>
  BY DEF Work, TakeUp, LoadGlobalMaps, LoadInstance, SetEndpointConfig,
     EnsureAttached, RemovePinDir, UnpinMap, ResolveLink, UpsertEndpointInfo,
     RemoveEndpointInfo, StopLogging, ListPins, ListEndpointInfos, TeardownAll, BackendFails,
     Backend, kernel
<1> QED
  BY <1>1, <1>2, <1>3 DEF Continues, ActorType

(* A call of the backend: the operation goes on, or ends with an error. *)
Calls ==
    /\ actor.todo # <<>>
    /\ \/ /\ actor'.todo = Tail(actor.todo)
          /\ actor'.rest = actor.rest /\ actor'.then = actor.then
          /\ actor'.index = IF actor.todo[1].do = "resolve" THEN Device(actor.todo[1].ep.link)
                            ELSE actor.index
       \/ /\ actor'.todo = <<>> /\ actor'.failed = TRUE
          /\ actor'.rest \in {actor.rest, {}} /\ actor'.then \in {actor.then, <<>>}
    /\ actor'.failed \in {actor.failed, TRUE}

LEMMA CallsIs ==
    ASSUME BaseInv, Work \/ BackendFails, ~Receive, ~Reply, ~TakeUp, ~ListPins,
           ~ListEndpointInfos
    PROVE  Calls
<1>1. actor # None /\ actor \in Actors /\ TypeInv /\ actor.todo \in Operations
      /\ actor.failed \in BOOLEAN
  BY SameCommand DEF BaseInv, Actors
<1>2. actor.todo # <<>>
  BY DEF Work, LoadGlobalMaps, LoadInstance, SetEndpointConfig,
     EnsureAttached, RemovePinDir, UnpinMap, At,
     ResolveLink, UpsertEndpointInfo, RemoveEndpointInfo, StopLogging,
     TeardownAll, BackendFails
<1>3. Head(actor.todo) = actor.todo[1]
  BY <1>1, <1>2, TailIs
<1>4. CASE Abandon
  BY <1>1, <1>2, <1>4, AbandonIs DEF Calls
<1>5. CASE NoteFailure /\ actor.todo[1].do # "resolve"
  <2>1. actor'.index = actor.index
    BY <1>1, <1>5 DEF NoteFailure, Actors
  <2> QED
    BY <1>1, <1>2, <1>5, <2>1, NoteFailureIs DEF Calls
<1>6. CASE Advance /\ actor.todo[1].do # "resolve"
  BY <1>1, <1>2, <1>6, AdvanceIs DEF Calls
<1>7. CASE ResolveLink
  <2>1. At("resolve") /\ actor.todo[1].do = "resolve" /\ Ep = actor.todo[1].ep
    BY <1>3, <1>7 DEF ResolveLink, At, Ep
  <2>2. Device(Ep.link) \in Nat
    BY <1>1, <2>1, HeadIs, EndpointIs, DeviceIs DEF TypeInv, StepNames
  <2>3. CASE actor' = [actor EXCEPT !.index = Device(Ep.link), !.todo = Tail(@)]
    BY <1>1, <1>2, <2>1, <2>2, <2>3, ResolvedIs DEF Calls
  <2> QED
    BY <1>4, <1>7, <2>3 DEF ResolveLink
<1>8. CASE BackendFails
  BY <1>3, <1>4, <1>5, <1>8 DEF BackendFails, Hooks
<1>9. CASE Work /\ ~ResolveLink
  BY <1>3, <1>5, <1>6, <1>9 DEF Work, LoadGlobalMaps, LoadInstance, SetEndpointConfig,
     EnsureAttached, RemovePinDir, UnpinMap, At, Hooks,
     UpsertEndpointInfo, RemoveEndpointInfo, StopLogging, TeardownAll
<1> QED
  BY <1>7, <1>8, <1>9

(* What the lists of a reconcile leave to do. *)
LEMMA ListPinsIs ==
    ASSUME BaseInv, ListPins
    PROVE  \/ Calls
           \/ /\ actor.cmd.op = "reconcile"
              /\ actor'.todo = <<>> /\ actor'.then = <<Do("infos", None)>>
              /\ actor'.rest = {DetachSteps(Endpoint(l, None, 0)) : l \in Stale(actor.cmd.eps)}
              /\ Stale(actor.cmd.eps) \subseteq Containers
              /\ actor'.index = actor.index
<1>1. At("list")
  BY DEF ListPins
<1>2. /\ actor \in Actors /\ actor.todo # <<>> /\ actor.todo[1].do = "list"
      /\ 1 \in DOMAIN actor.todo /\ TypeInv /\ ListInv /\ actor # None
  BY <1>1, HeadIs DEF BaseInv, StepNames, At
<1>3. actor.cmd.op \in {"list", "reconcile"}
  BY <1>2 DEF ListInv, Lists
<1>4. CASE actor.cmd.op = "list"
  <2>1. Advance
    BY <1>4 DEF ListPins
  <2> QED
    BY <1>2, <2>1, AdvanceIs DEF Calls
<1>5. CASE actor.cmd.op = "reconcile"
  <2>1. HostEndpoint \in actor.cmd.eps
    BY <1>2, <1>5 DEF Actors, Commands
  <2>2. Stale(actor.cmd.eps) \subseteq Containers
    BY <2>1 DEF Stale, Listed, Links, AllLinks, HostEndpoint
  <2> DEFINE R == {DetachSteps(Endpoint(l, None, 0)) : l \in Stale(actor.cmd.eps)}
  <2>3. actor' = [actor EXCEPT !.todo = <<>>, !.then = <<Do("infos", None)>>, !.rest = R]
    BY <1>5 DEF ListPins
  <2> HIDE DEF R
  <2>4. /\ actor'.todo = <<>> /\ actor'.then = <<Do("infos", None)>> /\ actor'.rest = R
        /\ actor'.index = actor.index
    BY <1>2, <2>3 DEF Actors
  <2> QED
    BY <1>5, <2>2, <2>4 DEF R
<1> QED
  BY <1>3, <1>4, <1>5

LEMMA ListInfosIs ==
    ASSUME BaseInv, ListEndpointInfos
    PROVE  /\ actor.todo # <<>> /\ actor.todo[1].do = "infos" /\ 1 \in DOMAIN actor.todo
           /\ actor'.todo = <<>> /\ actor'.then = actor.then /\ actor'.index = actor.index
           /\ \A s \in actor'.rest : \E ip \in Ips :
                 /\ s = <<Do("forget", Endpoint(None, ip, 0))>>
                 /\ \A ep \in actor.cmd.eps : ep.ip # ip
<1>1. At("infos")
  BY DEF ListEndpointInfos
<1>2. /\ actor \in Actors /\ actor.todo # <<>> /\ actor.todo[1].do = "infos"
      /\ 1 \in DOMAIN actor.todo
  BY <1>1, HeadIs DEF BaseInv, StepNames
<1> DEFINE stale == {ip \in Ips : lxc[ip] # None} \ {ep.ip : ep \in actor.cmd.eps}
           R == {<<Do("forget", Endpoint(None, ip, 0))>> : ip \in stale}
<1>3. actor' = [actor EXCEPT !.todo = <<>>, !.rest = R]
  BY DEF ListEndpointInfos
<1>4. \A s \in R : \E ip \in Ips : /\ s = <<Do("forget", Endpoint(None, ip, 0))>>
                                   /\ \A ep \in actor.cmd.eps : ep.ip # ip
  OBVIOUS
<1> HIDE DEF R
<1>5. actor'.todo = <<>> /\ actor'.then = actor.then /\ actor'.rest = R
      /\ actor'.index = actor.index
  BY <1>2, <1>3 DEF Actors
<1> QED
  BY <1>2, <1>4, <1>5

LEMMA TakeUpIs ==
    ASSUME BaseInv, TakeUp
    PROVE  /\ actor.todo = <<>> /\ actor # None /\ actor'.index = actor.index
           /\ \/ /\ actor'.todo \in actor.rest /\ actor'.rest \subseteq actor.rest
                 /\ actor'.then = actor.then
              \/ /\ actor.then # <<>> /\ actor'.todo = actor.then
                 /\ actor'.rest = actor.rest /\ actor'.then = <<>>
<1>1. actor \in Actors /\ actor # None /\ actor.todo = <<>>
  BY DEF TakeUp, BaseInv, TypeInv, ActorType
<1>2. CASE \E steps \in actor.rest :
             actor' = [actor EXCEPT !.todo = steps, !.rest = @ \ {steps}]
  BY <1>1, <1>2 DEF Actors
<1>3. CASE actor.then # <<>> /\ actor' = [actor EXCEPT !.todo = actor.then, !.then = <<>>]
  BY <1>1, <1>3 DEF Actors
<1> QED
  BY <1>1, <1>2, <1>3 DEF TakeUp

(* An operation that writes no entry of lxc_map and does not list them. *)
Entryless(s) == \A i \in DOMAIN s : s[i].do \notin {"lxc", "infos"}

LEMMA EntrylessIs ==
    /\ Entryless(<<>>) /\ Entryless(<<Do("list", None)>>)
    /\ Entryless(AddSteps(HostEndpoint))
    /\ \A ep \in StepEps : ep.link \in Containers =>
          Entryless(RemoveSteps(ep)) /\ Entryless(DetachSteps(ep))
    /\ \A name \in {"globals", "teardown", "forget"}, ep \in StepEps : Entryless(<<Do(name, ep)>>)
    /\ \A i \in DOMAIN <<Do("infos", None)>> : <<Do("infos", None)>>[i].do # "lxc"
<1>1. Entryless(<<>>)
  BY DEF Entryless
<1>2. ASSUME NEW name \in {"globals", "list", "infos", "teardown", "forget"}, NEW ep \in StepEps
      PROVE  /\ name # "infos" => Entryless(<<Do(name, ep)>>)
             /\ \A i \in DOMAIN <<Do(name, ep)>> : <<Do(name, ep)>>[i].do # "lxc"
  <2> DEFINE s == <<Do(name, ep)>>
  <2>0. Do(name, ep).do = name
    BY DEF Do
  <2>1. DOMAIN s = {1} /\ s[1].do = name
    BY <2>0
  <2> HIDE DEF s
  <2>2. \A i \in DOMAIN s : s[i].do = name
    BY <2>1
  <2>3. (name # "infos" => Entryless(s)) /\ \A i \in DOMAIN s : s[i].do # "lxc"
    BY <2>2 DEF Entryless
  <2> QED
    BY <2>3 DEF s
<1>3. Entryless(AddSteps(HostEndpoint))
  <2> DEFINE s == AddSteps(HostEndpoint)
  <2>1. /\ DOMAIN s = 1 .. 4
        /\ s[1].do = "resolve" /\ s[2].do = "load" /\ s[3].do = "egress" /\ s[4].do = "ingress"
    BY HostStepsAre
  <2> HIDE DEF s
  <2> QED
    BY <2>1 DEF Entryless, s
<1>4. ASSUME NEW ep \in StepEps, ep.link \in Containers
      PROVE  Entryless(RemoveSteps(ep)) /\ Entryless(DetachSteps(ep))
  <2> DEFINE s == RemoveSteps(ep)
             t == DetachSteps(ep)
  <2>1. /\ DOMAIN s = 1 .. 4
        /\ s[1].do = "forget" /\ s[2].do = "stop_logging"
        /\ s[3].do = "unpin_links" /\ s[4].do = "unpin_maps"
    BY <1>4, RemoveStepsAre
  <2>2. /\ DOMAIN t = 1 .. 3
        /\ t[1].do = "stop_logging" /\ t[2].do = "unpin_links" /\ t[3].do = "unpin_maps"
    BY <1>4, DetachStepsAre
  <2> HIDE DEF s, t
  <2> QED
    BY <2>1, <2>2 DEF Entryless, s, t
<1>5. None \in StepEps
  BY DEF StepEps
<1> QED
  BY <1>1, <1>2, <1>3, <1>4, <1>5

LEMMA EntrylessEntries ==
    ASSUME NEW s, \A i \in DOMAIN s : s[i].do # "lxc"
    PROVE  EntriesAre(s) /\ Resolves(s)
BY DEF EntriesAre, ForOne, Resolves

LEMMA StepsOfIndex ==
    ASSUME NEW cmd \in Commands, CommandIs(cmd), NEW s \in StepsOf(cmd)
    PROVE  EntriesAre(s) /\ Resolves(s) /\ \A i \in DOMAIN s : s[i].do # "infos"
<1>1. cmd.op \in Ops /\ cmd.eps \subseteq ContainerEps \cup {HostEndpoint}
      /\ (cmd.op = "remove" => cmd.eps \subseteq ContainerEps)
  BY DEF Commands
<1>2. None \in StepEps
  BY DEF StepEps
<1>3. \A ep \in ContainerEps : ep \in StepEps /\ ep.link \in Containers
  BY DEF StepEps, ContainerEps, AllLinks
<1>4. CASE Entryless(s)
  BY <1>4, EntrylessEntries DEF Entryless
<1>5. ASSUME NEW ep \in ContainerEps, s = AddSteps(ep), Numbered(ep)
      PROVE  EntriesAre(s) /\ Resolves(s) /\ \A i \in DOMAIN s : s[i].do # "infos"
  <2>1. /\ DOMAIN s = 1 .. 6
        /\ \A i \in 1 .. 6 : s[i].ep = ep
        /\ s[1].do = "resolve" /\ s[2].do = "load" /\ s[3].do = "config"
        /\ s[4].do = "lxc" /\ s[5].do = "ingress" /\ s[6].do = "egress"
    BY <1>5, AddStepsAre
  <2>2. EntriesAre(s)
    BY <1>5, <2>1 DEF EntriesAre, ForOne
  <2>3. Resolves(s)
    <3>1. \A i \in 1 .. 6 : s[i].do = "lxc" => 1 < i
      BY <2>1
    <3> QED
      BY <2>1, <3>1 DEF Resolves
  <2>4. \A i \in 1 .. 6 : s[i].do # "infos"
    BY <2>1
  <2> QED
    BY <2>1, <2>2, <2>3, <2>4
<1>6. CASE cmd.op \in {"load", "list", "shutdown"}
  BY <1>2, <1>4, <1>6, EntrylessIs DEF StepsOf
<1>7. CASE cmd.op \in {"add", "reconcile"}
  <2>1. PICK ep \in cmd.eps : s = AddSteps(ep)
    BY <1>7 DEF StepsOf
  <2>2. CASE ep = HostEndpoint
    BY <1>4, <2>1, <2>2, EntrylessIs
  <2>3. CASE ep \in ContainerEps
    BY <1>3, <1>5, <2>1, <2>3 DEF CommandIs, ForContainer
  <2> QED
    BY <1>1, <2>2, <2>3
<1>8. CASE cmd.op = "remove"
  BY <1>1, <1>3, <1>4, <1>8, EntrylessIs DEF StepsOf
<1> QED
  BY <1>1, <1>6, <1>7, <1>8 DEF Ops

LEMMA TailResolved ==
    ASSUME NEW s \in Operations, s # <<>>, NEW v, NEW index, NEW next,
           EntriesAre(s), IsResolved(s, v, index),
           IF s[1].do = "resolve" THEN s[1].ep \in ContainerEps => next = v[s[1].ep.link]
           ELSE next = index
    PROVE  /\ EntriesAre(Tail(s)) /\ IsResolved(Tail(s), v, next)
           /\ \A i \in DOMAIN Tail(s) : \E k \in DOMAIN s : Tail(s)[i] = s[k]
<1> DEFINE t == Tail(s)
<1>1. /\ t \in Operations /\ 1 \in DOMAIN s
      /\ \A i \in DOMAIN t : i + 1 \in DOMAIN s /\ t[i] = s[i + 1] /\ i \in Nat \ {0}
      /\ \A j \in DOMAIN s : j \in Nat \ {0} /\ (j > 1 => j - 1 \in DOMAIN t)
  <2>1. t \in Operations /\ 1 \in DOMAIN s
        /\ \A i \in DOMAIN t : i + 1 \in DOMAIN s /\ t[i] = s[i + 1]
        /\ \A j \in DOMAIN s : j \in Nat \ {0} /\ (j > 1 => j - 1 \in DOMAIN t)
    BY TailIs
  <2>2. DOMAIN t \subseteq Nat \ {0}
    BY <2>1, LenProperties DEF Operations
  <2> QED
    BY <2>1, <2>2
<1>2. \A j \in DOMAIN s : j > 1 => j - 1 \in DOMAIN t /\ t[j - 1] = s[j]
  <2> HIDE DEF t
  <2> QED
    BY <1>1
<1> HIDE DEF t
<1>3. EntriesAre(t)
  BY <1>1 DEF EntriesAre, ForOne
<1>4. ASSUME NEW i \in DOMAIN t, t[i].do = "lxc",
             ~\E j \in DOMAIN t : j < i /\ t[j].do = "resolve",
             v[t[i].ep.link] = t[i].ep.mac
      PROVE  next = t[i].ep.mac
  <2>1. i + 1 \in DOMAIN s /\ s[i + 1] = t[i] /\ i \in Nat \ {0}
    BY <1>1
  <2>2. s[1].ep = t[i].ep
    BY <1>1, <1>4, <2>1 DEF EntriesAre, ForOne
  <2>3. CASE s[1].do = "resolve"
    <3>1. t[i].ep \in ContainerEps
      <4>1. t[i] \in StepSet
        BY <1>1 DEF Operations
      <4> QED
        BY <1>4, <4>1 DEF StepSet
    <3> QED
      BY <1>4, <2>2, <2>3, <3>1
  <2>4. CASE s[1].do # "resolve"
    <3>1. \A j \in DOMAIN s : j < i + 1 => s[j].do # "resolve"
      <4> SUFFICES ASSUME NEW j \in DOMAIN s, j < i + 1, s[j].do = "resolve" PROVE FALSE
        OBVIOUS
      <4>1. j # 1 /\ j \in Nat \ {0}
        BY <1>1, <2>4
      <4>2. j - 1 \in DOMAIN t /\ t[j - 1] = s[j] /\ j - 1 < i
        BY <1>2, <2>1, <4>1
      <4> QED
        BY <1>4, <4>2
    <3>2. index = s[i + 1].ep.mac
      BY <1>4, <2>1, <3>1 DEF IsResolved
    <3> QED
      BY <2>1, <2>4, <3>2
  <2> QED
    BY <2>3, <2>4
<1>5. IsResolved(t, v, next)
  BY <1>4 DEF IsResolved
<1> QED
  BY <1>1, <1>3, <1>5 DEF t

LEMMA IndexStep ==
    ASSUME BaseInv, CommandInv, IndexInv, [Next]_vars
    PROVE  IndexInv'
<1>1. /\ TypeInv /\ ListInv /\ KernelType /\ queue \in Seq(Commands) /\ made \in Nat
      /\ SARENA_HOST \notin Containers /\ veth \in [Containers -> Nat]
  BY NodeAssumption DEF BaseInv, TypeInv, LoaderType, KernelType
<1>2. \A s : Entryless(s) => EntriesAre(s) /\ Resolves(s) /\ \A i \in DOMAIN s : s[i].do # "infos"
  BY EntrylessEntries DEF Entryless
<1>3. ASSUME made' = made, NEW s, EntriesAre(s) PROVE EntriesAre(s)'
  BY <1>3 DEF EntriesAre, Numbered
<1>4. \A s, v, index : Resolves(s) => IsResolved(s, v, index)
  BY DEF Resolves, IsResolved
<1>5. None \in StepEps /\ Entryless(<<>>) /\ Entryless(<<Do("list", None)>>)
  BY EntrylessIs DEF StepEps
<1>6. ASSUME made' = made, NEW todo, NEW rest, NEW then, NEW index, NEW v,
             actor' # None => /\ actor'.todo = todo /\ actor'.rest = rest /\ actor'.then = then
                              /\ actor'.index = index,
             veth' = v,
             \A s \in rest \cup {then} : EntriesAre(s) /\ Resolves(s),
             EntriesAre(todo) /\ IsResolved(todo, v, index),
             actor' # None => \A i \in DOMAIN todo : todo[i].do = "infos" => actor'.cmd.op = "reconcile",
             \A s \in rest : \A i \in DOMAIN s : s[i].do # "infos"
      PROVE  IndexInv'
  <2>1. \A s : EntriesAre(s) => EntriesAre(s)'
    BY <1>3, <1>6
  <2>2. \A s : Resolves(s)' = Resolves(s)
    BY DEF Resolves
  <2>3. EntriesAre(todo)'
    BY <1>6, <2>1
  <2> SUFFICES ASSUME actor' # None
               PROVE  /\ \A s \in rest \cup {then} : EntriesAre(s)' /\ Resolves(s)
                      /\ EntriesAre(todo)' /\ IsResolved(todo, v, index)
                      /\ \A i \in DOMAIN todo : todo[i].do = "infos" => actor'.cmd.op = "reconcile"
                      /\ \A s \in rest : \A i \in DOMAIN s : s[i].do # "infos"
    BY <1>6 DEF IndexInv, EntriesAre, ForOne, Resolves, IsResolved
  <2> QED
    BY <1>6, <2>1, <2>3
<1>7. CASE Receive
  <2>1. queue[1] \in Commands /\ CommandIs(queue[1]) /\ Head(queue) = queue[1]
    BY <1>1, <1>7, QueueTailIs DEF Receive, CommandInv
  <2>2. PICK steps \in StepsOf(queue[1]), next \in {<<Do("list", None)>>, <<>>} :
           actor' = [cmd |-> queue[1], todo |-> steps,
                     rest |-> StepsOf(queue[1]) \ {steps}, then |-> next,
                     index |-> 0, failed |-> FALSE]
    BY <1>7, <2>1 DEF Receive
  <2>3. \A s \in StepsOf(queue[1]) :
           EntriesAre(s) /\ Resolves(s) /\ \A i \in DOMAIN s : s[i].do # "infos"
    BY <2>1, StepsOfIndex
  <2>4. made' = made /\ veth' = veth
    BY <1>7 DEF Receive, kernel
  <2>5. EntriesAre(next) /\ Resolves(next)
    BY <1>2, <1>5
  <2>6. /\ actor'.todo = steps /\ actor'.rest = StepsOf(queue[1]) \ {steps}
        /\ actor'.then = next /\ actor'.index = 0
    BY <2>2
  <2> DEFINE R == StepsOf(queue[1]) \ {steps}
  <2>7. /\ EntriesAre(steps) /\ IsResolved(steps, veth, 0)
        /\ \A i \in DOMAIN steps : steps[i].do = "infos" => actor'.cmd.op = "reconcile"
    BY <1>4, <2>3
  <2>8. /\ \A s \in R \cup {next} : EntriesAre(s) /\ Resolves(s)
        /\ \A s \in R : \A i \in DOMAIN s : s[i].do # "infos"
    BY <2>3, <2>5
  <2>9. actor'.todo = steps /\ actor'.rest = R /\ actor'.then = next /\ actor'.index = 0
    BY <2>6
  <2> HIDE DEF R
  <2> QED
    BY <1>6, <2>4, <2>7, <2>8, <2>9
<1>8. CASE (Work \/ BackendFails) /\ ~Receive /\ ~Reply
  <2> SUFFICES ASSUME actor' # None PROVE IndexInv'
    BY DEF IndexInv
  <2>1. Continues /\ actor.todo \in Operations
    BY <1>8, ContinuesIs DEF Continues, Actors
  <2>2. actor # None /\ actor'.cmd = actor.cmd /\ made' = made /\ veth' = veth
    BY <2>1 DEF Continues
  <2>3. /\ \A s \in actor.rest \cup {actor.then} : EntriesAre(s) /\ Resolves(s)
        /\ EntriesAre(actor.todo) /\ IsResolved(actor.todo, veth, actor.index)
        /\ \A i \in DOMAIN actor.todo : actor.todo[i].do = "infos" => actor.cmd.op = "reconcile"
        /\ \A s \in actor.rest : \A i \in DOMAIN s : s[i].do # "infos"
    BY <2>2 DEF IndexInv
  <2>4. EntriesAre(<<>>) /\ Resolves(<<>>) /\ \A v, index : IsResolved(<<>>, v, index)
    BY <1>2, <1>4, <1>5
  <2>5. CASE Calls
    <3>0. actor.todo # <<>>
      BY <2>5 DEF Calls
    <3>1. CASE /\ actor'.todo = Tail(actor.todo)
               /\ actor'.rest = actor.rest /\ actor'.then = actor.then
               /\ actor'.index = IF actor.todo[1].do = "resolve"
                                 THEN Device(actor.todo[1].ep.link) ELSE actor.index
      <4>2. actor.todo[1].ep \in ContainerEps =>
               Device(actor.todo[1].ep.link) = veth[actor.todo[1].ep.link]
        BY <1>1, DeviceIs, EndpointIs
      <4>3. /\ EntriesAre(actor'.todo) /\ IsResolved(actor'.todo, veth, actor'.index)
            /\ \A i \in DOMAIN actor'.todo : \E k \in DOMAIN actor.todo : actor'.todo[i] = actor.todo[k]
        <5>1. IF actor.todo[1].do = "resolve"
              THEN actor.todo[1].ep \in ContainerEps => actor'.index = veth[actor.todo[1].ep.link]
              ELSE actor'.index = actor.index
          BY <3>1, <4>2
        <5> QED
          BY <2>1, <2>3, <3>0, <3>1, <5>1, TailResolved
      <4>4. \A i \in DOMAIN actor'.todo :
               actor'.todo[i].do = "infos" => actor'.cmd.op = "reconcile"
        BY <2>2, <2>3, <4>3
      <4> QED
        BY <1>6, <2>2, <2>3, <3>1, <4>3, <4>4
    <3>2. CASE actor'.todo = <<>>
      <4>1. actor'.rest \in {actor.rest, {}} /\ actor'.then \in {actor.then, <<>>}
        BY <2>5 DEF Calls
      <4> QED
        BY <1>6, <2>2, <2>3, <2>4, <3>2, <4>1
    <3> QED
      BY <2>5, <3>1, <3>2 DEF Calls
  <2>6. CASE TakeUp
    <3>1. \/ /\ actor'.todo \in actor.rest /\ actor'.rest \subseteq actor.rest
             /\ actor'.then = actor.then
          \/ /\ actor.then # <<>> /\ actor'.todo = actor.then
             /\ actor'.rest = actor.rest /\ actor'.then = <<>>
      BY <2>6, TakeUpIs
    <3>2. actor.then # <<>> => actor.cmd.op = "reconcile"
      BY <1>1, <2>2 DEF ListInv
    <3>3. EntriesAre(actor'.todo) /\ IsResolved(actor'.todo, veth, actor'.index)
      BY <1>4, <2>3, <3>1
    <3>4. \A i \in DOMAIN actor'.todo : actor'.todo[i].do = "infos" => actor'.cmd.op = "reconcile"
      BY <2>2, <2>3, <3>1, <3>2
    <3> QED
      BY <1>6, <2>2, <2>3, <2>4, <3>1, <3>3, <3>4
  <2>7. CASE ListPins /\ ~Calls
    <3>1. /\ actor'.todo = <<>> /\ actor'.then = <<Do("infos", None)>>
          /\ actor'.rest = {DetachSteps(Endpoint(l, None, 0)) : l \in Stale(actor.cmd.eps)}
          /\ Stale(actor.cmd.eps) \subseteq Containers
      BY <2>7, ListPinsIs
    <3>2. \A l \in Containers : Entryless(DetachSteps(Endpoint(l, None, 0)))
      BY EntrylessIs DEF Endpoint, StepEps, AllLinks
    <3>3. EntriesAre(actor'.then) /\ Resolves(actor'.then)
      BY <3>1, EntrylessIs, EntrylessEntries
    <3>4. \A s \in actor'.rest : Entryless(s)
      BY <3>1, <3>2
    <3>5. /\ \A s \in actor'.rest \cup {actor'.then} : EntriesAre(s) /\ Resolves(s)
          /\ EntriesAre(actor'.todo) /\ IsResolved(actor'.todo, veth, actor'.index)
          /\ \A i \in DOMAIN actor'.todo : FALSE
          /\ \A s \in actor'.rest : \A i \in DOMAIN s : s[i].do # "infos"
      <4>1. \A i \in DOMAIN <<>> : FALSE
        OBVIOUS
      <4> QED
        BY <1>2, <2>4, <3>1, <3>3, <3>4, <4>1
    <3> QED
      BY <1>6, <2>2, <3>5
  <2>8. CASE ListEndpointInfos
    <3>1. /\ actor'.todo = <<>> /\ actor'.then = actor.then
          /\ \A s \in actor'.rest : \E ip \in Ips : s = <<Do("forget", Endpoint(None, ip, 0))>>
      BY <2>8, ListInfosIs
    <3>2. \A ip \in Ips : Endpoint(None, ip, 0) \in StepEps
      BY DEF Endpoint, StepEps
    <3>3. \A s \in actor'.rest : Entryless(s)
      BY <3>1, <3>2, EntrylessIs
    <3> QED
      BY <1>2, <1>6, <2>2, <2>3, <2>4, <3>1, <3>3
  <2> QED
    BY <1>8, <2>5, <2>6, <2>7, <2>8, CallsIs
<1>9. CASE Reply \/ ExitStep
  BY <1>1, <1>9, ReplyIs, ExitIs DEF ExitStep, IndexInv
<1>10. CASE Next /\ SendStep /\ Asks
  <2>1. UNCHANGED <<actor, made, veth>>
    BY <1>10, AsksKeep DEF kernel
  <2> QED
    BY <1>6, <2>1 DEF IndexInv
<1>11. CASE OutsideStep
  <2>1. Outside
    BY <1>1, <1>11, OutsideIs
  <2>2. \A ep : Numbered(ep) => Numbered(ep)'
    BY <1>1, <2>1 DEF Outside, Numbered
  <2>3. actor' = actor
    BY <2>1 DEF Outside
  <2>4. \A s : EntriesAre(s) => EntriesAre(s)'
    BY <2>2 DEF EntriesAre, ForOne
  <2>5. ASSUME actor # None PROVE IsResolved(actor.todo, veth', actor.index)
    <3> SUFFICES ASSUME NEW i \in DOMAIN actor.todo, actor.todo[i].do = "lxc",
                        veth'[actor.todo[i].ep.link] = actor.todo[i].ep.mac
                 PROVE  veth[actor.todo[i].ep.link] = actor.todo[i].ep.mac
      BY <2>5 DEF IndexInv, IsResolved
    <3>1. actor.todo[i].ep.link \in Containers
      <4>1. actor.todo \in Operations
        BY <1>1, <2>5 DEF TypeInv, ActorType, Actors
      <4>2. actor.todo[i] \in StepSet
        BY <4>1 DEF Operations
      <4> QED
        BY <4>2, EndpointIs DEF StepSet
    <3>2. Numbered(actor.todo[i].ep)
      BY <2>5 DEF IndexInv, EntriesAre
    <3> QED
      BY <1>1, <2>1, <3>1, <3>2 DEF Outside, Numbered
  <2> QED
    BY <2>3, <2>4, <2>5 DEF IndexInv, Resolves, EntriesAre, ForOne, IsResolved
<1> QED
  BY <1>1, <1>7, <1>8, <1>9, <1>10, <1>11, StepsAre

-----------------------------------------------------------------------------
(* An endpoint that is reachable stays so while the thread works at commands *)
(* that fit it.                                                              *)

LEMMA TailFits ==
    ASSUME NEW s \in Operations, s # <<>>, NEW e, OpFits(s, e)
    PROVE  OpFits(Tail(s), e) /\ StepFits(s[1], e)
BY TailIs DEF OpFits

LEMMA StepsFit ==
    ASSUME NEW cmd \in Commands, NEW e \in ContainerEps, Fits(cmd, e), NEW s \in StepsOf(cmd)
    PROVE  OpFits(s, e)
<1>1. cmd.op \in Ops /\ cmd.eps \subseteq ContainerEps \cup {HostEndpoint}
      /\ (cmd.op = "remove" => cmd.eps \subseteq ContainerEps)
  BY DEF Commands
<1>2. \A ep \in ContainerEps : ep \in StepEps /\ ep.link \in Containers
  BY DEF StepEps, ContainerEps, AllLinks
<1>3. CASE cmd.op \in {"load", "list", "shutdown"}
  <2>1. PICK name \in {"globals", "list", "teardown"} : s = <<Do(name, None)>>
    BY <1>3 DEF StepsOf
  <2>2. Do(name, None).do = name
    BY DEF Do
  <2>3. DOMAIN s = {1} /\ s[1].do = name
    BY <2>1, <2>2
  <2> QED
    BY <2>3 DEF OpFits, StepFits
<1>4. CASE cmd.op \in {"add", "reconcile"}
  <2>1. PICK ep \in cmd.eps : s = AddSteps(ep)
    BY <1>4 DEF StepsOf
  <2>2. Agrees(ep, e)
    BY <1>4 DEF Fits
  <2>3. CASE ep = HostEndpoint
    <3>1. /\ DOMAIN s = 1 .. 4
          /\ s[1].do = "resolve" /\ s[2].do = "load" /\ s[3].do = "egress" /\ s[4].do = "ingress"
      BY <2>1, <2>3, HostStepsAre
    <3> QED
      BY <3>1 DEF OpFits, StepFits
  <2>4. CASE ep \in ContainerEps
    <3>1. /\ DOMAIN s = 1 .. 6
          /\ \A i \in 1 .. 6 : s[i].ep = ep
          /\ s[1].do = "resolve" /\ s[2].do = "load" /\ s[3].do = "config"
          /\ s[4].do = "lxc" /\ s[5].do = "ingress" /\ s[6].do = "egress"
      BY <2>1, <2>4, AddStepsAre
    <3> QED
      BY <2>2, <3>1 DEF OpFits, StepFits
  <2> QED
    BY <1>1, <2>3, <2>4
<1>5. CASE cmd.op = "remove"
  <2>1. PICK ep \in cmd.eps : s = RemoveSteps(ep)
    BY <1>5 DEF StepsOf
  <2>2. ep.link # e.link /\ ep.ip # e.ip
    BY <1>5 DEF Fits
  <2>3. /\ DOMAIN s = 1 .. 4
        /\ \A i \in 1 .. 4 : s[i].ep = ep
        /\ s[1].do = "forget" /\ s[2].do = "stop_logging"
        /\ s[3].do = "unpin_links" /\ s[4].do = "unpin_maps"
    BY <1>1, <1>2, <1>5, <2>1, RemoveStepsAre
  <2> QED
    BY <2>2, <2>3 DEF OpFits, StepFits
<1> QED
  BY <1>1, <1>3, <1>4, <1>5 DEF Ops

(* The work that is left still fits. *)
LEMMA WorkFitsKept ==
    ASSUME BaseInv, IndexInv, NEW e \in ContainerEps, WorkFits(e), Work \/ BackendFails,
           ~Reply, \A i \in DOMAIN queue : Fits(queue[i], e)
    PROVE  WorkFits(e)'
<1>1. TypeInv /\ queue \in Seq(Commands) /\ OpFits(<<>>, e)
  BY DEF BaseInv, TypeInv, LoaderType, OpFits
<1> SUFFICES ASSUME actor' # None PROVE WorkFits(e)'
  BY DEF WorkFits
<1>2. ASSUME Fits(actor'.cmd, e), OpFits(actor'.todo, e), OpFits(actor'.then, e),
             \A s \in actor'.rest : OpFits(s, e)
      PROVE  WorkFits(e)'
  BY <1>2 DEF WorkFits, Fits, OpFits, StepFits, Agrees
<1>3. CASE Receive
  <2>1. queue[1] \in Commands /\ Fits(queue[1], e) /\ Head(queue) = queue[1]
    BY <1>1, <1>3, QueueTailIs DEF Receive
  <2>2. PICK steps \in StepsOf(queue[1]), next \in {<<Do("list", None)>>, <<>>} :
           actor' = [cmd |-> queue[1], todo |-> steps,
                     rest |-> StepsOf(queue[1]) \ {steps}, then |-> next,
                     index |-> 0, failed |-> FALSE]
    BY <1>3, <2>1 DEF Receive
  <2>3. \A s \in StepsOf(queue[1]) : OpFits(s, e)
    BY <2>1, StepsFit
  <2>4. OpFits(<<Do("list", None)>>, e)
    <3> DEFINE s == <<Do("list", None)>>
    <3>1. Do("list", None).do = "list"
      BY DEF Do
    <3>2. DOMAIN s = {1} /\ s[1].do = "list"
      BY <3>1
    <3> HIDE DEF s
    <3>3. OpFits(s, e)
      BY <3>2 DEF OpFits, StepFits
    <3> QED
      BY <3>3 DEF s
  <2>5. /\ actor'.cmd = queue[1] /\ actor'.todo = steps
        /\ actor'.rest = StepsOf(queue[1]) \ {steps} /\ actor'.then = next
    BY <2>2
  <2> QED
    BY <1>1, <1>2, <2>1, <2>3, <2>4, <2>5
<1>4. CASE ~Receive
  <2>1. Continues /\ actor.todo \in Operations /\ actor # None
    BY <1>4, ContinuesIs DEF Continues, Actors
  <2>2. /\ actor'.cmd = actor.cmd /\ Fits(actor.cmd, e)
        /\ OpFits(actor.todo, e) /\ OpFits(actor.then, e) /\ \A s \in actor.rest : OpFits(s, e)
    BY <2>1 DEF Continues, WorkFits
  <2>3. CASE Calls
    <3>1. OpFits(actor'.todo, e)
      BY <1>1, <2>1, <2>2, <2>3, TailFits DEF Calls
    <3>2. OpFits(actor'.then, e) /\ \A s \in actor'.rest : OpFits(s, e)
      BY <1>1, <2>2, <2>3 DEF Calls
    <3> QED
      BY <1>2, <2>2, <3>1, <3>2
  <2>4. CASE TakeUp
    <3>1. \/ /\ actor'.todo \in actor.rest /\ actor'.rest \subseteq actor.rest
             /\ actor'.then = actor.then
          \/ /\ actor.then # <<>> /\ actor'.todo = actor.then
             /\ actor'.rest = actor.rest /\ actor'.then = <<>>
      BY <2>4, TakeUpIs
    <3> QED
      BY <1>1, <1>2, <2>2, <3>1
  <2>5. CASE ListPins /\ ~Calls
    <3>1. /\ actor'.todo = <<>> /\ actor'.then = <<Do("infos", None)>>
          /\ actor.cmd.op = "reconcile"
          /\ actor'.rest = {DetachSteps(Endpoint(l, None, 0)) : l \in Stale(actor.cmd.eps)}
          /\ Stale(actor.cmd.eps) \subseteq Containers
      BY <2>5, ListPinsIs
    <3>2. e.link \notin Stale(actor.cmd.eps)
      BY <2>2, <3>1 DEF Fits, Stale, Links
    <3>3. ASSUME NEW l \in Stale(actor.cmd.eps)
          PROVE  OpFits(DetachSteps(Endpoint(l, None, 0)), e)
      <4> DEFINE ep == Endpoint(l, None, 0)
                 s == DetachSteps(ep)
      <4>1. ep \in StepEps /\ ep.link = l /\ l \in Containers /\ l # e.link
        BY <3>1, <3>2 DEF Endpoint, StepEps, AllLinks
      <4>2. /\ DOMAIN s = 1 .. 3 /\ \A i \in 1 .. 3 : s[i].ep = ep
            /\ s[1].do = "stop_logging" /\ s[2].do = "unpin_links" /\ s[3].do = "unpin_maps"
        BY <4>1, DetachStepsAre
      <4> HIDE DEF s, ep
      <4>3. OpFits(s, e)
        BY <4>1, <4>2 DEF OpFits, StepFits
      <4> QED
        BY <4>3 DEF s, ep
    <3>4. OpFits(<<Do("infos", None)>>, e)
      <4> DEFINE s == <<Do("infos", None)>>
      <4>1. Do("infos", None).do = "infos"
        BY DEF Do
      <4>2. DOMAIN s = {1} /\ s[1].do = "infos"
        BY <4>1
      <4> HIDE DEF s
      <4>3. OpFits(s, e)
        BY <4>2 DEF OpFits, StepFits
      <4> QED
        BY <4>3 DEF s
    <3>5. \A s \in actor'.rest : OpFits(s, e)
      BY <3>1, <3>3
    <3> QED
      BY <1>1, <1>2, <2>2, <3>1, <3>4, <3>5
  <2>6. CASE ListEndpointInfos
    <3>1. /\ actor.todo # <<>> /\ actor.todo[1].do = "infos" /\ 1 \in DOMAIN actor.todo
          /\ actor'.todo = <<>> /\ actor'.then = actor.then
          /\ \A s \in actor'.rest : \E ip \in Ips :
                /\ s = <<Do("forget", Endpoint(None, ip, 0))>>
                /\ \A ep \in actor.cmd.eps : ep.ip # ip
      BY <2>6, ListInfosIs
    <3>2. e \in actor.cmd.eps
      BY <2>1, <2>2, <3>1 DEF IndexInv, Fits
    <3>3. ASSUME NEW ip \in Ips, ip # e.ip
          PROVE  OpFits(<<Do("forget", Endpoint(None, ip, 0))>>, e)
      <4> DEFINE s == <<Do("forget", Endpoint(None, ip, 0))>>
      <4>1. Do("forget", Endpoint(None, ip, 0)).do = "forget"
            /\ Do("forget", Endpoint(None, ip, 0)).ep.ip = ip
        BY DEF Do, Endpoint
      <4>2. DOMAIN s = {1} /\ s[1].do = "forget" /\ s[1].ep.ip = ip
        BY <4>1
      <4> HIDE DEF s
      <4>3. OpFits(s, e)
        BY <3>3, <4>2 DEF OpFits, StepFits
      <4> QED
        BY <4>3 DEF s
    <3>4. \A s \in actor'.rest : OpFits(s, e)
      BY <3>1, <3>2, <3>3
    <3> QED
      BY <1>1, <1>2, <2>2, <3>1, <3>4
  <2> QED
    BY <1>4, <2>3, <2>4, <2>5, <2>6, CallsIs
<1> QED
  BY <1>3, <1>4

(* The endpoint's device is there. *)
Plugged(e) == e \in ContainerEps /\ Numbered(e) /\ veth[e.link] = e.mac

LEMMA LxcKept ==
    ASSUME BaseInv, PinInv, IndexInv, NEW e, Plugged(e), Work \/ BackendFails,
           actor # None /\ actor.todo # <<>> => StepFits(actor.todo[1], e)
    PROVE  /\ lxc[e.ip] = EntryOf(e) => lxc'[e.ip] = EntryOf(e)
           /\ UpsertEndpointInfo /\ Ep = e => lxc'[e.ip] = EntryOf(e)
<1>1. TypeInv /\ DOMAIN lxc = Ips /\ e.ip \in Ips /\ e \in ContainerEps
  BY EndpointIs DEF BaseInv, PinInv, Plugged
<1>2. CASE UpsertEndpointInfo
  <2>1. /\ actor # None /\ actor.todo # <<>> /\ Ep = actor.todo[1].ep
        /\ actor.todo[1].do = "lxc" /\ 1 \in DOMAIN actor.todo /\ Ep \in ContainerEps
        /\ actor \in Actors
    BY <1>1, <1>2, HeadIs DEF UpsertEndpointInfo, At, StepNames
  <2>2. Agrees(Ep, e) /\ Ep.ip \in Ips
    BY <2>1, EndpointIs DEF StepFits
  <2>3. lxc' = [lxc EXCEPT ![Ep.ip] = [if_index |-> actor.index,
                                       container_mac |-> Ep.mac, host_mac |-> Ep.mac]]
    BY <1>2 DEF UpsertEndpointInfo
  <2>4. CASE Ep.ip # e.ip
    BY <1>1, <2>2, <2>3, <2>4
  <2>5. CASE Ep.ip = e.ip
    <3>1. Ep = e
      BY <2>2, <2>5 DEF Agrees
    <3>2. \A j \in DOMAIN actor.todo : j \in Nat \ {0}
      BY <2>1, LenProperties DEF Actors, Operations
    <3>3. ~\E j \in DOMAIN actor.todo : j < 1 /\ actor.todo[j].do = "resolve"
      BY <3>2
    <3>4. actor.index = e.mac
      BY <2>1, <3>1, <3>3 DEF IndexInv, IsResolved, Plugged
    <3> QED
      BY <1>1, <2>3, <3>1, <3>4 DEF EntryOf
  <2> QED
    BY <2>4, <2>5
<1>3. CASE RemoveEndpointInfo
  <2>1. /\ actor # None /\ actor.todo # <<>> /\ Ep = actor.todo[1].ep
        /\ actor.todo[1].do = "forget"
    BY <1>1, <1>3, HeadIs DEF RemoveEndpointInfo, At, StepNames
  <2>2. Ep.ip # e.ip
    BY <2>1 DEF StepFits
  <2>3. lxc' = [lxc EXCEPT ![Ep.ip] = None]
    BY <1>3 DEF RemoveEndpointInfo
  <2>4. ~At("lxc")
    BY <1>3 DEF RemoveEndpointInfo, At
  <2> QED
    BY <1>1, <2>2, <2>3, <2>4 DEF UpsertEndpointInfo
<1>4. CASE ~UpsertEndpointInfo /\ ~RemoveEndpointInfo
  <2>1. lxc' = lxc
    BY <1>4 DEF Work, Receive, TakeUp, Reply, LoadGlobalMaps, LoadInstance,
       SetEndpointConfig, UnpinMap, ResolveLink, EnsureAttached, RemovePinDir,
       StopLogging, ListPins, ListEndpointInfos, TeardownAll, BackendFails, Backend, kernel
  <2> QED
    BY <1>4, <2>1
<1> QED
  BY <1>2, <1>3, <1>4

HasConfig(e) ==
    config[e.link] # None /\ config[e.link].host_mac = e.mac /\ config[e.link].ipv4 \in Ips

LEMMA ConfigKept ==
    ASSUME BaseInv, NEW e, Plugged(e), Work \/ BackendFails,
           actor # None /\ actor.todo # <<>> => StepFits(actor.todo[1], e)
    PROVE  /\ HasConfig(e) => HasConfig(e)'
           /\ config[e.link] = ConfigOf(e) /\ (actor.todo # <<>> => actor.todo[1].ep = e) =>
                 config'[e.link] = ConfigOf(e)
           /\ SetEndpointConfig /\ Ep = e => config'[e.link] = ConfigOf(e)
<1>1. /\ TypeInv /\ e.link \in AllLinks /\ e \in ContainerEps /\ e.ip \in Ips /\ e.mac \in Nat
      /\ config \in [AllLinks -> Configs \cup {None}]
  BY EndpointIs DEF BaseInv, TypeInv, KernelType, Plugged
<1>2. ConfigOf(e) # None
  BY <1>1, NodeAssumption DEF ConfigOf
<1>3. CASE SetEndpointConfig
  <2>1. /\ actor # None /\ actor.todo # <<>> /\ Ep = actor.todo[1].ep
        /\ actor.todo[1].do = "config" /\ Ep \in ContainerEps
    BY <1>1, <1>3, HeadIs DEF SetEndpointConfig, At, StepNames
  <2>2. Agrees(Ep, e) /\ Ep.link \in AllLinks /\ Ep.ip \in Ips /\ Ep.mac \in Nat
    BY <2>1, EndpointIs DEF StepFits
  <2>3. config' = [config EXCEPT ![Ep.link] = ConfigOf(Ep)]
    BY <1>3 DEF SetEndpointConfig, ConfigOf
  <2>4. CASE Ep.link # e.link
    BY <1>1, <2>1, <2>2, <2>3, <2>4 DEF HasConfig
  <2>5. CASE Ep.link = e.link
    <3>1. config'[e.link] = ConfigOf(Ep) /\ Ep.mac = e.mac
      BY <1>1, <2>2, <2>3, <2>5 DEF Agrees
    <3>2. ConfigOf(Ep) # None /\ ConfigOf(Ep).host_mac = e.mac /\ ConfigOf(Ep).ipv4 \in Ips
      BY <2>2, <3>1, NodeAssumption DEF ConfigOf
    <3> QED
      BY <2>1, <3>1, <3>2 DEF HasConfig
  <2> QED
    BY <2>4, <2>5
<1>4. CASE LoadInstance
  <2>1. Ep.link \in AllLinks
    BY <1>1, <1>4, HeadIs, EndpointIs DEF LoadInstance, StepNames
  <2>2. config[e.link] # None => config'[e.link] = config[e.link]
    BY <1>1, <1>4, <2>1 DEF LoadInstance
  <2>3. ~SetEndpointConfig
    BY <1>4 DEF LoadInstance, SetEndpointConfig, At
  <2> QED
    BY <1>2, <2>2, <2>3 DEF HasConfig
<1>5. CASE UnpinMap
  <2>1. /\ actor # None /\ actor.todo # <<>> /\ Ep = actor.todo[1].ep
        /\ actor.todo[1].do = "unpin_maps"
    BY <1>1, <1>5, HeadIs DEF UnpinMap, At, StepNames
  <2>2. Ep.link # e.link
    BY <2>1 DEF StepFits
  <2>3. config'[e.link] = config[e.link]
    BY <1>1, <1>5, <2>2 DEF UnpinMap
  <2>4. ~SetEndpointConfig
    BY <1>5 DEF UnpinMap, SetEndpointConfig, At
  <2> QED
    BY <2>3, <2>4 DEF HasConfig
<1>6. CASE ~SetEndpointConfig /\ ~LoadInstance /\ ~UnpinMap
  <2>1. config' = config
    BY <1>6 DEF Work, Receive, TakeUp, Reply, LoadGlobalMaps,
       ResolveLink, EnsureAttached, RemovePinDir, UpsertEndpointInfo, RemoveEndpointInfo,
       StopLogging, ListPins, ListEndpointInfos, TeardownAll, BackendFails, Backend, kernel
  <2> QED
    BY <1>6, <2>1 DEF HasConfig
<1> QED
  BY <1>3, <1>4, <1>5, <1>6

LEMMA HookKept ==
    ASSUME BaseInv, NumberInv, PinInv, NEW e, Plugged(e), Work \/ BackendFails,
           actor # None /\ actor.todo # <<>> => StepFits(actor.todo[1], e), NEW h \in Hooks
    PROVE  /\ pins[e.link][h] = e.mac => pins'[e.link][h] = e.mac
           /\ EnsureAttached(h) /\ Ep = e => pins'[e.link][h] = e.mac
<1>1. /\ TypeInv /\ KernelType /\ e.link \in AllLinks /\ e.link \in Containers
      /\ e \in ContainerEps /\ e.mac \in Nat \ {0} /\ pins \in [AllLinks -> [Hooks -> Nat]]
      /\ veth[e.link] = e.mac /\ links \in Tables /\ made \in Nat /\ e.mac >= 3
      /\ veth \in [Containers -> Nat]
  BY EndpointIs DEF BaseInv, TypeInv, KernelType, Plugged, Numbered
<1>2. ASSUME NEW g \in Hooks, EnsureAttached(g)
      PROVE  /\ pins[e.link][h] = e.mac => pins'[e.link][h] = e.mac
             /\ g = h /\ Ep = e => pins'[e.link][h] = e.mac
  <2>1. Ep.link \in AllLinks
    BY <1>1, <1>2, HeadIs, EndpointIs DEF EnsureAttached, StepNames, Hooks
  <2>2. pins' = [pins EXCEPT ![Ep.link][g] = UpsertTcx(Ep.link, g)]
    BY <1>2 DEF EnsureAttached
  <2>3. CASE Ep.link # e.link \/ g # h
    BY <1>1, <2>1, <2>2, <2>3
  <2>4. CASE Ep.link = e.link /\ g = h
    <3>1. pins'[e.link][h] = UpsertTcx(e.link, h)
      BY <1>1, <2>2, <2>4
    <3>2. Device(e.link) = e.mac
      BY <1>1, DeviceIs, NodeAssumption
    <3>3. UpsertTcx(e.link, h) = e.mac
      <4>1. CASE ~Exists(pins[e.link][h])
        BY <3>2, <4>1 DEF UpsertTcx
      <4>2. CASE Exists(pins[e.link][h])
        <5>1. pins[e.link][h] # 0 /\ pins[e.link][h] \in 3 .. made + 2
          BY <1>1, <4>2 DEF Exists, NumberInv, Device3
        <5>2. pins[e.link][h] \notin DOMAIN links
          BY <1>1, <5>1 DEF Tables, Pairs
        <5>3. PICK k \in Containers : veth[k] = pins[e.link][h]
          BY <4>2, <5>2 DEF Exists
        <5>4. k = e.link
          BY <1>1, <5>1, <5>3 DEF PinInv
        <5> QED
          BY <1>1, <4>2, <5>3, <5>4 DEF UpsertTcx
      <4> QED
        BY <4>1, <4>2
    <3> QED
      BY <3>1, <3>3
  <2> QED
    BY <2>3, <2>4
<1>3. CASE RemovePinDir
  <2>1. /\ actor # None /\ actor.todo # <<>> /\ Ep = actor.todo[1].ep
        /\ actor.todo[1].do = "unpin_links"
    BY <1>1, <1>3, HeadIs DEF RemovePinDir, At, StepNames
  <2>2. Ep.link # e.link
    BY <2>1 DEF StepFits
  <2>3. pins'[e.link] = pins[e.link]
    BY <1>1, <1>3, <2>2 DEF RemovePinDir
  <2>4. ~At(h)
    BY <1>3 DEF RemovePinDir, At, Hooks
  <2> QED
    BY <2>3, <2>4 DEF EnsureAttached
<1>4. CASE ~RemovePinDir /\ ~\E g \in Hooks : EnsureAttached(g)
  <2>1. pins' = pins
    BY <1>4 DEF Work, Receive, TakeUp, Reply, LoadGlobalMaps, LoadInstance, UnpinMap,
       ResolveLink, SetEndpointConfig, UpsertEndpointInfo, RemoveEndpointInfo,
       StopLogging, ListPins, ListEndpointInfos, TeardownAll, BackendFails, Backend, kernel
  <2> QED
    BY <1>4, <2>1
<1>5. ASSUME NEW g \in Hooks, EnsureAttached(g), EnsureAttached(h) PROVE g = h
  BY <1>5 DEF EnsureAttached, At
<1> QED
  BY <1>2, <1>3, <1>4, <1>5

(* An endpoint that is reachable, and that nothing the thread has to do    *)
(* makes unreachable.                                                      *)
Kept(e) ==
    /\ Numbered(e) /\ IsReachable(e) /\ WorkFits(e)
    /\ \A i \in DOMAIN queue : Fits(queue[i], e)

LEMMA QueueShrinks ==
    ASSUME BaseInv, Work \/ BackendFails
    PROVE  \A i \in DOMAIN queue' : \E k \in DOMAIN queue : queue'[i] = queue[k]
<1>1. queue \in Seq(Commands) /\ TypeInv /\ ListInv
  BY DEF BaseInv, TypeInv, LoaderType
<1>2. CASE Receive
  BY <1>1, <1>2, QueueTailIs DEF Receive
<1>3. CASE Reply
  <2>1. queue' = <<>> \/ queue' = queue
    BY <1>3 DEF Reply
  <2> QED
    BY <2>1
<1>4. CASE ~Receive /\ ~Reply
  BY <1>1, <1>4, SameCommand
<1> QED
  BY <1>2, <1>3, <1>4

LEMMA WorkKeeps ==
    ASSUME BaseInv, NumberInv, PinInv, IndexInv, NEW e \in ContainerEps, Kept(e),
           Work \/ BackendFails
    PROVE  Kept(e)'
<1>1. TypeInv /\ ListInv /\ Plugged(e) /\ made \in Nat
  BY DEF BaseInv, TypeInv, KernelType, Kept, IsReachable, Plugged
<1>2. actor # None /\ actor.todo # <<>> => StepFits(actor.todo[1], e)
  BY <1>1, TailFits DEF Kept, WorkFits, TypeInv, ActorType, Actors
<1>3. UNCHANGED <<veth, made>>
  BY DEF Work, Receive, TakeUp, Reply, LoadGlobalMaps, LoadInstance, SetEndpointConfig,
     EnsureAttached, RemovePinDir, UnpinMap, ResolveLink, UpsertEndpointInfo,
     RemoveEndpointInfo, StopLogging, ListPins, ListEndpointInfos, TeardownAll, BackendFails,
     Backend, kernel
<1>4. IsReachable(e)'
  <2>1. lxc'[e.ip] = EntryOf(e)
    BY <1>1, <1>2, LxcKept DEF Kept, IsReachable
  <2>2. HasConfig(e)'
    BY <1>1, <1>2, ConfigKept DEF Kept, IsReachable, HasConfig
  <2>3. \A h \in Hooks : pins'[e.link][h] = e.mac
    BY <1>1, <1>2, HookKept DEF Kept, IsReachable
  <2> QED
    BY <1>1, <1>3, <2>1, <2>2, <2>3 DEF IsReachable, HasConfig, Plugged, EntryOf
<1>5. WorkFits(e)'
  <2>1. CASE Reply
    BY <2>1 DEF Reply, WorkFits
  <2>2. CASE ~Reply
    BY <2>2, WorkFitsKept DEF Kept
  <2> QED
    BY <2>1, <2>2
<1>6. \A i \in DOMAIN queue' : Fits(queue'[i], e)
  BY QueueShrinks DEF Kept
<1>7. Numbered(e)'
  BY <1>1, <1>3 DEF Kept, Numbered
<1> QED
  BY <1>4, <1>5, <1>6, <1>7 DEF Kept, Fits, Agrees

(* The other steps. *)
LEMMA OthersKeep ==
    ASSUME BaseInv, NEW e \in ContainerEps, Kept(e),
           \/ UNCHANGED <<kernel, actor>> /\ \E c : NewCommand(c) /\ Protected(e)'
           \/ ExitStep
           \/ Outside /\ \E ip \in Ips : owner'[ip] = e
    PROVE  Kept(e)'
<1>1. /\ TypeInv /\ made \in Nat /\ queue \in Seq(Commands) /\ e.link \in Containers
      /\ e # None
  BY EndpointIs, NoneIsNone DEF BaseInv, TypeInv, KernelType, LoaderType
<1>2. ASSUME UNCHANGED <<veth, lxc, pins, actor>>, made <= made', made' \in Nat,
             config'[e.link] = config[e.link], \A i \in DOMAIN queue' : Fits(queue'[i], e)
      PROVE  Kept(e)'
  <2>1. Numbered(e)'
    BY <1>1, <1>2 DEF Kept, Numbered
  <2>2. IsReachable(e)'
    BY <1>2 DEF Kept, IsReachable, EntryOf
  <2>3. WorkFits(e)'
    BY <1>2 DEF Kept, WorkFits, Fits, OpFits, StepFits, Agrees
  <2> QED
    BY <1>2, <2>1, <2>2, <2>3 DEF Kept, Fits, Agrees
<1>3. ASSUME UNCHANGED <<kernel, actor>>, NEW c, NewCommand(c), Protected(e)'
      PROVE  Kept(e)'
  <2>1. Fits(c, e) /\ c \in Commands /\ queue' \in {queue, Append(queue, c)}
    BY <1>3 DEF NewCommand
  <2>2. \A i \in DOMAIN queue' : Fits(queue'[i], e)
    BY <1>1, <2>1, AppendIs DEF Kept
  <2> QED
    BY <1>1, <1>2, <1>3, <2>2 DEF kernel
<1>4. CASE ExitStep
  <2>1. UNCHANGED <<veth, lxc, pins, made, config>>
    BY <1>4 DEF ExitStep, kernel
  <2>2. actor' = None /\ \A i \in DOMAIN queue' : FALSE
    BY <1>4, ExitIs DEF ExitStep
  <2>3. Numbered(e)' /\ IsReachable(e)'
    BY <2>1 DEF Kept, Numbered, IsReachable, EntryOf
  <2> QED
    BY <2>2, <2>3 DEF Kept, WorkFits
<1>5. ASSUME Outside, NEW ip \in Ips, owner'[ip] = e PROVE Kept(e)'
  <2>1. veth'[e.link] = veth[e.link]
    <3>1. veth[e.link] # 0
      BY <1>1 DEF Kept, IsReachable, Numbered
    <3> QED
      BY <1>1, <1>5, <3>1 DEF Outside
  <2>2. /\ UNCHANGED <<queue, actor, lxc, pins>> /\ config'[e.link] = config[e.link]
        /\ made' \in Nat /\ made <= made'
    BY <1>1, <1>5 DEF Outside
  <2>3. Numbered(e)'
    BY <1>1, <2>2 DEF Kept, Numbered
  <2>4. IsReachable(e)'
    BY <2>1, <2>2 DEF Kept, IsReachable, EntryOf
  <2>5. WorkFits(e)'
    BY <2>2 DEF Kept, WorkFits, Fits, OpFits, StepFits, Agrees
  <2> QED
    BY <2>2, <2>3, <2>4, <2>5 DEF Kept, Fits, Agrees
<1> QED
  BY <1>3, <1>4, <1>5

LEMMA OwnersStep ==
    ASSUME BaseInv, NumberInv, PinInv, KnownInv, CommandInv, IndexInv, OwnersInv, AddsInv,
           [Next]_vars
    PROVE  OwnersInv'
<1>1. /\ TypeInv /\ ListInv /\ owner \in [Ips -> ContainerEps \cup {None}]
      /\ None \notin ContainerEps
  BY NoneIsNone DEF BaseInv, TypeInv, DaemonType
<1>2. \A ip \in Ips : owner[ip] # None => owner[ip].ip = ip /\ Kept(owner[ip])
  BY DEF OwnersInv, Kept
<1>3. ASSUME \A ip \in Ips : owner'[ip] # None =>
                \E e \in ContainerEps : owner'[ip] = e /\ e.ip = ip /\ Kept(e)'
      PROVE  OwnersInv'
  <2> SUFFICES ASSUME NEW ip \in Ips, owner'[ip] # None
               PROVE  (/\ owner[ip].ip = ip /\ Numbered(owner[ip]) /\ IsReachable(owner[ip])
                       /\ WorkFits(owner[ip]) /\ \A i \in DOMAIN queue : Fits(queue[i], owner[ip]))'
    BY DEF OwnersInv
  <2>1. PICK e \in ContainerEps : owner'[ip] = e /\ e.ip = ip /\ Kept(e)'
    BY <1>3
  <2>2. (\A x : x = owner[ip] /\ Kept(x) =>
            (/\ Numbered(owner[ip]) /\ IsReachable(owner[ip])
             /\ WorkFits(owner[ip]) /\ \A i \in DOMAIN queue : Fits(queue[i], owner[ip])))'
    BY DEF Kept
  <2> QED
    BY <2>1, <2>2
<1>4. ASSUME NEW ip \in Ips, owner[ip] # None, owner'[ip] = owner[ip]
      PROVE  \E e \in ContainerEps : owner'[ip] = e /\ e.ip = ip /\ Kept(e) /\ owner[ip] = e
  BY <1>1, <1>2, <1>4
<1>5. CASE Work \/ BackendFails
  <2> SUFFICES ASSUME NEW ip \in Ips, owner'[ip] # None
               PROVE  \E e \in ContainerEps : owner'[ip] = e /\ e.ip = ip /\ Kept(e)'
    BY <1>3
  <2>1. CASE owner'[ip] = owner[ip]
    <3>1. PICK e \in ContainerEps : owner'[ip] = e /\ e.ip = ip /\ Kept(e)
      BY <1>4, <2>1
    <3>2. Kept(e)'
      BY <1>5, <3>1, WorkKeeps
    <3> QED
      BY <3>1, <3>2
  <2>2. CASE owner'[ip] # owner[ip]
    <3>1. Reply
      BY <1>1, <1>5, <2>2, WorkKeepsOthers
    <3>2. PICK e \in ContainerEps :
             /\ owner'[ip] = e /\ e \in actor.cmd.eps /\ e.ip = ip /\ Live(e)
             /\ actor.cmd.op = "add" /\ ~actor.failed
      BY <2>2, <3>1, ReplyOwner
    <3>3. actor # None /\ actor.todo = <<>> /\ actor' = None
      BY <3>1 DEF Reply
    <3>4. ForContainer(e) /\ e.link \in Containers /\ e.ip \in Ips /\ e.mac \in Nat
      BY EndpointIs DEF ForContainer
    <3>5. Progress(e) /\ \A j \in DOMAIN queue : Fits(queue[j], e)
      BY <3>2, <3>3, <3>4 DEF AddsInv, Adding
    <3>6. \A name : ~Left(name)
      BY <3>3 DEF Left
    <3>7. lxc[e.ip] = EntryOf(e) /\ config[e.link] = ConfigOf(e)
          /\ \A h \in Hooks : pins[e.link][h] = e.mac
      BY <3>5, <3>6 DEF Progress
    <3>8. ConfigOf(e) # None /\ ConfigOf(e).host_mac = e.mac /\ ConfigOf(e).ipv4 \in Ips
      BY <3>4, NodeAssumption DEF ConfigOf
    <3>9. IsReachable(e) /\ Numbered(e)
      <4>1. Numbered(e)
        BY <3>2, <3>3, <3>4 DEF CommandInv, CommandIs
      <4> QED
        BY <3>2, <3>7, <3>8, <4>1 DEF IsReachable, Live
    <3>10. UNCHANGED kernel /\ queue' = queue
      BY <3>1, <3>2 DEF Reply
    <3>11. Kept(e)'
      <4>1. IsReachable(e)' /\ Numbered(e)'
        BY <3>9, <3>10 DEF IsReachable, Numbered, EntryOf, kernel
      <4>2. WorkFits(e)'
        BY <3>3 DEF WorkFits
      <4> QED
        BY <3>5, <3>10, <4>1, <4>2 DEF Kept, Fits, Agrees
    <3> QED
      BY <3>2, <3>11
  <2> QED
    BY <2>1, <2>2
<1>6. CASE Next /\ SendStep /\ Asks
  <2>1. OwnersShrink /\ UNCHANGED <<kernel, actor>>
    BY <1>6, AsksKeep
  <2>2. PICK c : NewCommand(c)
    BY <1>6, AsksFit
  <2> SUFFICES ASSUME NEW ip \in Ips, owner'[ip] # None
               PROVE  \E e \in ContainerEps : owner'[ip] = e /\ e.ip = ip /\ Kept(e)'
    BY <1>3
  <2>3. owner'[ip] = owner[ip]
    BY <2>1 DEF OwnersShrink
  <2>4. PICK e \in ContainerEps : owner'[ip] = e /\ e.ip = ip /\ Kept(e)
    BY <1>4, <2>3
  <2>5. Protected(e)'
    BY <2>4 DEF Protected
  <2>6. Kept(e)'
    BY <2>1, <2>2, <2>4, <2>5, OthersKeep
  <2> QED
    BY <2>4, <2>6
<1>7. CASE ExitStep
  <2> SUFFICES ASSUME NEW ip \in Ips, owner'[ip] # None
               PROVE  \E e \in ContainerEps : owner'[ip] = e /\ e.ip = ip /\ Kept(e)'
    BY <1>3
  <2>1. owner'[ip] = owner[ip]
    BY <1>7 DEF ExitStep, history
  <2>2. PICK e \in ContainerEps : owner'[ip] = e /\ e.ip = ip /\ Kept(e)
    BY <1>4, <2>1
  <2>3. Kept(e)'
    BY <1>7, <2>2, OthersKeep
  <2> QED
    BY <2>2, <2>3
<1>8. CASE OutsideStep
  <2>1. Outside
    BY <1>1, <1>8, OutsideIs
  <2> SUFFICES ASSUME NEW ip \in Ips, owner'[ip] # None
               PROVE  \E e \in ContainerEps : owner'[ip] = e /\ e.ip = ip /\ Kept(e)'
    BY <1>3
  <2>2. owner'[ip] = owner[ip]
    BY <2>1 DEF Outside, OwnersShrink
  <2>3. PICK e \in ContainerEps : owner'[ip] = e /\ e.ip = ip /\ Kept(e)
    BY <1>4, <2>2
  <2>4. Kept(e)'
    BY <2>1, <2>3, OthersKeep
  <2> QED
    BY <2>3, <2>4
<1> QED
  BY <1>1, <1>5, <1>6, <1>7, <1>8, StepsAre

-----------------------------------------------------------------------------
(* An endpoint that is added becomes reachable. *)

LEMMA AddIs ==
    ASSUME NEW c \in Commands, CommandIs(c), c.op = "add", NEW e \in c.eps, ForContainer(e)
    PROVE  e \in ContainerEps /\ known[e.link] = e /\ Numbered(e) /\ c.eps = {e}
<1>1. c.eps \subseteq ContainerEps \cup {HostEndpoint}
  BY DEF Commands
<1>2. e \in ContainerEps
  BY <1>1, EndpointIs DEF ForContainer
<1> QED
  BY <1>2 DEF CommandIs

(* An endpoint to be added that is live was so before the step. *)
LEMMA WasLive ==
    ASSUME BaseInv, NEW e \in ContainerEps, known[e.link] = e, Numbered(e), Live(e)',
           \/ UNCHANGED <<known, deleted, veth>>
           \/ deleted \subseteq deleted' /\ UNCHANGED kernel
           \/ ExitStep
           \/ Outside
    PROVE  Live(e) /\ ~ExitStep
<1>1. e # None /\ e.link \in Containers /\ made \in Nat
  BY EndpointIs, NoneIsNone DEF BaseInv, TypeInv, KernelType
<1>2. ~ExitStep
  BY <1>1 DEF ExitStep, Exit, Live
<1>3. CASE UNCHANGED <<known, deleted, veth>>
  BY <1>2, <1>3 DEF Live
<1>4. CASE deleted \subseteq deleted' /\ UNCHANGED kernel
  BY <1>2, <1>4 DEF Live, kernel
<1>5. CASE Outside
  <2>1. veth'[e.link] = veth[e.link]
    BY <1>1, <1>5 DEF Outside, Live, Numbered
  <2> QED
    BY <1>2, <1>5, <2>1 DEF Outside, Live
<1> QED
  BY <1>2, <1>3, <1>4, <1>5

(* A step that does not fail is the call its name says. *)
LEMMA HeadActs ==
    ASSUME BaseInv, Work \/ BackendFails, ~Receive, ~Reply, actor # None, actor.todo # <<>>,
           ~actor'.failed
    PROVE  /\ actor.todo[1].do = "lxc" => UpsertEndpointInfo
           /\ actor.todo[1].do = "config" => SetEndpointConfig
           /\ \A h \in Hooks : actor.todo[1].do = h => EnsureAttached(h)
<1>1. actor \in Actors /\ actor.todo \in Operations
  BY DEF BaseInv, TypeInv, ActorType, Actors
<1>2. Head(actor.todo) = actor.todo[1]
  BY <1>1, TailIs
<1>3. ~BackendFails
  BY <1>1, NoteFailureIs, AbandonIs DEF BackendFails
<1> QED
  BY <1>2, <1>3 DEF Work, TakeUp, LoadGlobalMaps, LoadInstance, SetEndpointConfig,
     EnsureAttached, RemovePinDir, UnpinMap, At,
     ResolveLink, UpsertEndpointInfo, RemoveEndpointInfo, StopLogging, ListPins,
     ListEndpointInfos, TeardownAll, Hooks

LEMMA AddingWork ==
    ASSUME BaseInv, NumberInv, PinInv, IndexInv, NEW e, Plugged(e), Adding(e),
           Work \/ BackendFails, ~Receive, ~Reply, actor' # None
    PROVE  Adding(e)'
<1>1. /\ actor # None /\ actor \in Actors /\ actor.todo \in Operations
  BY ContinuesIs DEF Continues, Actors
<1>2. ~TakeUp
  BY <1>1 DEF TakeUp, Adding
<1>3. ~ListPins /\ ~ListEndpointInfos
  <2>1. actor.todo # <<>> => 1 \in DOMAIN actor.todo /\ Head(actor.todo) = actor.todo[1]
    BY <1>1, TailIs
  <2>2. actor.todo # <<>> => Head(actor.todo).do \in AddNames
    BY <2>1 DEF Adding
  <2> QED
    BY <2>2 DEF ListPins, ListEndpointInfos, At, AddNames
<1>4. Calls
  BY <1>2, <1>3, CallsIs
<1>5. actor.todo # <<>> /\ 1 \in DOMAIN actor.todo
  BY <1>1, <1>4, TailIs DEF Calls
<1>6. /\ actor.todo[1].ep = e /\ actor.todo[1].do \in AddNames
      /\ actor.rest = {} /\ actor.then = <<>>
      /\ ~actor.failed => Progress(e)
      /\ \A i \in DOMAIN actor.todo : actor.todo[i].ep = e /\ actor.todo[i].do \in AddNames
  BY <1>5 DEF Adding
<1>7. StepFits(actor.todo[1], e)
  BY <1>6 DEF StepFits, Agrees, AddNames
<1>8. CASE actor'.todo = <<>> /\ actor'.failed = TRUE
  <2>1. actor'.rest = {} /\ actor'.then = <<>>
    BY <1>4, <1>6 DEF Calls
  <2> QED
    BY <1>8, <2>1 DEF Adding
<1>9. CASE /\ actor'.todo = Tail(actor.todo)
           /\ actor'.rest = actor.rest /\ actor'.then = actor.then
  <2>1. \A i \in DOMAIN actor'.todo : actor'.todo[i].ep = e /\ actor'.todo[i].do \in AddNames
    BY <1>1, <1>5, <1>6, <1>9, TailIs
  <2>2. ASSUME ~actor'.failed PROVE Progress(e)'
    <3>1. Progress(e)
      BY <1>4, <1>6, <2>2 DEF Calls
    <3>2. ASSUME NEW name, Left(name), actor.todo[1].do # name PROVE Left(name)'
      <4>1. PICK i \in DOMAIN actor.todo : actor.todo[i].do = name
        BY <3>2 DEF Left
      <4>2. PICK j \in DOMAIN Tail(actor.todo) : Tail(actor.todo)[j] = actor.todo[i]
        BY <1>1, <1>5, <3>2, <4>1, StillLeft
      <4> QED
        BY <1>9, <4>1, <4>2 DEF Left
    <3>3. Ep = e
      BY <1>1, <1>5, <1>6, TailIs DEF Ep
    <3>4. lxc'[e.ip] = EntryOf(e) \/ Left("lxc")'
      <4>1. CASE lxc[e.ip] = EntryOf(e)
        BY <1>7, <4>1, LxcKept
      <4>2. CASE Left("lxc") /\ actor.todo[1].do # "lxc"
        BY <3>2, <4>2
      <4>3. CASE actor.todo[1].do = "lxc"
        <5>1. UpsertEndpointInfo
          BY <1>1, <1>5, <2>2, <4>3, HeadActs
        <5> QED
          BY <1>7, <3>3, <5>1, LxcKept
      <4> QED
        BY <3>1, <4>1, <4>2, <4>3 DEF Progress
    <3>5. config'[e.link] = ConfigOf(e) \/ Left("config")'
      <4>1. CASE config[e.link] = ConfigOf(e)
        BY <1>6, <1>7, <4>1, ConfigKept
      <4>2. CASE Left("config") /\ actor.todo[1].do # "config"
        BY <3>2, <4>2
      <4>3. CASE actor.todo[1].do = "config"
        <5>1. SetEndpointConfig
          BY <1>1, <1>5, <2>2, <4>3, HeadActs
        <5> QED
          BY <1>7, <3>3, <5>1, ConfigKept
      <4> QED
        BY <3>1, <4>1, <4>2, <4>3 DEF Progress
    <3>6. ASSUME NEW h \in Hooks PROVE pins'[e.link][h] = e.mac \/ Left(h)'
      <4>1. CASE pins[e.link][h] = e.mac
        BY <1>7, <4>1, HookKept
      <4>2. CASE Left(h) /\ actor.todo[1].do # h
        BY <3>2, <4>2
      <4>3. CASE actor.todo[1].do = h
        <5>1. EnsureAttached(h)
          BY <1>1, <1>5, <2>2, <4>3, HeadActs
        <5> QED
          BY <1>7, <3>3, <5>1, HookKept
      <4> QED
        BY <3>1, <4>1, <4>2, <4>3 DEF Progress
    <3> QED
      BY <3>4, <3>5, <3>6 DEF Progress, EntryOf, ConfigOf
  <2> QED
    BY <1>6, <1>9, <2>1, <2>2 DEF Adding
<1> QED
  BY <1>4, <1>8, <1>9 DEF Calls

(* What is queued behind an endpoint's add fits it. *)
Ordered(q) ==
    \A i, j \in DOMAIN q : i < j /\ q[i].op = "add" =>
       \A e \in q[i].eps : ForContainer(e) /\ Live(e) => Fits(q[j], e)

LEMMA AddsStep ==
    ASSUME BaseInv, NumberInv, PinInv, KnownInv, CommandInv, IndexInv, OwnersInv, AddsInv,
           [Next]_vars
    PROVE  AddsInv'
<1>1. /\ TypeInv /\ ListInv /\ queue \in Seq(Commands) /\ DOMAIN queue \subseteq Nat
      /\ actor # None => actor \in Actors /\ actor.cmd \in Commands
      /\ \A i \in DOMAIN queue : queue[i] \in Commands /\ CommandIs(queue[i])
      /\ actor # None => CommandIs(actor.cmd)
  <2>1. TypeInv /\ ListInv /\ queue \in Seq(Commands)
    BY DEF BaseInv, TypeInv, LoaderType
  <2>2. DOMAIN queue \subseteq Nat
    BY <2>1, LenProperties
  <2> QED
    BY <2>1, <2>2 DEF TypeInv, ActorType, Actors, CommandInv
<1>2. Ordered(queue)
  BY DEF AddsInv, Ordered
<1>3. ASSUME NEW e \in ContainerEps, known[e.link] = e, Numbered(e), veth[e.link] = e.mac
      PROVE  Plugged(e)
  BY <1>3 DEF Plugged
<1>4. ASSUME NEW q, queue' = q,
             \A i, j \in DOMAIN q : i < j /\ q[i].op = "add" =>
                \A e \in q[i].eps : ForContainer(e) /\ Live(e)' => Fits(q[j], e),
             actor' # None /\ actor'.cmd.op = "add" =>
                \A e \in actor'.cmd.eps : ForContainer(e) /\ Live(e)' =>
                   Adding(e)' /\ \A j \in DOMAIN q : Fits(q[j], e)
      PROVE  AddsInv'
  BY <1>4 DEF AddsInv, ForContainer, Fits, Agrees
<1>5. CASE Work \/ BackendFails
  <2>1. UNCHANGED <<known, deleted, veth>>
    BY <1>5 DEF Work, Receive, TakeUp, Reply, LoadGlobalMaps, LoadInstance, SetEndpointConfig,
       EnsureAttached, RemovePinDir, UnpinMap, ResolveLink, UpsertEndpointInfo,
       RemoveEndpointInfo, StopLogging, ListPins, ListEndpointInfos, TeardownAll, BackendFails,
       Backend, kernel, daemon
  <2>2. \A e : Live(e)' = Live(e)
    BY <2>1 DEF Live
  <2>3. CASE Receive
    <3>1. /\ queue' = Tail(queue) /\ queue[1] = Head(queue) /\ 1 \in DOMAIN queue
          /\ \A i \in DOMAIN queue' : i \in Nat /\ i + 1 \in DOMAIN queue /\ queue'[i] = queue[i + 1]
          /\ DOMAIN queue' \subseteq Nat \ {0}
      <4>1. queue # <<>> /\ queue' = Tail(queue)
        BY <2>3 DEF Receive
      <4>2. Tail(queue) \in Seq(Commands)
        BY <1>1, <4>1, HeadTailProperties
      <4>3. DOMAIN Tail(queue) \subseteq Nat \ {0}
        BY <4>2, LenProperties
      <4> QED
        BY <1>1, <4>1, <4>3, QueueTailIs
    <3>2. \A i, j \in DOMAIN queue' : i < j /\ queue'[i].op = "add" =>
             \A e \in queue'[i].eps : ForContainer(e) /\ Live(e) => Fits(queue'[j], e)
      <4> SUFFICES ASSUME NEW i \in DOMAIN queue', NEW j \in DOMAIN queue', i < j,
                          queue'[i].op = "add", NEW e \in queue'[i].eps, ForContainer(e), Live(e)
                   PROVE  Fits(queue'[j], e)
        OBVIOUS
      <4>1. i + 1 \in DOMAIN queue /\ j + 1 \in DOMAIN queue /\ i + 1 < j + 1
            /\ queue'[i] = queue[i + 1] /\ queue'[j] = queue[j + 1]
        BY <3>1
      <4> QED
        BY <1>2, <4>1 DEF Ordered
    <3>3. ASSUME actor' # None, actor'.cmd.op = "add", NEW e \in actor'.cmd.eps,
                 ForContainer(e), Live(e)
          PROVE  Adding(e)' /\ \A j \in DOMAIN queue' : Fits(queue'[j], e)
      <4>1. PICK steps \in StepsOf(queue[1]) :
               actor' = [cmd |-> queue[1], todo |-> steps,
                         rest |-> StepsOf(queue[1]) \ {steps},
                         then |-> IF queue[1].op = "reconcile" THEN <<Do("list", None)>>
                                  ELSE <<>>,
                         index |-> 0, failed |-> FALSE]
        BY <2>3, <3>1 DEF Receive
      <4>2. actor'.cmd = queue[1] /\ actor'.todo = steps
            /\ actor'.rest = StepsOf(queue[1]) \ {steps}
        BY <4>1
      <4>3. queue[1] \in Commands /\ CommandIs(queue[1]) /\ queue[1].op = "add"
            /\ e \in queue[1].eps
        BY <1>1, <3>1, <3>3, <4>2
      <4>4. e \in ContainerEps /\ queue[1].eps = {e}
        BY <3>3, <4>3, AddIs
      <4>5. StepsOf(queue[1]) = {AddSteps(e)}
        BY <4>3, <4>4 DEF StepsOf
      <4>6. actor'.then = <<>>
        BY <4>1, <4>3
      <4>7. actor'.todo = AddSteps(e) /\ actor'.rest = {}
        BY <4>2, <4>5
      <4> DEFINE s == AddSteps(e)
      <4>8. /\ DOMAIN s = 1 .. 6
            /\ \A i \in 1 .. 6 : s[i].ep = e
            /\ s[1].do = "resolve" /\ s[2].do = "load" /\ s[3].do = "config"
            /\ s[4].do = "lxc" /\ s[5].do = "ingress" /\ s[6].do = "egress"
        BY <4>4, AddStepsAre
      <4>9. actor'.todo = s
        BY <4>7
      <4> HIDE DEF s
      <4>10. \A i \in DOMAIN s : s[i].ep = e /\ s[i].do \in AddNames
        BY <4>8 DEF AddNames
      <4>11. \A name \in {"config", "lxc", "ingress", "egress"} : Left(name)'
        BY <4>8, <4>9 DEF Left
      <4>12. Progress(e)'
        BY <4>11 DEF Progress, Hooks
      <4>13. Adding(e)'
        BY <4>6, <4>7, <4>9, <4>10, <4>12 DEF Adding
      <4>14. \A j \in DOMAIN queue' : Fits(queue'[j], e)
        <5> SUFFICES ASSUME NEW j \in DOMAIN queue' PROVE Fits(queue'[j], e)
          OBVIOUS
        <5>1. j + 1 \in DOMAIN queue /\ 1 < j + 1 /\ queue'[j] = queue[j + 1]
          BY <3>1
        <5> QED
          BY <1>2, <3>1, <3>3, <4>3, <5>1 DEF Ordered
      <4> QED
        BY <4>13, <4>14
    <3> QED
      BY <1>4, <2>2, <3>2, <3>3
  <2>4. CASE Reply
    <3>1. actor' = None /\ queue' \in {<<>>, queue}
      BY <2>4 DEF Reply
    <3>2. \A i \in DOMAIN <<>> : FALSE
      OBVIOUS
    <3>3. \A i, j \in DOMAIN queue' : i < j /\ queue'[i].op = "add" =>
             \A e \in queue'[i].eps : ForContainer(e) /\ Live(e) => Fits(queue'[j], e)
      BY <1>2, <3>1, <3>2 DEF Ordered
    <3> QED
      BY <1>4, <2>2, <3>1, <3>3
  <2>5. CASE ~Receive /\ ~Reply
    <3>1. queue' = queue /\ (actor' # None => actor # None /\ actor'.cmd = actor.cmd)
      BY <1>1, <1>5, <2>5, SameCommand
    <3>2. ASSUME actor' # None, actor'.cmd.op = "add", NEW e \in actor'.cmd.eps,
                 ForContainer(e), Live(e)
          PROVE  Adding(e)' /\ \A j \in DOMAIN queue : Fits(queue[j], e)
      <4>1. actor # None /\ actor.cmd.op = "add" /\ e \in actor.cmd.eps
        BY <3>1, <3>2
      <4>2. e \in ContainerEps /\ known[e.link] = e /\ Numbered(e)
        BY <1>1, <3>2, <4>1, AddIs
      <4>3. Plugged(e)
        BY <1>3, <3>2, <4>2 DEF Live
      <4>4. Adding(e) /\ \A j \in DOMAIN queue : Fits(queue[j], e)
        BY <3>2, <4>1 DEF AddsInv
      <4>5. Adding(e)'
        BY <1>5, <2>5, <3>2, <4>3, <4>4, AddingWork
      <4> QED
        BY <4>4, <4>5
    <3> QED
      BY <1>2, <1>4, <2>2, <3>1, <3>2 DEF Ordered
  <2> QED
    BY <2>3, <2>4, <2>5
<1>6. ASSUME UNCHANGED <<actor, lxc, pins>>, \A l \in Containers : config'[l] = config[l],
             NEW q, queue' = q,
             \A e \in ContainerEps : known[e.link] = e /\ Numbered(e) /\ Live(e)' =>
                /\ Live(e)
                /\ (\A j \in DOMAIN queue : Fits(queue[j], e)) => \A j \in DOMAIN q : Fits(q[j], e),
             \A i, j \in DOMAIN q : i < j /\ q[i].op = "add" =>
                \A e \in q[i].eps : ForContainer(e) /\ Live(e)' => Fits(q[j], e)
      PROVE  AddsInv'
  <2>1. ASSUME actor' # None, actor'.cmd.op = "add", NEW e \in actor'.cmd.eps,
               ForContainer(e), Live(e)'
        PROVE  Adding(e)' /\ \A j \in DOMAIN q : Fits(q[j], e)
    <3>1. actor # None /\ actor.cmd.op = "add" /\ e \in actor.cmd.eps /\ actor' = actor
      BY <1>6, <2>1
    <3>2. e \in ContainerEps /\ known[e.link] = e /\ Numbered(e) /\ e.link \in Containers
      BY <1>1, <2>1, <3>1, AddIs, EndpointIs
    <3>3. Live(e)
      BY <1>6, <2>1, <3>2
    <3>4. Adding(e) /\ \A j \in DOMAIN queue : Fits(queue[j], e)
      BY <2>1, <3>1, <3>3 DEF AddsInv
    <3>5. Progress(e) => Progress(e)'
      BY <1>6, <3>2 DEF Progress, Left, EntryOf, ConfigOf
    <3>6. Adding(e)'
      BY <3>1, <3>4, <3>5 DEF Adding
    <3>7. \A j \in DOMAIN q : Fits(q[j], e)
      BY <1>6, <2>1, <3>2, <3>4
    <3> QED
      BY <3>6, <3>7
  <2> QED
    BY <1>4, <1>6, <2>1
<1>7. CASE Next /\ SendStep /\ Asks
  <2>1. /\ KnownGrows /\ UNCHANGED <<kernel, actor>> /\ deleted \subseteq deleted'
    BY <1>7, AsksKeep
  <2>2. PICK c : NewCommand(c)
    BY <1>7, AsksFit
  <2>3. /\ c \in Commands /\ queue' \in {queue, Append(queue, c)}
        /\ \A e \in ContainerEps : Live(e)' => Fits(c, e)
    BY <2>2 DEF NewCommand, Protected
  <2>4. ASSUME NEW e \in ContainerEps, known[e.link] = e, Numbered(e), Live(e)' PROVE Live(e)
    BY <2>1, <2>4, WasLive
  <2>5. \A j \in DOMAIN queue' :
           \/ j \in DOMAIN queue /\ queue'[j] = queue[j]
           \/ queue'[j] = c /\ \A i \in DOMAIN queue' : i < j =>
                 i \in DOMAIN queue /\ queue'[i] = queue[i]
    <3>1. CASE queue' = queue
      BY <3>1
    <3>2. CASE queue' = Append(queue, c)
      <4>1. /\ Append(queue, c) \in Seq(Commands) /\ Len(Append(queue, c)) = Len(queue) + 1
            /\ \A i \in 1 .. Len(queue) : Append(queue, c)[i] = queue[i]
            /\ Append(queue, c)[Len(queue) + 1] = c
        BY <1>1, <2>3, AppendProperties
      <4>2. DOMAIN queue' = 1 .. Len(queue) + 1 /\ DOMAIN queue = 1 .. Len(queue)
            /\ Len(queue) \in Nat
        BY <1>1, <3>2, <4>1, LenProperties
      <4> QED
        BY <3>2, <4>1, <4>2
    <3> QED
      BY <2>3, <3>1, <3>2
  <2>6. ASSUME NEW i \in DOMAIN queue', NEW j \in DOMAIN queue', i < j, queue'[i].op = "add",
               NEW e \in queue'[i].eps, ForContainer(e), Live(e)'
        PROVE  Fits(queue'[j], e)
    <3>1. i \in DOMAIN queue /\ queue'[i] = queue[i]
      <4>1. CASE j \in DOMAIN queue
        <5>1. DOMAIN queue = 1 .. Len(queue) /\ Len(queue) \in Nat
          BY <1>1, LenProperties
        <5>2. DOMAIN queue' \subseteq Nat \ {0}
          <6>1. queue' \in Seq(Commands)
            BY <1>1, <2>3, AppendProperties
          <6> QED
            BY <6>1, LenProperties
        <5>3. i \in DOMAIN queue
          BY <2>6, <4>1, <5>1, <5>2
        <5>4. Append(queue, c)[i] = queue[i]
          BY <1>1, <2>3, <5>1, <5>3, AppendProperties
        <5> QED
          BY <2>3, <5>3, <5>4
      <4>2. CASE j \notin DOMAIN queue
        BY <2>5, <2>6, <4>2
      <4> QED
        BY <4>1, <4>2
    <3>2. e \in ContainerEps /\ known[e.link] = e /\ Numbered(e)
      BY <1>1, <2>6, <3>1, AddIs
    <3>3. Live(e)
      BY <2>4, <2>6, <3>2
    <3>4. CASE j \in DOMAIN queue /\ queue'[j] = queue[j]
      BY <1>2, <2>6, <3>1, <3>3, <3>4 DEF Ordered
    <3>5. CASE queue'[j] = c
      BY <2>3, <2>6, <3>2, <3>5
    <3> QED
      BY <2>5, <3>4, <3>5
  <2>7. ASSUME NEW e \in ContainerEps, Live(e)', \A j \in DOMAIN queue : Fits(queue[j], e)
        PROVE  \A j \in DOMAIN queue' : Fits(queue'[j], e)
    BY <2>3, <2>5, <2>7
  <2>8. UNCHANGED <<lxc, pins, config>>
    BY <2>1 DEF kernel
  <2> QED
    BY <1>6, <2>1, <2>4, <2>6, <2>7, <2>8
<1>8. CASE ExitStep
  <2>1. actor' = None /\ queue' = <<>> /\ \A i \in DOMAIN queue' : FALSE
    BY <1>8, ExitIs DEF ExitStep
  <2> QED
    BY <2>1 DEF AddsInv
<1>9. CASE OutsideStep
  <2>1. Outside
    BY <1>1, <1>9, OutsideIs
  <2>2. /\ UNCHANGED <<actor, lxc, pins>> /\ queue' = queue
        /\ \A l \in Containers : config'[l] = config[l]
    BY <2>1 DEF Outside
  <2>3. ASSUME NEW e \in ContainerEps, known[e.link] = e, Numbered(e), Live(e)' PROVE Live(e)
    BY <2>1, <2>3, WasLive
  <2>4. ASSUME NEW i \in DOMAIN queue, NEW j \in DOMAIN queue, i < j, queue[i].op = "add",
               NEW e \in queue[i].eps, ForContainer(e), Live(e)'
        PROVE  Fits(queue[j], e)
    <3>1. e \in ContainerEps /\ known[e.link] = e /\ Numbered(e)
      BY <1>1, <2>4, AddIs
    <3>2. Live(e)
      BY <2>3, <2>4, <3>1
    <3> QED
      BY <1>2, <2>4, <3>2 DEF Ordered
  <2> QED
    BY <1>6, <2>2, <2>3, <2>4
<1> QED
  BY <1>1, <1>5, <1>7, <1>8, <1>9, StepsAre

(* What the programs do with frames for an endpoint that is reachable. *)
LEMMA ReachableIs ==
    ASSUME NEW e \in ContainerEps, IsReachable(e)
    PROVE  LET ip4 == Judge(SARENA_HOST, Frame("ipv4", e.ip, "all", 2))
               arp == Judge(e.link, Frame("arp", InternalIp, "all", 2))
           IN  /\ ip4.verdict = Redirect(veth[e.link])
               /\ ip4.frame.dst = e.mac /\ ip4.frame.src = e.mac
               /\ \A h \in Hooks : pins[e.link][h] = veth[e.link]
               /\ arp.verdict = RedirectPeer(veth[e.link]) /\ arp.frame.src = e.mac
<1>1. /\ e.link \in Containers /\ e.ip \in Ips /\ e.mac \in Nat /\ e.link # SARENA_HOST
      /\ lxc[e.ip] = EntryOf(e) /\ EntryOf(e) # None /\ veth[e.link] = e.mac
  BY EndpointIs, NodeAssumption DEF IsReachable, EntryOf
<1> DEFINE f == Frame("ipv4", e.ip, "all", 2)
           g == Frame("arp", InternalIp, "all", 2)
<1>2. /\ f.size = "all" /\ f.type = "ipv4" /\ f.frag = FALSE /\ f.to = e.ip /\ f.ttl = 2
      /\ f.csum = 0
      /\ g.size = "all" /\ g.type = "arp" /\ g.request = TRUE /\ g.dst = Broadcast
      /\ g.to = InternalIp
  BY DEF Frame
<1>3. Judge(SARENA_HOST, f) = ProcessIpv4(f, lxc, "host_forward")
  <2> HIDE DEF f
  <2> QED
    BY <1>2 DEF Judge, TryFromHost
<1>4. ProcessIpv4(f, lxc, "host_forward")
         = [LocalDelivery(f, EntryOf(e)) EXCEPT !.counted = {"host_forward"}]
  <2> HIDE DEF f
  <2> QED
    BY <1>1, <1>2 DEF ProcessIpv4
<1> DEFINE ip == Ipv4DecTtl(2, 0)
           r == RewriteEth([f EXCEPT !.ttl = ip.ttl, !.csum = ip.csum], e.mac, e.mac)
<1>5. LocalDelivery(f, EntryOf(e)) = Outcome(Redirect(e.mac), r)
  <2> DEFINE m == EntryOf(e)
  <2>1. m.if_index = e.mac /\ m.host_mac = e.mac /\ m.container_mac = e.mac
    BY DEF EntryOf
  <2>2. ~(f.ttl <= 1)
    BY <1>2
  <2> HIDE DEF f, m
  <2>3. LocalDelivery(f, m)
           = Outcome(Redirect(m.if_index),
                     RewriteEth([f EXCEPT !.ttl = Ipv4DecTtl(f.ttl, f.csum).ttl,
                                          !.csum = Ipv4DecTtl(f.ttl, f.csum).csum],
                                m.host_mac, m.container_mac))
    BY <2>2, Zenon DEF LocalDelivery
  <2> QED
    BY <1>2, <2>1, <2>3, Zenon DEF m
<1>6. r.src = e.mac /\ r.dst = e.mac
  <2> HIDE DEF ip
  <2> QED
    BY DEF Frame, RewriteEth
<1>7. /\ Judge(SARENA_HOST, f).verdict = Redirect(veth[e.link])
      /\ Judge(SARENA_HOST, f).frame = r
  <2> HIDE DEF f, r
  <2> QED
    BY <1>1, <1>3, <1>4, <1>5 DEF Outcome
<1>8. Judge(e.link, g) = ProcessArp(g, config[e.link], veth[e.link])
  <2> HIDE DEF g
  <2> QED
    BY <1>1, <1>2 DEF Judge, TryFromContainer
<1>9. config[e.link].host_mac = e.mac /\ config[e.link].ipv4 # InternalIp
  BY NodeAssumption DEF IsReachable
<1>10. ProcessArp(g, config[e.link], veth[e.link])
          = Outcome(RedirectPeer(veth[e.link]), WriteArpReply(g, e.mac))
  <2> HIDE DEF g
  <2> QED
    BY <1>2, <1>9 DEF ProcessArp
<1>11. WriteArpReply(g, e.mac).src = e.mac
  BY DEF WriteArpReply, RewriteEth, Frame
<1>12. /\ Judge(e.link, g).verdict = RedirectPeer(veth[e.link])
       /\ Judge(e.link, g).frame = WriteArpReply(g, e.mac)
  <2> HIDE DEF g
  <2> QED
    BY <1>8, <1>10 DEF Outcome
<1>13. \A h \in Hooks : pins[e.link][h] = veth[e.link]
  BY DEF IsReachable
<1> HIDE DEF f, g, r
<1>14. /\ Judge(SARENA_HOST, f).verdict = Redirect(veth[e.link])
       /\ Judge(SARENA_HOST, f).frame.dst = e.mac /\ Judge(SARENA_HOST, f).frame.src = e.mac
       /\ Judge(e.link, g).verdict = RedirectPeer(veth[e.link])
       /\ Judge(e.link, g).frame.src = e.mac
  BY <1>6, <1>7, <1>11, <1>12
<1> QED
  BY <1>13, <1>14 DEF f, g

AddedInv ==
    NumberInv /\ PinInv /\ KnownInv /\ CommandInv /\ IndexInv /\ OwnersInv /\ AddsInv

(* The endpoint that was last added with an address gets its frames and    *)
(* has its ARP requests answered until it is deleted or its device goes,   *)
(* whatever is added, removed and reconciled meanwhile, whichever calls of *)
(* the backend fail, and however often the daemon stops or crashes between *)
(* two of them (AddedIsReachable).                                         *)
THEOREM Reached == Spec => []AddedIsReachable
<1>1. Init => AddedInv
  <2> SUFFICES ASSUME Init PROVE AddedInv
    OBVIOUS
  <2>1. \A i \in DOMAIN <<>> : FALSE
    OBVIOUS
  <2>2. NumberInv /\ PinInv
    BY DEF Init, NumberInv, PinInv, Device3, AllLinks
  <2>3. KnownInv /\ OwnersInv
    BY DEF Init, KnownInv, OwnersInv
  <2>4. CommandInv /\ IndexInv /\ AddsInv
    BY <2>1 DEF Init, CommandInv, IndexInv, AddsInv
  <2> QED
    BY <2>2, <2>3, <2>4 DEF AddedInv
<1>2. BaseInv /\ AddedInv /\ [Next]_vars => AddedInv'
  BY NumberStep, PinStep, KnownStep, CommandStep, IndexStep, OwnersStep, AddsStep DEF AddedInv
<1>3. BaseInv /\ AddedInv => AddedIsReachable
  <2> SUFFICES ASSUME BaseInv, OwnersInv, NEW ip \in {a \in Ips : owner[a] # None}
               PROVE  LET e   == owner[ip]
                          ip4 == Judge(SARENA_HOST, Frame("ipv4", ip, "all", 2))
                          arp == Judge(e.link, Frame("arp", InternalIp, "all", 2))
                      IN  /\ ip4.verdict = Redirect(veth[e.link])
                          /\ ip4.frame.dst = e.mac /\ ip4.frame.src = e.mac
                          /\ \A h \in Hooks : pins[e.link][h] = veth[e.link]
                          /\ arp.verdict = RedirectPeer(veth[e.link]) /\ arp.frame.src = e.mac
    BY DEF AddedIsReachable, AddedInv
  <2>1. owner[ip] \in ContainerEps /\ owner[ip].ip = ip /\ IsReachable(owner[ip])
    BY DEF OwnersInv, BaseInv, TypeInv, DaemonType
  <2> QED
    BY <2>1, ReachableIs
<1> QED
  BY <1>1, <1>2, <1>3, TypeCorrect, PTL DEF Spec

-----------------------------------------------------------------------------
(* The checksum of a header whose TTL a program decrements.                 *)

(* The words of a header, as a little-endian host loads them.               *)
LEMMA HostWordsAre ==
    ASSUME NEW header \in Seq(0 .. ByteSize - 1), Len(header) > 0, Len(header) % 2 = 0,
           NEW n, n = Len(header) \div 2
    PROVE  /\ n \in Nat \ {0} /\ Len(HostWords(header)) = n
           /\ \A i \in 1 .. n : /\ HostWords(header)[i] \in Nat
                                /\ HostWords(header)[i]
                                     = header[2 * i - 1] + header[2 * i] * ByteSize
           /\ HostWords(header)[1] >= header[1]
<1>1. n \in Nat \ {0} /\ Len(header) = 2 * n
  OBVIOUS
<1>2. Len(HostWords(header)) = n
  BY <1>1 DEF HostWords
<1>3. \A i \in 1 .. n : 2 * i - 1 \in 1 .. Len(header) /\ 2 * i \in 1 .. Len(header)
  BY <1>1
<1>4. ASSUME NEW i \in 1 .. n
      PROVE  /\ HostWords(header)[i] = header[2 * i - 1] + header[2 * i] * ByteSize
             /\ header[2 * i - 1] \in Nat /\ header[2 * i] * ByteSize \in Nat
  <2>1. header[2 * i - 1] \in Nat /\ header[2 * i] \in Nat
    BY <1>3, PacketAssumption DEF PacketAssumption
  <2>2. header[2 * i] * ByteSize \in Nat
    BY <2>1, PacketAssumption DEF PacketAssumption
  <2> QED
    BY <1>1, <2>1, <2>2 DEF HostWords
<1>5. HostWords(header)[1] >= header[1]
  <2>1. 1 \in 1 .. n /\ 2 * 1 - 1 = 1
    BY <1>1
  <2> QED
    BY <1>4, <2>1
<1> QED
  BY <1>1, <1>2, <1>4, <1>5

(* One less in the first word is one less in the sum.                       *)
LEMMA FirstCounts ==
    ASSUME NEW n \in Nat \ {0}, NEW v, NEW w, Len(v) = n, Len(w) = n,
           \A i \in 1 .. n : v[i] \in Nat /\ w[i] \in Nat,
           v[1] = w[1] - 1, \A i \in 2 .. n : v[i] = w[i]
    PROVE  Sum(v) = Sum(w) - 1 /\ Sum(w) >= w[1]
<1>1. PICK f \in [0 .. n -> Nat] :
         f[0] = 0 /\ (\A i \in 1 .. n : f[i] = f[i - 1] + v[i]) /\ Sum(v) = f[n]
  BY SumIs
<1>2. PICK g \in [0 .. n -> Nat] :
         g[0] = 0 /\ (\A i \in 1 .. n : g[i] = g[i - 1] + w[i]) /\ Sum(w) = g[n]
  BY SumIs
<1> DEFINE S == {k \in Nat : k + 1 <= n => f[k + 1] = g[k + 1] - 1 /\ g[k + 1] >= w[1]}
<1>3. 0 \in S
  <2>1. 1 \in 1 .. n /\ 1 - 1 = 0 /\ 0 + 1 = 1
    OBVIOUS
  <2>2. f[1] = 0 + v[1] /\ g[1] = 0 + w[1] /\ v[1] \in Nat /\ w[1] \in Nat
    BY <1>1, <1>2, <2>1
  <2> QED
    BY <2>1, <2>2
<1>4. ASSUME NEW k \in Nat, k \in S PROVE k + 1 \in S
  <2> SUFFICES ASSUME k + 2 <= n
               PROVE  f[k + 2] = g[k + 2] - 1 /\ g[k + 2] >= w[1]
    <3>1. k + 1 + 1 = k + 2
      OBVIOUS
    <3> QED
      BY <3>1
  <2>1. f[k + 1] = g[k + 1] - 1 /\ g[k + 1] >= w[1]
    <3>1. k + 1 <= n
      OBVIOUS
    <3> QED
      BY <1>4, <3>1
  <2>2. /\ k + 2 \in 1 .. n /\ k + 2 \in 2 .. n /\ 1 \in 1 .. n
        /\ k + 1 \in 0 .. n /\ (k + 2) - 1 = k + 1
    OBVIOUS
  <2>3. f[k + 2] = f[k + 1] + v[k + 2]
    BY <1>1, <2>2
  <2>4. g[k + 2] = g[k + 1] + w[k + 2]
    BY <1>2, <2>2
  <2>5. /\ v[k + 2] = w[k + 2] /\ v[k + 2] \in Nat /\ w[1] \in Nat
        /\ f[k + 1] \in Nat /\ g[k + 1] \in Nat
    BY <2>2
  <2>6. f[k + 1] + v[k + 2] = (g[k + 1] + w[k + 2]) - 1 /\ g[k + 1] + w[k + 2] >= w[1]
    <3>1. PICK a \in Nat, b \in Nat, c \in Nat, d \in Nat :
             a = f[k + 1] /\ b = g[k + 1] /\ c = w[k + 2] /\ d = w[1]
      BY <2>5
    <3>2. f[k + 1] = b - 1 /\ v[k + 2] = c /\ b >= d
      BY <2>1, <2>5, <3>1, Zenon
    <3>3. (b - 1) + c = (b + c) - 1 /\ b + c >= d
      BY <3>2
    <3> QED
      BY <3>1, <3>2, <3>3, Zenon
  <2> QED
    BY <2>3, <2>4, <2>6, Zenon
<1> HIDE DEF S
<1>5. n - 1 \in S /\ n - 1 \in Nat /\ (n - 1) + 1 = n
  <2>1. Nat \subseteq S
    BY <1>3, <1>4, Counting, Zenon
  <2> QED
    BY <2>1
<1>6. f[n] = g[n] - 1 /\ g[n] >= w[1]
  BY <1>5 DEF S
<1> QED
  BY <1>1, <1>2, <1>6

(* A sum folds to the largest word if it is a multiple of it and not 0.     *)
LEMMA RightIsMultiple ==
    ASSUME NEW s \in Nat
    PROVE  Ones(s) = WordSize - 1 <=> s > 0 /\ \E k \in Int : s = k * (WordSize - 1)
<1>1. ASSUME Ones(s) = WordSize - 1
      PROVE  s > 0 /\ \E k \in Int : s = k * (WordSize - 1)
  <2>1. s > 0 /\ ((s - 1) % (WordSize - 1)) = WordSize - 2
    BY <1>1, WordSizeIs DEF Ones
  <2> DEFINE m == WordSize - 1
             q == (s - 1) \div m
  <2>2. m \in Nat \ {0}
    BY WordSizeIs
  <2>3. q \in Int /\ s - 1 = (q * m) + ((s - 1) % m)
    <3>1. s - 1 \in Nat
      BY <2>1
    <3> HIDE DEF m
    <3> QED
      BY <2>2, <3>1
  <2>4. s - 1 = (q * m) + (m - 1)
    BY <2>1, <2>3, WordSizeIs
  <2> HIDE DEF m, q
  <2>5. s = (q + 1) * m /\ q + 1 \in Int
    BY <2>2, <2>3, <2>4
  <2> QED
    BY <2>1, <2>5 DEF m
<1>2. ASSUME s > 0, NEW k \in Int, s = k * (WordSize - 1)
      PROVE  Ones(s) = WordSize - 1
  <2>1. WordSize - 1 \in Nat \ {0} /\ WordSize - 1 < WordSize
    BY WordSizeIs
  <2>2. s = (WordSize - 1) + (k - 1) * (WordSize - 1)
    BY <1>2, <2>1
  <2>3. Ones(s) = Ones(WordSize - 1)
    BY <1>2, <2>1, <2>2, SameOnes
  <2> QED
    BY <2>1, <2>3, OnesIs
<1> QED
  BY <1>1, <1>2

(* A header of any length whose checksum is right is one after its TTL was  *)
(* decremented, whatever carries the difference makes (local_delivery.rs    *)
(* ipv4_dec_ttl).                                                           *)
THEOREM TtlStaysRight ==
    ASSUME NEW header \in Seq(0 .. ByteSize - 1), Len(header) > 0, Len(header) % 2 = 0,
           NEW csum \in 0 .. WordSize - 1
    PROVE  StaysRight(header, csum)
<1> SUFFICES ASSUME IsRight(header, csum), header[1] > 1
             PROVE  LET new == Ipv4DecTtl(header[1], csum)
                    IN  IsRight([header EXCEPT ![1] = new.ttl], new.csum)
  BY DEF StaysRight
<1> DEFINE n == Len(header) \div 2
           m == WordSize - 1
           ttl == header[1]
           after == [header EXCEPT ![1] = ttl - 1]
           s == Sum(HostWords(header))
           t == Sum(HostWords(after))
           x == (m - csum) + (m - ttl) + (ttl - 1)
           new == m - Fold(x)
<1>1. m \in Nat \ {0} /\ m >= 3 /\ csum \in 0 .. m
  BY WordSizeIs
<1>2. ttl \in Nat /\ ttl - 1 \in 0 .. ByteSize - 1 /\ ttl > 1
  BY PacketAssumption DEF PacketAssumption
<1>3. /\ after \in Seq(0 .. ByteSize - 1) /\ Len(after) = Len(header)
      /\ after[1] = ttl - 1 /\ \A i \in 2 .. Len(header) : after[i] = header[i]
  BY <1>2
<1>4. t = s - 1 /\ s >= ttl /\ s \in Nat /\ t \in Nat
  <2> DEFINE v == HostWords(after)
             w == HostWords(header)
  <2>1. /\ n \in Nat \ {0} /\ Len(header) = 2 * n /\ Len(w) = n
        /\ \A i \in 1 .. n : w[i] \in Nat /\ w[i] = header[2 * i - 1] + header[2 * i] * ByteSize
        /\ w[1] >= ttl
    BY HostWordsAre
  <2>2. /\ Len(v) = n
        /\ \A i \in 1 .. n : v[i] \in Nat /\ v[i] = after[2 * i - 1] + after[2 * i] * ByteSize
    BY <1>3, HostWordsAre
  <2> HIDE DEF v, w, n, after
  <2>3. \A i \in 2 .. n : v[i] = w[i]
    <3> SUFFICES ASSUME NEW i \in 2 .. n PROVE v[i] = w[i]
      OBVIOUS
    <3>1. 2 * i - 1 \in 2 .. Len(header) /\ 2 * i \in 2 .. Len(header) /\ i \in 1 .. n
      BY <2>1
    <3>2. after[2 * i - 1] = header[2 * i - 1] /\ after[2 * i] = header[2 * i]
      BY <1>3, <3>1
    <3> QED
      BY <2>1, <2>2, <3>1, <3>2
  <2>4. v[1] = w[1] - 1
    <3>1. 1 \in 1 .. n /\ 2 * 1 - 1 = 1 /\ 2 * 1 = 2 /\ 2 \in 2 .. Len(header)
      BY <2>1
    <3>2. /\ v[1] = after[1] + after[2] * ByteSize
          /\ w[1] = header[1] + header[2] * ByteSize
      BY <2>1, <2>2, <3>1
    <3>3. header[2] * ByteSize \in Nat
      BY <3>1, PacketAssumption DEF PacketAssumption
    <3> QED
      BY <1>2, <1>3, <3>1, <3>2, <3>3
  <2>5. Sum(v) = Sum(w) - 1 /\ Sum(w) >= w[1]
    BY <2>1, <2>2, <2>3, <2>4, FirstCounts
  <2>6. Sum(v) \in Nat /\ Sum(w) \in Nat
    BY <2>1, <2>2, SumIsNat
  <2> QED
    BY <1>2, <2>1, <2>5, <2>6 DEF v, w
<1>5. x \in Nat \ {0} /\ x = (2 * m) - csum - 1
  <2>1. m \in Nat /\ m >= 3 /\ csum \in Nat /\ csum <= m /\ ttl \in Nat
    BY <1>1, <1>2
  <2> HIDE DEF m, ttl
  <2>2. x = (2 * m) - csum - 1
    BY <2>1
  <2> HIDE DEF x
  <2> QED
    BY <2>1, <2>2
<1>6. Fold(x) = Ones(x) /\ Ones(x) \in 1 .. m /\ new \in Nat /\ new = m - Ones(x)
  <2>1. x \in Nat /\ x > 0
    BY <1>5
  <2> HIDE DEF x
  <2>2. Fold(x) = Ones(x)
    BY <2>1, FoldIsOnes
  <2>3. Ones(x) \in 0 .. m /\ Ones(x) >= 1
    BY <2>1, OnesIs
  <2>4. Ones(x) \in 1 .. m
    BY <1>1, <2>3
  <2> HIDE DEF m
  <2> QED
    BY <1>1, <2>2, <2>4
<1>7. PICK k \in Int : x = Ones(x) + k * m
  <2> DEFINE q == (x - 1) \div m
  <2>1. q \in Int /\ x - 1 = (q * m) + ((x - 1) % m) /\ ((x - 1) % m) \in Nat
    <3>1. x - 1 \in Nat
      BY <1>5
    <3> HIDE DEF x, m
    <3> QED
      BY <1>1, <3>1
  <2>2. Ones(x) = ((x - 1) % m) + 1
    BY <1>5 DEF Ones
  <2> HIDE DEF q, m, x
  <2>3. x = Ones(x) + q * m
    BY <1>1, <1>5, <2>1, <2>2
  <2> QED
    BY <2>1, <2>3
<1>8. PICK j \in Int : s + csum = j * m
  <2>1. Fold(s + csum) = m /\ s + csum \in Nat
    BY <1>1, <1>4 DEF IsRight
  <2>2. Ones(s + csum) = m
    BY <2>1, FoldIsOnes
  <2> QED
    BY <2>1, <2>2, RightIsMultiple
<1> HIDE DEF m, x, s, t, new
<1>9. t + new = (j + k - 1) * m
  <2>1. t + new = s - 1 + m - Ones(x)
    BY <1>1, <1>4, <1>6
  <2>2. Ones(x) = 2 * m - csum - 1 - k * m
    BY <1>1, <1>5, <1>6, <1>7
  <2> QED
    BY <1>1, <1>4, <1>8, <2>1, <2>2
<1>10. t + new \in Nat /\ t + new > 0
  BY <1>2, <1>4, <1>6
<1>11. Fold(t + new) = m
  <2>1. Ones(t + new) = m
    BY <1>9, <1>10, RightIsMultiple DEF m
  <2> QED
    BY <1>10, <2>1, FoldIsOnes
<1>12. IsRight(after, new)
  BY <1>11 DEF IsRight, t, m
<1> QED
  BY <1>12 DEF Ipv4DecTtl, CsumReplace, x, m, new
=============================================================================
