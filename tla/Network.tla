------------------------------ MODULE Network ------------------------------
(***************************************************************************)
(* The kernel's network as sarena-infra drives it: the links of every      *)
(* network namespace and the operations of a Link and of the network       *)
(* provisioner on them.                                                    *)
(*                                                                         *)
(* The operators take the kernel's table of links, L, a function from      *)
(* interface indices, and return the set of its possible next values: the  *)
(* empty set is the operation's error.  A handle is what the code keeps of *)
(* a link, a snapshot of its index, name and namespace taken when it was   *)
(* looked up.  Netlink calls go by the handle's index, sysctls by its      *)
(* name, both inside the namespace the handle names; deleting a namespace  *)
(* deletes its links, so a handle to one of them reaches nothing.          *)
(***************************************************************************)
EXTENDS Integers, Functions, SequencesExt

HostNs == "host"
NoHop == "none"
Sysctls == {"forwarding", "rp_filter", "accept_local", "send_redirects"}

(* Destinations are a gateway's own address and, of length 0, everything. *)
Everything == "default"

-----------------------------------------------------------------------------
(* Links (NetlinkLink, parse_link) and looking them up. *)

NewLink(name, peer) ==
    [ns |-> HostNs, name |-> name, peer |-> peer, up |-> FALSE, arp |-> TRUE,
     mtu |-> 0, sysctl |-> [k \in Sysctls |-> "default"],
     addrs |-> {}, routes |-> {}]

Named(L, ns, name) == {i \in DOMAIN L : L[i].ns = ns /\ L[i].name = name}

(* The link a handle's index reaches inside the handle's namespace. *)
Reach(L, h) == {i \in DOMAIN L : i = h.index /\ L[i].ns = h.ns}

GetLinkImpl(L, ns, name) ==
    {[index |-> i, name |-> name, ns |-> ns] : i \in Named(L, ns, name)}

GetLinkByName(L, name) == GetLinkImpl(L, HostNs, name)

GetLinkByNameInNs(L, ns, name) == GetLinkImpl(L, ns, name)

-----------------------------------------------------------------------------
(* The netlink requests (the functions *_impl). *)

LinkSetUpImpl(L, i) == {[L EXCEPT ![i].up = TRUE]}

LinkSetArpImpl(L, i, enabled) == {[L EXCEPT ![i].arp = enabled]}

LinkSetMtuImpl(L, i, mtu) == {[L EXCEPT ![i].mtu = mtu]}

(* Names are unique in a namespace. *)
LinkRenameImpl(L, i, name) ==
    {[L EXCEPT ![i].name = n] :
        n \in {m \in {name} : Named(L, L[i].ns, m) \subseteq {i}}}

(* A veth dies with its peer, in whatever namespaces they are. *)
LinkDeleteImpl(L, i) == {Restrict(L, DOMAIN L \ {i, L[i].peer})}

(* A link that changes namespace goes down and keeps its name and index,   *)
(* but none of its addresses and routes.                                   *)
LinkSetNsImpl(L, i, ns) ==
    {[L EXCEPT ![i] = [@ EXCEPT !.ns = target, !.up = FALSE,
                                !.addrs = {}, !.routes = {}]] :
        target \in {t \in {ns} : Named(L, t, L[i].name) = {}}}

(* Adding an address the link has fails; replacing it does not. *)
LinkAddAddrImpl(L, i, addr) ==
    {[L EXCEPT ![i].addrs = @ \cup {a}] : a \in {addr} \ L[i].addrs}

LinkReplaceAddrImpl(L, i, addr) == {[L EXCEPT ![i].addrs = @ \cup {addr}]}

LinkAddressesImpl(L, i) == L[i].addrs

(* The gateway is the destination of an on-link route of the link, or one  *)
(* of the node's own addresses.                                            *)
Reachable(L, i, hop) ==
    \/ hop = NoHop
    \/ \E r \in L[i].routes : r.nexthop = NoHop /\ r.prefix = hop
    \/ hop \in L[i].addrs

(* The scope follows from the nexthop.  Replaces the route of the prefix,  *)
(* needs the link up and the nexthop reachable.                            *)
LinkAddRouteImpl(L, i, r) ==
    {[L EXCEPT ![i].routes = {q \in @ : q.prefix # r.prefix} \cup {s}] :
        s \in {t \in {r} : L[i].up /\ Reachable(L, i, t.nexthop)}}

-----------------------------------------------------------------------------
(* The methods of a link: each enters the namespace of the handle and      *)
(* makes the request there, by the handle's index.                         *)

SetUp(L, h) == UNION {LinkSetUpImpl(L, i) : i \in Reach(L, h)}

SetArp(L, h, enabled) == UNION {LinkSetArpImpl(L, i, enabled) : i \in Reach(L, h)}

SetMtu(L, h, mtu) == UNION {LinkSetMtuImpl(L, i, mtu) : i \in Reach(L, h)}

Rename(L, h, name) == UNION {LinkRenameImpl(L, i, name) : i \in Reach(L, h)}

Delete(L, h) == UNION {LinkDeleteImpl(L, i) : i \in Reach(L, h)}

SetNs(L, h, ns) == UNION {LinkSetNsImpl(L, i, ns) : i \in Reach(L, h)}

AddAddr(L, h, addr) == UNION {LinkAddAddrImpl(L, i, addr) : i \in Reach(L, h)}

ReplaceAddr(L, h, addr) == UNION {LinkReplaceAddrImpl(L, i, addr) : i \in Reach(L, h)}

AddRoute(L, h, r) == UNION {LinkAddRouteImpl(L, i, r) : i \in Reach(L, h)}

Addresses(L, h) == UNION {LinkAddressesImpl(L, i) : i \in Reach(L, h)}

(* A sysctl is a file named after the link, not after its index. *)
SysctlWrite(L, h, key, value) ==
    {[L EXCEPT ![i].sysctl[key] = value] : i \in Named(L, h.ns, h.name)}

(* Faulty variant: the value goes to the file of another setting. *)
SetRpFilterElsewhere(L, h, value) == SysctlWrite(L, h, "accept_local", value)

SetRpFilter(L, h, value) == SysctlWrite(L, h, "rp_filter", value)

SetIpv4Forwarding(L, h, value) == SysctlWrite(L, h, "forwarding", value)

SetAcceptLocal(L, h, value) == SysctlWrite(L, h, "accept_local", value)

SetSendRedirects(L, h, value) == SysctlWrite(L, h, "send_redirects", value)

-----------------------------------------------------------------------------
(* The provisioner. *)

(* One request makes both ends, i and j, in the host's namespace. *)
CreateVethPair(L, i, j, name, peerName) ==
    {[k \in DOMAIN L \cup {i, j} |->
        CASE k = i -> NewLink(name, j)
          [] k = j -> NewLink(peerName, i)
          [] OTHER -> L[k]] :
        free \in {n \in {name} : Named(L, HostNs, n) = {}
                                 /\ Named(L, HostNs, peerName) = {}
                                 /\ n # peerName}}

DeleteLinkInNs(L, ns, name) ==
    UNION {Delete(L, h) : h \in GetLinkByNameInNs(L, ns, name)}

(* umount of the last reference to a namespace. *)
DeleteNs(L, ns) ==
    Restrict(L, {i \in DOMAIN L : L[i].ns # ns /\ L[L[i].peer].ns # ns})

-----------------------------------------------------------------------------
(* Routes (route.rs, ipam.rs of the plugin). *)

Route(prefix, len, nexthop, mtu) ==
    [prefix |-> prefix, len |-> len, nexthop |-> nexthop, mtu |-> mtu]

(* A stable sort by the length of the prefix. *)
SortNarrowestFirst(routes) ==
    LET before(i, j) == \/ routes[i].len > routes[j].len
                        \/ routes[i].len = routes[j].len /\ i <= j
        order == CHOOSE p \in Bijection(DOMAIN routes, DOMAIN routes) :
                    \A i, j \in DOMAIN routes : i <= j => before(p[i], p[j])
    IN  [i \in DOMAIN routes |-> routes[order[i]]]

(* A host route to the gateway, and everything through it. *)
Ipv4Routes(gateway, mtu) ==
    << Route(gateway, 32, NoHop, 0), Route(Everything, 0, gateway, mtu) >>
=============================================================================
