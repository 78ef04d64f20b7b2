---------------------------- MODULE SoftDataplane ----------------------------
(***************************************************************************)
(* The software data plane (sarena-data-plane, soft_dataplane.rs and       *)
(* models.rs): tables that a control plane fills, and frames that are      *)
(* routed, translated for services and tracked per connection.             *)
(*                                                                         *)
(* Every call holds the lock of the tables for as long as it uses them.  A *)
(* frame is decided on under that lock and sent after it is released, so   *)
(* frames of several tasks and changes of the tables come in between.      *)
(*                                                                         *)
(* An address is a number of AddrBits bits, where the code has IPv4's 32;  *)
(* of a frame the model keeps what decide reads and writes.  A table is a  *)
(* partial function; nodes, identities and policies, which no decision     *)
(* reads, are sets of ids.                                                 *)
(***************************************************************************)
EXTENDS Packet, FiniteSets

CONSTANTS
    Hash(_),         \* the hash of a flow tuple (DefaultHasher, fixed keys)
    LocalNode,       \* the node this data plane runs on
    NodeIds, IdentityIds, PolicyIds,
    Interfaces,      \* interface records
    Endpoints,       \* endpoint records
    Routes,          \* route records
    Tunnels,         \* tunnel records
    Services,        \* service records
    Frames,          \* the frames that arrive
    Tasks,           \* concurrent calls of handle_frame
    MaxCalls,        \* bound: calls that change a table
    MaxFrames        \* bound: frames handled

Addresses == 0 .. 2 ^ AddrBits - 1
Protocols == {"tcp", "udp", "icmp"}      \* ip_proto_from_byte knows these
NoMac == "none"
NoPort == -1

(* The records of models.rs, with the fields that decide reads: node, kind  *)
(* and MTU of an interface, identity and location of an endpoint are only   *)
(* stored.                                                                  *)
IsInterface(i) == DOMAIN i = {"id", "mac"}
IsEndpoint(e) == DOMAIN e = {"id", "addresses"} /\ e.addresses \subseteq Addresses
IsRoute(r) ==
    /\ r.destination \in [addr : Addresses, len : 0 .. AddrBits]
    /\ r.next_hop.kind \in {"local", "remote", "gateway", "blackhole"}
    /\ r.weight \in Nat
IsTunnel(u) == DOMAIN u = {"local", "remote", "remote_address", "vni"}
IsService(s) ==
    /\ s.frontend \in [address : Addresses, port : Nat, protocol : Protocols]
    /\ \A i \in DOMAIN s.backends :
          LET b == s.backends[i]
          IN  /\ b.port \in Nat
              /\ \/ b.nat.kind \in {"source", "masquerade"}
                 \/ b.nat \in [kind : {"destination"}, address : Addresses,
                               port : Nat \cup {NoPort}]

ASSUME SoftDataplaneAssumption ==
    /\ \A i \in Interfaces : IsInterface(i)
    /\ \A e \in Endpoints : IsEndpoint(e)
    /\ \A r \in Routes : IsRoute(r)
    /\ \A u \in Tunnels : IsTunnel(u)
    /\ \A s \in Services : IsService(s)
    /\ MaxCalls \in Nat
    /\ MaxFrames \in Nat

VARIABLES
    nodes, identities, policies,   \* ids
    interfaces,    \* interface id -> MAC address or NoMac
    endpoints,     \* endpoint id -> set of addresses
    routes,        \* network -> sequence of routes, one per next hop
    tunnels,       \* <<local node, remote node>> -> tunnel
    services,      \* frontend -> sequence of backends
    conntrack,     \* flow tuple -> entry
    replyIndex,    \* reply tuple -> flow tuple
    io,            \* interface ids with a raw interface attached
    task,          \* per task: the decision it has yet to carry out
    wire,          \* frames sent: <<interface id, frame>>
    calls, handled \* counts against MaxCalls and MaxFrames

idVars == <<nodes, identities, policies>>
tableVars == <<interfaces, endpoints, routes, tunnels, services>>
flowVars == <<conntrack, replyIndex>>
frameVars == <<task, wire, handled>>

vars == <<idVars, tableVars, flowVars, io, frameVars, calls>>

Idle == [kind |-> "idle"]
Drop == [kind |-> "drop"]

Init ==
    /\ nodes = {} /\ identities = {} /\ policies = {}
    /\ interfaces = <<>> /\ endpoints = <<>> /\ routes = <<>>
    /\ tunnels = <<>> /\ services = <<>>
    /\ conntrack = <<>> /\ replyIndex = <<>>
    /\ io = {}
    /\ task = [t \in Tasks |-> Idle]
    /\ wire = {}
    /\ calls = 0 /\ handled = 0

(* HashMap::insert and HashMap::remove. *)
Insert(table, key, value) ==
    [k \in DOMAIN table \cup {key} |-> IF k = key THEN value ELSE table[k]]
RemoveAll(table, keys) == [k \in DOMAIN table \ keys |-> table[k]]

-----------------------------------------------------------------------------
(* The tables.  Each call is one critical section. *)

Call == calls < MaxCalls /\ calls' = calls + 1

AddNode(id) ==
    /\ Call /\ nodes' = nodes \cup {id}
    /\ UNCHANGED <<identities, policies, tableVars, flowVars, io, frameVars>>
RemoveNode(id) ==
    /\ Call /\ nodes' = nodes \ {id}
    /\ UNCHANGED <<identities, policies, tableVars, flowVars, io, frameVars>>

AddIdentity(id) ==
    /\ Call /\ identities' = identities \cup {id}
    /\ UNCHANGED <<nodes, policies, tableVars, flowVars, io, frameVars>>
RemoveIdentity(id) ==
    /\ Call /\ identities' = identities \ {id}
    /\ UNCHANGED <<nodes, policies, tableVars, flowVars, io, frameVars>>

AddPolicy(id) ==
    /\ Call /\ policies' = policies \cup {id}
    /\ UNCHANGED <<nodes, identities, tableVars, flowVars, io, frameVars>>
RemovePolicy(id) ==
    /\ Call /\ policies' = policies \ {id}
    /\ UNCHANGED <<nodes, identities, tableVars, flowVars, io, frameVars>>

AddInterface(i) ==
    /\ Call /\ interfaces' = Insert(interfaces, i.id, i.mac)
    /\ UNCHANGED <<idVars, endpoints, routes, tunnels, services, flowVars, io, frameVars>>
RemoveInterface(id) ==
    /\ Call /\ interfaces' = RemoveAll(interfaces, {id})
    /\ UNCHANGED <<idVars, endpoints, routes, tunnels, services, flowVars, io, frameVars>>

AddEndpoint(e) ==
    /\ Call /\ endpoints' = Insert(endpoints, e.id, e.addresses)
    /\ UNCHANGED <<idVars, interfaces, routes, tunnels, services, flowVars, io, frameVars>>
RemoveEndpoint(id) ==
    /\ Call /\ endpoints' = RemoveAll(endpoints, {id})
    /\ UNCHANGED <<idVars, interfaces, routes, tunnels, services, flowVars, io, frameVars>>

AddTunnel(u) ==
    /\ Call /\ tunnels' = Insert(tunnels, <<u.local, u.remote>>, u)
    /\ UNCHANGED <<idVars, interfaces, endpoints, routes, services, flowVars, io, frameVars>>
RemoveTunnel(local, remote) ==
    /\ Call /\ tunnels' = RemoveAll(tunnels, {<<local, remote>>})
    /\ UNCHANGED <<idVars, interfaces, endpoints, routes, services, flowVars, io, frameVars>>

AddService(s) ==
    /\ Call /\ services' = Insert(services, s.frontend, s.backends)
    /\ UNCHANGED <<idVars, interfaces, endpoints, routes, tunnels, flowVars, io, frameVars>>
RemoveService(frontend) ==
    /\ Call /\ services' = RemoveAll(services, {frontend})
    /\ UNCHANGED <<idVars, interfaces, endpoints, routes, tunnels, flowVars, io, frameVars>>

Group(net) == IF net \in DOMAIN routes THEN routes[net] ELSE <<>>

(* Faulty variant: a route is always appended. *)
AddRouteAppends(r) ==
    /\ Call /\ routes' = Insert(routes, r.destination, Append(Group(r.destination), r))
    /\ UNCHANGED <<idVars, interfaces, endpoints, tunnels, services, flowVars, io, frameVars>>

(* A route replaces the one of its group with the same next hop. *)
AddRoute(r) ==
    LET group == Group(r.destination)
        same  == {i \in DOMAIN group : group[i].next_hop = r.next_hop}
    IN  /\ Call
        /\ routes' = Insert(routes, r.destination,
                       IF same = {} THEN Append(group, r)
                       ELSE [i \in DOMAIN group |-> IF i \in same THEN r ELSE group[i]])
        /\ UNCHANGED <<idVars, interfaces, endpoints, tunnels, services, flowVars, io,
                       frameVars>>

(* Vec::retain: the routes of a group with another next hop, in order. *)
Retain(group, hop) ==
    LET kept[i \in 0 .. Len(group)] ==
          IF i = 0 THEN <<>>
          ELSE IF group[i].next_hop # hop THEN Append(kept[i - 1], group[i])
          ELSE kept[i - 1]
    IN  kept[Len(group)]

(* A group that becomes empty is removed. *)
RemoveRoute(net, hop) ==
    LET rest == Retain(Group(net), hop)
    IN  /\ Call
        /\ routes' = IF rest = <<>> THEN RemoveAll(routes, {net}) ELSE Insert(routes, net, rest)
        /\ UNCHANGED <<idVars, interfaces, endpoints, tunnels, services, flowVars, io,
                       frameVars>>

AttachInterface(id) ==
    /\ Call /\ io' = io \cup {id}
    /\ UNCHANGED <<idVars, tableVars, flowVars, frameVars>>

(* The flows that an address of the endpoint takes part in are forgotten. *)
FlushConntrack(id) ==
    LET addrs == endpoints[id]
        stale == {k \in DOMAIN conntrack :
                    {conntrack[k].original.src, conntrack[k].reply.src} \cap addrs # {}}
    IN  /\ Call /\ id \in DOMAIN endpoints
        /\ conntrack' = RemoveAll(conntrack, stale)
        /\ replyIndex' = RemoveAll(replyIndex, {conntrack[k].reply : k \in stale})
        /\ UNCHANGED <<idVars, tableVars, io, frameVars>>

-----------------------------------------------------------------------------
(* Routing. *)

(* lookup_route: the groups of the longest prefix.  Networks that differ    *)
(* only in host bits are different keys; the order of a hash map decides    *)
(* between them.                                                            *)
LongestMatch(a) ==
    LET nets == {n \in DOMAIN routes : NetContains(n, a)}
    IN  {n \in nets : \A m \in nets : m.len <= n.len}

HasPorts(f) == f.proto \in {"tcp", "udp"}

(* The tuple of a frame; without ports they are 0. *)
Tuple(f) ==
    [src |-> f.src, src_port |-> IF HasPorts(f) THEN f.src_port ELSE 0,
     dst |-> f.dst, dst_port |-> IF HasPorts(f) THEN f.dst_port ELSE 0,
     protocol |-> f.proto]

(* forward: the decisions that the routes allow for a frame. *)
Forward(f) ==
    LET nets  == LongestMatch(f.dst)
        via(net) ==
          LET hop == SelectRoute(routes[net], Hash(Tuple(f))).next_hop
              mac == IF hop.kind = "local" /\ hop.to \in DOMAIN interfaces
                        /\ interfaces[hop.to] # NoMac
                     THEN interfaces[hop.to] ELSE f.mac
              pair == <<LocalNode, hop.to>>
          IN  CASE hop.kind = "local" ->
                     [kind |-> "deliver", to |-> hop.to, frame |-> [f EXCEPT !.mac = mac]]
                [] hop.kind = "remote" /\ pair \in DOMAIN tunnels ->
                     [kind |-> "encapsulate", to |-> tunnels[pair].remote_address,
                      vni |-> tunnels[pair].vni, frame |-> f]
                [] OTHER -> Drop
    IN  IF nets = {} THEN {Drop} ELSE {via(net) : net \in nets}

-----------------------------------------------------------------------------
(* Translation. *)

(* rewrite_ipv4 of the source or of the destination; ports only of TCP and  *)
(* UDP.  The checksums are computed anew.                                   *)
RewriteSrc(f, addr, port) ==
    [f EXCEPT !.src = addr, !.src_port = IF HasPorts(f) THEN port ELSE @]
RewriteDst(f, addr, port) ==
    [f EXCEPT !.dst = addr, !.dst_port = IF HasPorts(f) THEN port ELSE @]

(* select_backend: by the hash alone, whatever the flow used before. *)
SelectBackend(backends, w) == backends[(Hash(w) % Len(backends)) + 1]

Frontend(w) == [address |-> w.dst, port |-> w.dst_port, protocol |-> w.protocol]

BackendPort(b) == IF b.nat.port = NoPort THEN b.port ELSE b.nat.port

(* Faulty variant: the reply's destination is the frontend. *)
ReplyToFrontend(w, b) ==
    [src |-> b.nat.address, src_port |-> BackendPort(b),
     dst |-> w.dst, dst_port |-> w.dst_port, protocol |-> w.protocol]

(* The tuple of the answers of a backend. *)
Reply(w, b) ==
    [src |-> b.nat.address, src_port |-> BackendPort(b),
     dst |-> w.src, dst_port |-> w.src_port, protocol |-> w.protocol]

(* A flow that has been translated once; last_seen, which nothing reads, is *)
(* left out, and "closing" and "closed" are never entered.                  *)
Tracked(w, b) == [original |-> w, reply |-> Reply(w, b), state |-> "new"]

Decided(t, decision) ==
    /\ handled < MaxFrames
    /\ task[t] = Idle
    /\ handled' = handled + 1
    /\ task' = [task EXCEPT ![t] = decision]
    /\ UNCHANGED <<idVars, tableVars, io, wire, calls>>

(* A frame that is not IPv4, or of a protocol that is not known. *)
DropUnknown(t, f) ==
    /\ f.proto \notin Protocols
    /\ Decided(t, Drop)
    /\ UNCHANGED flowVars

(* Return traffic of a flow that was translated: its source becomes the     *)
(* frontend again.  If the entry is gone the frame is forwarded as it is.   *)
TranslateReply(t, f) ==
    LET w        == Tuple(f)
        original == replyIndex[w]
        known    == original \in DOMAIN conntrack
    IN  /\ f.proto \in Protocols /\ w \in DOMAIN replyIndex
        /\ conntrack' = IF known
                        THEN [conntrack EXCEPT ![original].state =
                                IF @ = "new" THEN "established" ELSE @]
                        ELSE conntrack
        /\ \E d \in Forward(IF known THEN RewriteSrc(f, original.dst, original.dst_port)
                            ELSE f) : Decided(t, d)
        /\ UNCHANGED replyIndex

(* Traffic to a service: a backend is selected and the flow is tracked,     *)
(* over whatever was tracked for it before.                                 *)
TranslateService(t, f) ==
    LET w        == Tuple(f)
        backends == services[Frontend(w)]
        b        == SelectBackend(backends, w)
    IN  /\ f.proto \in Protocols /\ w \notin DOMAIN replyIndex
        /\ Frontend(w) \in DOMAIN services
        /\ IF backends = <<>> \/ b.nat.kind # "destination"
           THEN Decided(t, Drop) /\ UNCHANGED flowVars
           ELSE /\ conntrack' = Insert(conntrack, w, Tracked(w, b))
                /\ replyIndex' = Insert(replyIndex, Reply(w, b), w)
                /\ \E d \in Forward(RewriteDst(f, b.nat.address, BackendPort(b))) :
                       Decided(t, d)

ForwardOnly(t, f) ==
    LET w == Tuple(f)
    IN  /\ f.proto \in Protocols /\ w \notin DOMAIN replyIndex
        /\ Frontend(w) \notin DOMAIN services
        /\ \E d \in Forward(f) : Decided(t, d)
        /\ UNCHANGED flowVars

(* The rest of handle_frame: a frame is sent if its interface is attached;  *)
(* nothing ever sets the socket that an encapsulated frame would need.      *)
Dispatch(t) ==
    /\ task[t] # Idle
    /\ wire' = IF task[t].kind = "deliver" /\ task[t].to \in io
               THEN wire \cup {<<task[t].to, task[t].frame>>} ELSE wire
    /\ task' = [task EXCEPT ![t] = Idle]
    /\ UNCHANGED <<idVars, tableVars, flowVars, io, handled, calls>>

-----------------------------------------------------------------------------
NextHops == {r.next_hop : r \in Routes}
Networks == {r.destination : r \in Routes}

Next ==
    \/ \E id \in NodeIds : AddNode(id) \/ RemoveNode(id)
    \/ \E id \in IdentityIds : AddIdentity(id) \/ RemoveIdentity(id)
    \/ \E id \in PolicyIds : AddPolicy(id) \/ RemovePolicy(id)
    \/ \E i \in Interfaces : AddInterface(i) \/ RemoveInterface(i.id) \/ AttachInterface(i.id)
    \/ \E e \in Endpoints : AddEndpoint(e) \/ RemoveEndpoint(e.id) \/ FlushConntrack(e.id)
    \/ \E r \in Routes : AddRoute(r)
    \/ \E net \in Networks, hop \in NextHops : RemoveRoute(net, hop)
    \/ \E u \in Tunnels : AddTunnel(u) \/ RemoveTunnel(u.local, u.remote)
    \/ \E s \in Services : AddService(s) \/ RemoveService(s.frontend)
    \/ \E t \in Tasks, f \in Frames :
          DropUnknown(t, f) \/ TranslateReply(t, f) \/ TranslateService(t, f) \/ ForwardOnly(t, f)
    \/ \E t \in Tasks : Dispatch(t)

Spec == Init /\ [][Next]_vars

-----------------------------------------------------------------------------
(* Whatever is tracked, retracked with another backend or flushed, in any   *)
(* order: an answer to a tracked flow is found in the index, and what the   *)
(* index leads to was sent by the client the answer is addressed to, so an  *)
(* answer is translated for no other client (decide, flush_conntrack).      *)
AnswersAreFound ==
    /\ \A k \in DOMAIN conntrack :
          conntrack[k].original = k /\ conntrack[k].reply \in DOMAIN replyIndex
    /\ \A r \in DOMAIN replyIndex :
          LET k == replyIndex[r]
          IN  <<k.src, k.src_port, k.protocol>> = <<r.dst, r.dst_port, r.protocol>>

(* Routes are "keyed by (destination, next_hop)" (models.rs): a group is    *)
(* not empty, is for its own network and has one route per next hop, so     *)
(* that a removal leaves nothing behind (add_route, remove_route).          *)
RoutesAreKeyed ==
    \A net \in DOMAIN routes :
        LET group == routes[net]
        IN  /\ group # <<>>
            /\ \A i \in DOMAIN group : group[i].destination = net
            /\ \A i, j \in DOMAIN group : group[i].next_hop = group[j].next_hop => i = j
=============================================================================
