------------------------ MODULE SoftDataplaneProofs ------------------------
(***************************************************************************)
(* That answers are found and routes are keyed, whatever the tables, the   *)
(* frames, the hash and the tasks are, and that flows are spread over the  *)
(* routes by their weights.                                                *)
(***************************************************************************)
EXTENDS SoftDataplane, PacketProofs

(* An entry has its own key and is addressed, in its reply, to the client.  *)
(* The second half makes a flush consistent: entries with one reply have    *)
(* one client, so that they are stale together and the index entry that is  *)
(* dropped with one of them was of no other.                                *)
EntryInv ==
    \A k \in DOMAIN conntrack :
        LET e == conntrack[k]
        IN  /\ e = [original |-> k, reply |-> e.reply, state |-> e.state]
            /\ e.reply.dst = k.src

FlowInv ==
    /\ conntrack = [k \in DOMAIN conntrack |-> conntrack[k]]
    /\ EntryInv
    /\ AnswersAreFound

(* A group holds routes that were added. *)
RouteInv ==
    /\ \A net \in DOMAIN routes : routes[net] \in Seq(Routes)
    /\ RoutesAreKeyed

-----------------------------------------------------------------------------
(* FlowInv. *)

LEMMA FlushKeepsFlows ==
    ASSUME FlowInv, NEW id, FlushConntrack(id)
    PROVE  FlowInv'
<1> DEFINE addrs == endpoints[id]
           stale == {k \in DOMAIN conntrack :
                       {conntrack[k].original.src, conntrack[k].reply.src} \cap addrs # {}}
           gone == {conntrack[k].reply : k \in stale}
<1>1. conntrack' = RemoveAll(conntrack, stale) /\ replyIndex' = RemoveAll(replyIndex, gone)
  BY DEF FlushConntrack
<1>2. ASSUME NEW k \in DOMAIN conntrack \ stale PROVE conntrack[k].reply \notin gone
  <2> SUFFICES ASSUME NEW s \in stale, conntrack[k].reply = conntrack[s].reply PROVE FALSE
    OBVIOUS
  <2>1. /\ conntrack[k].original = k /\ conntrack[k].reply.dst = k.src
        /\ conntrack[s].original = s /\ conntrack[s].reply.dst = s.src
    BY DEF FlowInv, EntryInv, AnswersAreFound
  <2> QED
    BY <2>1
<1> HIDE DEF stale, gone
<1>3. /\ DOMAIN conntrack' = DOMAIN conntrack \ stale
      /\ \A k \in DOMAIN conntrack' : conntrack'[k] = conntrack[k]
      /\ conntrack' = [k \in DOMAIN conntrack' |-> conntrack'[k]]
  BY <1>1 DEF RemoveAll
<1>4. /\ DOMAIN replyIndex' = DOMAIN replyIndex \ gone
      /\ \A r \in DOMAIN replyIndex' : replyIndex'[r] = replyIndex[r]
  BY <1>1 DEF RemoveAll
<1>5. EntryInv'
  BY <1>3 DEF FlowInv, EntryInv
<1>6. AnswersAreFound'
  BY <1>2, <1>3, <1>4 DEF FlowInv, AnswersAreFound
<1> QED
  BY <1>3, <1>5, <1>6 DEF FlowInv

LEMMA ReplyKeepsFlows ==
    ASSUME FlowInv, NEW t, NEW f, TranslateReply(t, f)
    PROVE  FlowInv'
<1> DEFINE o == replyIndex[Tuple(f)]
           e == conntrack[o]
           s == IF e.state = "new" THEN "established" ELSE e.state
<1>1. replyIndex' = replyIndex
  BY DEF TranslateReply
<1>2. CASE o \notin DOMAIN conntrack
  <2>1. conntrack' = conntrack
    BY <1>2 DEF TranslateReply
  <2> QED
    BY <1>1, <2>1 DEF FlowInv, EntryInv, AnswersAreFound
<1>3. CASE o \in DOMAIN conntrack
  <2>1. conntrack' = [conntrack EXCEPT ![o] = [e EXCEPT !.state = s]]
    BY <1>3 DEF TranslateReply
  <2>2. e = [original |-> o, reply |-> e.reply, state |-> e.state]
    BY <1>3 DEF FlowInv, EntryInv
  <2> HIDE DEF o, e, s
  <2>3. [e EXCEPT !.state = s] = [original |-> o, reply |-> e.reply, state |-> s]
    BY <2>2
  <2>4. /\ DOMAIN conntrack' = DOMAIN conntrack
        /\ conntrack'[o] = [original |-> o, reply |-> e.reply, state |-> s]
        /\ \A k \in DOMAIN conntrack : k # o => conntrack'[k] = conntrack[k]
        /\ conntrack' = [k \in DOMAIN conntrack' |-> conntrack'[k]]
    BY <1>3, <2>1, <2>3 DEF FlowInv
  <2>5. /\ conntrack'[o].original = o /\ conntrack'[o].reply = e.reply
        /\ conntrack'[o] = [original |-> o, reply |-> conntrack'[o].reply,
                            state |-> conntrack'[o].state]
    BY <2>4
  <2>6. e = conntrack[o]
    BY DEF e
  <2>7. EntryInv'
    BY <1>3, <2>4, <2>5, <2>6 DEF FlowInv, EntryInv
  <2>8. AnswersAreFound'
    BY <1>1, <1>3, <2>4, <2>5, <2>6 DEF FlowInv, AnswersAreFound
  <2> QED
    BY <2>4, <2>7, <2>8 DEF FlowInv
<1> QED
  BY <1>2, <1>3

LEMMA ServiceKeepsFlows ==
    ASSUME FlowInv, NEW t, NEW f, TranslateService(t, f)
    PROVE  FlowInv'
<1> DEFINE w == Tuple(f)
           b == SelectBackend(services[Frontend(w)], w)
<1>1. CASE UNCHANGED flowVars
  BY <1>1 DEF flowVars, FlowInv, EntryInv, AnswersAreFound
<1>2. CASE /\ conntrack' = Insert(conntrack, w, Tracked(w, b))
           /\ replyIndex' = Insert(replyIndex, Reply(w, b), w)
  <2> HIDE DEF w, b
  <2> DEFINE e == Tracked(w, b)
             r == Reply(w, b)
  <2>1. /\ e = [original |-> w, reply |-> r, state |-> "new"]
        /\ e.original = w /\ e.reply = r
        /\ r.dst = w.src /\ r.dst_port = w.src_port /\ r.protocol = w.protocol
    BY DEF Tracked, Reply
  <2> HIDE DEF e, r
  <2>2. /\ DOMAIN conntrack' = DOMAIN conntrack \cup {w}
        /\ conntrack'[w] = e
        /\ \A k \in DOMAIN conntrack : k # w => conntrack'[k] = conntrack[k]
        /\ conntrack' = [k \in DOMAIN conntrack' |-> conntrack'[k]]
    BY <1>2 DEF Insert, e
  <2>3. /\ DOMAIN replyIndex' = DOMAIN replyIndex \cup {r}
        /\ replyIndex'[r] = w
        /\ \A x \in DOMAIN replyIndex : x # r => replyIndex'[x] = replyIndex[x]
    BY <1>2 DEF Insert, r
  <2>4. e = [original |-> w, reply |-> e.reply, state |-> e.state]
    BY <2>1
  <2>5. EntryInv'
    BY <2>1, <2>2, <2>4 DEF FlowInv, EntryInv
  <2>6. AnswersAreFound'
    BY <2>1, <2>2, <2>3 DEF FlowInv, AnswersAreFound
  <2> QED
    BY <2>2, <2>5, <2>6 DEF FlowInv
<1> QED
  BY <1>1, <1>2 DEF TranslateService

-----------------------------------------------------------------------------
(* RouteInv. *)

(* A group has one route per next hop. *)
OneRoutePerHop(group) ==
    \A i, j \in 1 .. Len(group) : group[i].next_hop = group[j].next_hop => i = j

(* What retain leaves was there before, and no next hop comes twice. *)
LEMMA RetainIs ==
    ASSUME NEW R, NEW group \in Seq(R), OneRoutePerHop(group), NEW hop
    PROVE  /\ Retain(group, hop) \in Seq(R)
           /\ \A a \in 1 .. Len(Retain(group, hop)) :
                 \E p \in 1 .. Len(group) : Retain(group, hop)[a] = group[p]
           /\ OneRoutePerHop(Retain(group, hop))
<1> DEFINE n == Len(group)
           V == Seq(R)
           Kept(x, i) == IF group[i].next_hop # hop THEN Append(x, group[i]) ELSE x
           step == [i \in 1 .. n |-> [x \in V |-> Kept(x, i)]]
           Eqn(f) == f = [i \in 0 .. n |-> IF i = 0 THEN <<>> ELSE Kept(f[i - 1], i)]
           kept == CHOOSE f : Eqn(f)
<1>1. n \in Nat /\ \A i \in 1 .. n : group[i] \in R
  OBVIOUS
<1>2. \A x \in V, i \in 1 .. n : Kept(x, i) \in V
  BY <1>1
<1>3. <<>> \in V
  OBVIOUS
<1>4. step \in [1 .. n -> [V -> V]]
  <2> HIDE DEF Kept, V
  <2> QED
    BY <1>2
<1>5. PICK f \in [0 .. n -> V] : Runs(f, <<>>, step, n)
  <2> HIDE DEF n, V, step
  <2> QED
    BY <1>1, <1>3, <1>4, Recursion, Zenon
<1>6. ASSUME NEW i \in 1 .. n PROVE f[i] = Kept(f[i - 1], i)
  <2>1. step[i] = [x \in V |-> Kept(x, i)]
    BY Zenon
  <2>2. f[i - 1] \in V
    BY <1>1
  <2>3. step[i][f[i - 1]] = Kept(f[i - 1], i)
    BY <2>1, <2>2, Zenon
  <2> QED
    BY <1>5, <2>3, Zenon DEF Runs
<1>7. Eqn(f)
  <2>1. f[0] = <<>> /\ f = [i \in 0 .. n |-> f[i]]
    BY <1>5 DEF Runs
  <2> HIDE DEF Kept
  <2>2. ASSUME NEW i \in 0 .. n PROVE f[i] = IF i = 0 THEN <<>> ELSE Kept(f[i - 1], i)
    <3>1. CASE i = 0
      BY <2>1, <3>1
    <3>2. CASE i # 0
      <4>1. i \in 1 .. n
        BY <1>1, <3>2
      <4> QED
        BY <1>6, <3>2, <4>1, Zenon
    <3> QED
      BY <3>1, <3>2
  <2> HIDE DEF n
  <2> QED
    BY <2>1, <2>2
<1>8. Eqn(kept)
  BY <1>7, Zenon
<1>9. Retain(group, hop) = kept[n]
  BY DEF Retain
<1> HIDE DEF kept
<1>10. kept[0] = <<>> /\ \A i \in 1 .. n : kept[i] = Kept(kept[i - 1], i)
  <2> HIDE DEF Kept
  <2>1. \A i \in 0 .. n : kept[i] = IF i = 0 THEN <<>> ELSE Kept(kept[i - 1], i)
    BY <1>8, Zenon
  <2> QED
    BY <1>1, <2>1
<1> DEFINE Good(x, i) ==
             /\ x \in V
             /\ \A a \in 1 .. Len(x) : \E p \in 1 .. i : x[a] = group[p]
             /\ OneRoutePerHop(x)
           S == {i \in Nat : i <= n => Good(kept[i], i)}
<1>11. 0 \in S
  <2>1. Len(<<>>) = 0 /\ <<>> \in V
    OBVIOUS
  <2>2. Good(<<>>, 0)
    BY <2>1 DEF OneRoutePerHop
  <2> HIDE DEF Good
  <2> QED
    BY <1>10, <2>2
<1>12. ASSUME NEW i \in Nat, i \in S PROVE i + 1 \in S
  <2> SUFFICES ASSUME i + 1 <= n PROVE Good(kept[i + 1], i + 1)
    OBVIOUS
  <2> DEFINE x == kept[i]
             y == kept[i + 1]
             r == group[i + 1]
  <2>1. Good(x, i)
    BY <1>1, <1>12
  <2>2. y = Kept(x, i + 1)
    BY <1>1, <1>10
  <2>3. i + 1 \in 1 .. n /\ r \in R
    BY <1>1
  <2>4. \A p \in 1 .. i : group[p].next_hop # r.next_hop
    BY <2>3 DEF OneRoutePerHop
  <2> HIDE DEF x, y, r
  <2>5. CASE y = x
    BY <2>1, <2>5 DEF y
  <2>6. CASE y = Append(x, r)
    <3>1. /\ Len(x) \in Nat /\ y \in V /\ Len(y) = Len(x) + 1
          /\ y[Len(x) + 1] = r
          /\ \A a \in 1 .. Len(x) : y[a] = x[a]
      BY <2>1, <2>3, <2>6
    <3>2. \A a \in 1 .. Len(x) : \E p \in 1 .. i : y[a] = group[p]
      BY <2>1, <3>1
    <3>3. \A a \in 1 .. Len(y) : \E p \in 1 .. i + 1 : y[a] = group[p]
      <4>1. ASSUME NEW a \in 1 .. Len(y) PROVE \E p \in 1 .. i + 1 : y[a] = group[p]
        <5>1. CASE a = Len(x) + 1
          BY <3>1, <5>1 DEF r
        <5>2. CASE a \in 1 .. Len(x)
          BY <3>2, <5>2
        <5> QED
          BY <3>1, <5>1, <5>2
      <4> QED
        BY <4>1
    <3>4. \A a \in 1 .. Len(x) : y[a].next_hop # r.next_hop
      BY <2>4, <3>2
    <3>5. OneRoutePerHop(y)
      <4> SUFFICES ASSUME NEW a \in 1 .. Len(y), NEW c \in 1 .. Len(y),
                          y[a].next_hop = y[c].next_hop
                   PROVE  a = c
        BY DEF OneRoutePerHop
      <4>1. CASE a \in 1 .. Len(x) /\ c \in 1 .. Len(x)
        BY <2>1, <3>1, <4>1 DEF OneRoutePerHop
      <4>2. CASE ~(a \in 1 .. Len(x) /\ c \in 1 .. Len(x))
        BY <3>1, <3>4, <4>2
      <4> QED
        BY <4>1, <4>2
    <3> QED
      BY <3>1, <3>3, <3>5 DEF y
  <2> QED
    BY <2>2, <2>5, <2>6 DEF r
<1> HIDE DEF S, Good
<1>13. Nat \subseteq S
  BY <1>11, <1>12, Counting
<1>14. Good(kept[n], n)
  BY <1>1, <1>13 DEF S
<1> QED
  BY <1>9, <1>14 DEF Good

LEMMA AddKeepsRoutes ==
    ASSUME RouteInv, NEW r \in Routes, AddRoute(r)
    PROVE  RouteInv'
<1> DEFINE net == r.destination
           group == Group(net)
           same == {i \in DOMAIN group : group[i].next_hop = r.next_hop}
           new == IF same = {} THEN Append(group, r)
                  ELSE [i \in DOMAIN group |-> IF i \in same THEN r ELSE group[i]]
<1>1. routes' = Insert(routes, net, new)
  BY DEF AddRoute
<1>2. /\ group \in Seq(Routes)
      /\ \A i \in DOMAIN group : group[i].destination = net
      /\ \A i, j \in DOMAIN group : group[i].next_hop = group[j].next_hop => i = j
  BY DEF Group, RouteInv, RoutesAreKeyed
<1>3. /\ new \in Seq(Routes) /\ new # <<>>
      /\ \A i \in DOMAIN new : new[i].destination = net
      /\ \A i, j \in DOMAIN new : new[i].next_hop = new[j].next_hop => i = j
  <2> HIDE DEF group
  <2>1. CASE same = {}
    <3>1. new = Append(group, r)
      BY <2>1
    <3>2. /\ Len(group) \in Nat /\ DOMAIN group = 1 .. Len(group)
          /\ new \in Seq(Routes) /\ new # <<>> /\ DOMAIN new = 1 .. Len(group) + 1
          /\ new[Len(group) + 1] = r
          /\ \A i \in 1 .. Len(group) : new[i] = group[i]
      <4> HIDE DEF new
      <4> QED
        BY <1>2, <3>1
    <3>3. \A i \in DOMAIN group : group[i].next_hop # r.next_hop
      BY <2>1
    <3> HIDE DEF new, same
    <3> QED
      BY <1>2, <3>2, <3>3
  <2>2. CASE same # {}
    <3>1. new = [i \in DOMAIN group |-> IF i \in same THEN r ELSE group[i]]
      BY <2>2
    <3>2. Len(group) \in Nat /\ DOMAIN group = 1 .. Len(group)
      BY <1>2
    <3> HIDE DEF new
    <3>3. /\ DOMAIN new = DOMAIN group
          /\ \A i \in DOMAIN group : /\ new[i].next_hop = group[i].next_hop
                                     /\ new[i].destination = net
                                     /\ new[i] \in Routes
      BY <1>2, <3>1, <3>2
    <3>4. new \in Seq(Routes) /\ new # <<>>
      BY <2>2, <3>1, <3>2, <3>3
    <3> QED
      BY <1>2, <3>3, <3>4
  <2> QED
    BY <2>1, <2>2
<1> HIDE DEF new, group, net
<1>4. /\ DOMAIN routes' = DOMAIN routes \cup {net}
      /\ routes'[net] = new
      /\ \A k \in DOMAIN routes : k # net => routes'[k] = routes[k]
  BY <1>1 DEF Insert
<1> QED
  BY <1>3, <1>4 DEF RouteInv, RoutesAreKeyed

LEMMA RemoveKeepsRoutes ==
    ASSUME RouteInv, NEW net, NEW hop, RemoveRoute(net, hop)
    PROVE  RouteInv'
<1> DEFINE group == Group(net)
           rest == Retain(group, hop)
<1>1. /\ rest = <<>> => routes' = RemoveAll(routes, {net})
      /\ rest # <<>> => routes' = Insert(routes, net, rest)
  BY DEF RemoveRoute
<1>2. /\ group \in Seq(Routes) /\ DOMAIN group = 1 .. Len(group)
      /\ \A i \in DOMAIN group : group[i].destination = net
      /\ \A i, j \in DOMAIN group : group[i].next_hop = group[j].next_hop => i = j
  BY DEF Group, RouteInv, RoutesAreKeyed
<1> HIDE DEF group
<1>3. /\ rest \in Seq(Routes)
      /\ \A a \in 1 .. Len(rest) : \E p \in 1 .. Len(group) : rest[a] = group[p]
      /\ OneRoutePerHop(rest)
  <2>1. OneRoutePerHop(group)
    BY <1>2 DEF OneRoutePerHop
  <2> QED
    BY <1>2, <2>1, RetainIs
<1> HIDE DEF rest
<1>4. DOMAIN rest = 1 .. Len(rest)
  BY <1>3
<1>5. CASE rest = <<>>
  <2>1. DOMAIN routes' \subseteq DOMAIN routes /\ \A k \in DOMAIN routes' : routes'[k] = routes[k]
    BY <1>1, <1>5 DEF RemoveAll
  <2> QED
    BY <2>1 DEF RouteInv, RoutesAreKeyed
<1>6. CASE rest # <<>>
  <2>1. /\ DOMAIN routes' = DOMAIN routes \cup {net}
        /\ routes'[net] = rest
        /\ \A k \in DOMAIN routes : k # net => routes'[k] = routes[k]
    BY <1>1, <1>6 DEF Insert
  <2>2. ASSUME NEW i \in DOMAIN rest PROVE rest[i].destination = net
    <3>1. PICK p \in DOMAIN group : rest[i] = group[p]
      BY <1>2, <1>3, <1>4
    <3> QED
      BY <1>2, <3>1
  <2>3. \A i, j \in DOMAIN rest : rest[i].next_hop = rest[j].next_hop => i = j
    BY <1>3, <1>4 DEF OneRoutePerHop
  <2> QED
    BY <1>3, <1>6, <2>1, <2>2, <2>3 DEF RouteInv, RoutesAreKeyed
<1> QED
  BY <1>5, <1>6

-----------------------------------------------------------------------------
(* Every step keeps both. *)

LEMMA NextFlows ==
    ASSUME FlowInv, [Next]_vars
    PROVE  FlowInv'
<1>1. CASE UNCHANGED flowVars
  BY <1>1 DEF flowVars, FlowInv, EntryInv, AnswersAreFound
<1>2. CASE \E e \in Endpoints : FlushConntrack(e.id)
  BY <1>2, FlushKeepsFlows
<1>3. CASE \E t \in Tasks, f \in Frames : TranslateReply(t, f) \/ TranslateService(t, f)
  BY <1>3, ReplyKeepsFlows, ServiceKeepsFlows
<1>4. \/ UNCHANGED flowVars
      \/ \E e \in Endpoints : FlushConntrack(e.id)
      \/ \E t \in Tasks, f \in Frames : TranslateReply(t, f) \/ TranslateService(t, f)
  <2> USE DEF flowVars
  <2>1. CASE UNCHANGED vars
    BY <2>1 DEF vars
  <2>2. CASE \/ \E id \in NodeIds : AddNode(id) \/ RemoveNode(id)
             \/ \E id \in IdentityIds : AddIdentity(id) \/ RemoveIdentity(id)
             \/ \E id \in PolicyIds : AddPolicy(id) \/ RemovePolicy(id)
    BY <2>2 DEF AddNode, RemoveNode, AddIdentity, RemoveIdentity, AddPolicy, RemovePolicy
  <2>3. CASE \E i \in Interfaces :
                AddInterface(i) \/ RemoveInterface(i.id) \/ AttachInterface(i.id)
    BY <2>3 DEF AddInterface, RemoveInterface, AttachInterface
  <2>4. CASE \E e \in Endpoints : AddEndpoint(e) \/ RemoveEndpoint(e.id)
    BY <2>4 DEF AddEndpoint, RemoveEndpoint
  <2>5. CASE \/ \E r \in Routes : AddRoute(r)
             \/ \E net \in Networks, hop \in NextHops : RemoveRoute(net, hop)
    BY <2>5 DEF AddRoute, RemoveRoute
  <2>6. CASE \/ \E u \in Tunnels : AddTunnel(u) \/ RemoveTunnel(u.local, u.remote)
             \/ \E s \in Services : AddService(s) \/ RemoveService(s.frontend)
    BY <2>6 DEF AddTunnel, RemoveTunnel, AddService, RemoveService
  <2>7. CASE \E t \in Tasks, f \in Frames : DropUnknown(t, f) \/ ForwardOnly(t, f)
    BY <2>7 DEF DropUnknown, ForwardOnly
  <2>8. CASE \E t \in Tasks : Dispatch(t)
    BY <2>8 DEF Dispatch
  <2> QED
    BY <2>1, <2>2, <2>3, <2>4, <2>5, <2>6, <2>7, <2>8 DEF Next
<1> QED
  BY <1>1, <1>2, <1>3, <1>4

LEMMA NextRoutes ==
    ASSUME RouteInv, [Next]_vars
    PROVE  RouteInv'
<1>1. CASE UNCHANGED routes
  BY <1>1 DEF RouteInv, RoutesAreKeyed
<1>2. CASE \E r \in Routes : AddRoute(r)
  BY <1>2, AddKeepsRoutes
<1>3. CASE \E net \in Networks, hop \in NextHops : RemoveRoute(net, hop)
  BY <1>3, RemoveKeepsRoutes
<1>4. \/ UNCHANGED routes
      \/ \E r \in Routes : AddRoute(r)
      \/ \E net \in Networks, hop \in NextHops : RemoveRoute(net, hop)
  <2> USE DEF tableVars
  <2>1. CASE UNCHANGED vars
    BY <2>1 DEF vars
  <2>2. CASE \/ \E id \in NodeIds : AddNode(id) \/ RemoveNode(id)
             \/ \E id \in IdentityIds : AddIdentity(id) \/ RemoveIdentity(id)
             \/ \E id \in PolicyIds : AddPolicy(id) \/ RemovePolicy(id)
    BY <2>2 DEF AddNode, RemoveNode, AddIdentity, RemoveIdentity, AddPolicy, RemovePolicy
  <2>3. CASE \E i \in Interfaces :
                AddInterface(i) \/ RemoveInterface(i.id) \/ AttachInterface(i.id)
    BY <2>3 DEF AddInterface, RemoveInterface, AttachInterface
  <2>4. CASE \E e \in Endpoints : AddEndpoint(e) \/ RemoveEndpoint(e.id) \/ FlushConntrack(e.id)
    BY <2>4 DEF AddEndpoint, RemoveEndpoint, FlushConntrack
  <2>5. CASE \/ \E u \in Tunnels : AddTunnel(u) \/ RemoveTunnel(u.local, u.remote)
             \/ \E s \in Services : AddService(s) \/ RemoveService(s.frontend)
    BY <2>5 DEF AddTunnel, RemoveTunnel, AddService, RemoveService
  <2>6. CASE \E t \in Tasks, f \in Frames :
                \/ DropUnknown(t, f) \/ TranslateReply(t, f)
                \/ TranslateService(t, f) \/ ForwardOnly(t, f)
    BY <2>6 DEF DropUnknown, TranslateReply, TranslateService, ForwardOnly, Decided
  <2>7. CASE \E t \in Tasks : Dispatch(t)
    BY <2>7 DEF Dispatch
  <2> QED
    BY <2>1, <2>2, <2>3, <2>4, <2>5, <2>6, <2>7 DEF Next
<1> QED
  BY <1>1, <1>2, <1>3, <1>4

-----------------------------------------------------------------------------
(* Whatever flows are tracked, tracked anew with another backend, and       *)
(* flushed, for every set of frames, services and endpoints and every hash: *)
(* an answer to a tracked flow is found, and is translated for no other     *)
(* client (decide, flush_conntrack).                                        *)
THEOREM AnswersFound == Spec => []AnswersAreFound
<1>1. Init => FlowInv
  BY DEF Init, FlowInv, EntryInv, AnswersAreFound
<1>2. FlowInv /\ [Next]_vars => FlowInv'
  BY NextFlows
<1>3. FlowInv => AnswersAreFound
  BY DEF FlowInv
<1> QED
  BY <1>1, <1>2, <1>3, PTL DEF Spec

(* Routes stay keyed by destination and next hop, for every set of routes   *)
(* and in every order of additions and removals (add_route, remove_route).  *)
THEOREM RoutesKeyed == Spec => []RoutesAreKeyed
<1>1. Init => RouteInv
  BY DEF Init, RouteInv, RoutesAreKeyed
<1>2. RouteInv /\ [Next]_vars => RouteInv'
  BY NextRoutes
<1>3. RouteInv => RoutesAreKeyed
  BY DEF RouteInv
<1> QED
  BY <1>1, <1>2, <1>3, PTL DEF Spec

(* Of every group in the table select_route chooses each next hop in        *)
(* proportion to its weight.                                                *)
RoutesAreShared == \A net \in DOMAIN routes : SharesAreWeights(routes[net])

(* That holds at any time: the table never has an empty group, of which no  *)
(* route could be chosen, nor one next hop twice, whose weights would add   *)
(* up (add_route, remove_route, select_route).                              *)
THEOREM RoutesShared == Spec => []RoutesAreShared
<1>1. Init => RouteInv
  BY DEF Init, RouteInv, RoutesAreKeyed
<1>2. RouteInv /\ [Next]_vars => RouteInv'
  BY NextRoutes
<1>3. RouteInv => RoutesAreShared
  <2> SUFFICES ASSUME RouteInv, NEW net \in DOMAIN routes
               PROVE  SharesAreWeights(routes[net])
    BY DEF RoutesAreShared
  <2> DEFINE group == routes[net]
  <2>1. /\ group \in Seq(Routes) /\ group # <<>>
        /\ \A i, j \in DOMAIN group : group[i].next_hop = group[j].next_hop => i = j
    BY DEF RouteInv, RoutesAreKeyed
  <2> HIDE DEF group
  <2>2. /\ Len(group) \in Nat \ {0} /\ DOMAIN group = 1 .. Len(group)
        /\ \A i \in 1 .. Len(group) : group[i] \in Routes
    BY <2>1
  <2>3. \A i \in 1 .. Len(group) : group[i].weight \in Nat
    BY <2>2, SoftDataplaneAssumption DEF SoftDataplaneAssumption, IsRoute
  <2>4. SharesAreWeights(group)
    BY <2>1, <2>2, <2>3, SharesFollowWeights
  <2> QED
    BY <2>4 DEF group
<1> QED
  BY <1>1, <1>2, <1>3, PTL DEF Spec
=============================================================================
