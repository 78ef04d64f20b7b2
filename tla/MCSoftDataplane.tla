--------------------------- MODULE MCSoftDataplane ---------------------------
(* One client, at address 1, two frontends, at 4 and 5, and two backends,   *)
(* at 2 and 3: both frontends can be served by either backend, so that the  *)
(* answers of two flows can have one tuple.                                 *)
EXTENDS SoftDataplane

Net(a, l) == [addr |-> a, len |-> l]
Hop(k, x) == [kind |-> k, to |-> x]

MCHash(w) == w.src + w.dst + w.src_port

MCInterfaces == {[id |-> "eth", mac |-> NoMac], [id |-> "eth", mac |-> "mac"]}
MCEndpoints == {[id |-> 1, addresses |-> {2}], [id |-> 2, addresses |-> {3}]}

RouteTo(net, hop, w) == [destination |-> net, next_hop |-> hop, weight |-> w]
MCRoutes == {RouteTo(Net(0, 0), Hop("local", "eth"), 1),
             RouteTo(Net(0, 0), Hop("local", "eth"), 2),
             RouteTo(Net(0, 0), Hop("blackhole", "none"), 0),
             RouteTo(Net(2, 2), Hop("remote", "n2"), 1),
             RouteTo(Net(3, 2), Hop("local", "eth"), 1)}
FewRoutes == {RouteTo(Net(0, 0), Hop("local", "eth"), 1)}

MCTunnels == {[local |-> "n1", remote |-> "n2", remote_address |-> "node2", vni |-> 7]}

To(a) == [kind |-> "destination", address |-> a, port |-> 80]
ToOwnPort(a) == [kind |-> "destination", address |-> a, port |-> NoPort]
Backend(e, n) == [endpoint |-> e, port |-> 80, nat |-> n]
At(a) == [address |-> a, port |-> 80, protocol |-> "tcp"]
Service(a, bs) == [frontend |-> At(a), backends |-> bs]
FewServices == {Service(4, <<Backend(1, To(2))>>), Service(5, <<Backend(1, To(2))>>),
                Service(5, <<Backend(2, To(3))>>)}
MCServices == FewServices \cup
              {Service(4, <<Backend(1, ToOwnPort(2)), Backend(2, To(3))>>), Service(5, <<>>),
               Service(4, <<Backend(1, [kind |-> "masquerade"])>>)}

Frame(p, s, sp, d, dp) ==
    [proto |-> p, src |-> s, src_port |-> sp, dst |-> d, dst_port |-> dp, mac |-> "from"]
MCFrames == {Frame("tcp", 1, 9, 4, 80), Frame("tcp", 1, 9, 5, 80),
             Frame("tcp", 2, 80, 1, 9), Frame("tcp", 3, 80, 1, 9),
             Frame("icmp", 1, 0, 4, 0), Frame("other", 1, 0, 2, 0)}
=============================================================================
