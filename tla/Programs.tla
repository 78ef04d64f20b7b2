------------------------------ MODULE Programs ------------------------------
(***************************************************************************)
(* The eBPF programs (sarena-ebpf-programs): what a program does with one  *)
(* frame, given the two maps the loader fills, the node-wide lxc_map and   *)
(* the link's endpoint_config.                                             *)
(*                                                                         *)
(* A frame says how much of it is there ("none", an Ethernet header        *)
(* "eth", or "all" of its headers), its ether type, its MACs, and the      *)
(* fields of IPv4 or ARP.  The outcome is the verdict, the frame as it     *)
(* leaves, the observation points that counted it and the slot of          *)
(* prog_errors it was counted in (0: none).  The programs of the other     *)
(* kinds of links, and to_container and to_host, pass every frame.         *)
(***************************************************************************)
EXTENDS Packet

CONSTANT None  \* no entry of a map, no value

(* MACs are numbers, 0 of an empty configuration. *)
Broadcast == -1

Redirect(i) == <<"redirect", i>>
RedirectPeer(i) == <<"redirect_peer", i>>

Outcome(v, f) == [verdict |-> v, frame |-> f, counted |-> {}, error |-> 0]

(* dispatch: an error is counted under its code and drops the frame. *)
Error(code, f) == [Outcome("drop", f) EXCEPT !.error = code]
PacketSizeError == 1
TtlExceeded == 5

-----------------------------------------------------------------------------
(* The words of a header as a little-endian host loads them. *)
HostWords(bytes) ==
    [i \in 1 .. Len(bytes) \div 2 |-> bytes[2 * i - 1] + bytes[2 * i] * ByteSize]

(* bpf_l3_csum_replace with a size of 2 (RFC 1624). *)
CsumReplace(csum, old, new) ==
    WordSize - 1 - Fold((WordSize - 1 - csum) + (WordSize - 1 - old) + new)

(* Faulty variant: the TTL is taken for the other byte of its word. *)
Ipv4DecTtlSwapped(ttl, csum) ==
    [ttl |-> ttl - 1, csum |-> CsumReplace(csum, ttl * ByteSize, (ttl - 1) * ByteSize)]

(* The TTL is the first byte of its word, so in a host word its value. *)
Ipv4DecTtl(ttl, csum) ==
    [ttl |-> ttl - 1, csum |-> CsumReplace(csum, ttl, ttl - 1)]

IsRight(header, csum) == Fold(Sum(HostWords(header)) + csum) = WordSize - 1

(* A header whose checksum is right is one after its TTL was decremented,   *)
(* at any byte order and carry: the difference applied to the checksum is   *)
(* that of the word the TTL is the first byte of.                           *)
StaysRight(header, csum) ==
    IsRight(header, csum) /\ header[1] > 1 =>
       LET new == Ipv4DecTtl(header[1], csum)
       IN  IsRight([header EXCEPT ![1] = new.ttl], new.csum)

-----------------------------------------------------------------------------
RewriteEth(f, src, dst) == [f EXCEPT !.src = src, !.dst = dst]

LocalDelivery(f, ep) ==
    IF f.ttl <= 1
    THEN Error(TtlExceeded, f)
    ELSE LET ip == Ipv4DecTtl(f.ttl, f.csum)
         IN  Outcome(Redirect(ep.if_index),
                     RewriteEth([f EXCEPT !.ttl = ip.ttl, !.csum = ip.csum],
                                ep.host_mac, ep.container_mac))

(* The frame is counted before its TTL is looked at. *)
ProcessIpv4(f, lxc, obs) ==
    CASE f.size # "all"           -> Error(PacketSizeError, f)
      [] f.size = "all" /\ f.frag -> Outcome("drop", f)
      [] OTHER -> IF lxc[f.to] = None
                  THEN Outcome("pass", f)
                  ELSE [LocalDelivery(f, lxc[f.to]) EXCEPT !.counted = {obs}]

WriteArpReply(f, mac) ==
    [RewriteEth(f, mac, f.src) EXCEPT !.request = FALSE, !.from = f.to, !.to = f.from]

(* Requests for any address but the endpoint's own are answered. *)
ProcessArp(f, cfg, ifindex) ==
    CASE f.size # "all" -> Error(PacketSizeError, f)
      [] f.size = "all" /\ ~(f.request /\ f.dst \in {Broadcast, cfg.host_mac}) ->
           Outcome("pass", f)
      [] OTHER -> IF f.to = cfg.ipv4
                  THEN Outcome("next", f)
                  ELSE Outcome(RedirectPeer(ifindex), WriteArpReply(f, cfg.host_mac))

TryFromContainer(f, cfg, lxc, ifindex) ==
    CASE f.size = "none" -> Error(PacketSizeError, f)
      [] f.size # "none" /\ f.type = "undecodable" -> Outcome("pass", f)
      [] f.size # "none" /\ f.type = "ipv4" -> ProcessIpv4(f, lxc, "container_forward")
      [] f.size # "none" /\ f.type = "arp" -> ProcessArp(f, cfg, ifindex)
      [] OTHER -> Outcome("drop", f)

TryFromHost(f, lxc) ==
    CASE f.size = "none" -> Error(PacketSizeError, f)
      [] f.size # "none" /\ f.type = "ipv4" -> ProcessIpv4(f, lxc, "host_forward")
      [] OTHER -> Outcome("pass", f)
=============================================================================
