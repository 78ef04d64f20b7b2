---------------------------- MODULE AddressPool ----------------------------
(***************************************************************************)
(* What the IPAM service promises its clients: an address has one holder,  *)
(* and a client that asks for an address of each family gets both at once  *)
(* or nothing.  Bitmaps, owner tables, pools, exclusions and the visits a  *)
(* request makes to the service's state are not seen from here.            *)
(***************************************************************************)
EXTENDS Integers

CONSTANTS Clients,
          Addresses  \* pairs of a family and an offset

VARIABLES held,      \* per client: the addresses it has
          waiting    \* the clients whose request for both families is under way

poolVars == <<held, waiting>>

Init ==
    /\ held = [c \in Clients |-> {}]
    /\ waiting = {}

IsFree(a) == \A c \in Clients : a \notin held[c]

GrantOne(c, a) ==
    /\ c \notin waiting /\ IsFree(a)
    /\ held' = [held EXCEPT ![c] = @ \cup {a}]
    /\ UNCHANGED waiting

AskBoth(c) ==
    /\ c \notin waiting
    /\ waiting' = waiting \cup {c}
    /\ UNCHANGED held

GrantBoth(c, a, b) ==
    /\ c \in waiting /\ IsFree(a) /\ IsFree(b) /\ a[1] # b[1]
    /\ held' = [held EXCEPT ![c] = @ \cup {a, b}]
    /\ waiting' = waiting \ {c}

RefuseBoth(c) ==
    /\ c \in waiting
    /\ waiting' = waiting \ {c}
    /\ UNCHANGED held

GiveBack(c, a) ==
    /\ c \notin waiting /\ a \in held[c]
    /\ held' = [held EXCEPT ![c] = @ \ {a}]
    /\ UNCHANGED waiting

Next ==
    \E c \in Clients :
       \/ AskBoth(c) \/ RefuseBoth(c)
       \/ \E a \in Addresses : GrantOne(c, a) \/ GiveBack(c, a)
       \/ \E a, b \in Addresses : GrantBoth(c, a, b)

Spec == Init /\ [][Next]_poolVars
=============================================================================
