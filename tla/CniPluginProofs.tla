-------------------------- MODULE CniPluginProofs --------------------------
(***************************************************************************)
(* That an added pod keeps its addresses for itself and its interface as   *)
(* the ADD left it, for every number of containers, addresses, processes,  *)
(* attempts and faults.                                                    *)
(***************************************************************************)
EXTENDS CniPlugin, FiniteSetTheorems, WellFoundedInduction, TLAPS

(* What a process has. *)
ProcShape ==
    /\ DOMAIN proc = Containers
    /\ proc = [c \in Containers |-> proc[c]]
    /\ \A c \in Containers :
          proc[c] = [host |-> proc[c].host, peer |-> proc[c].peer,
                     lease |-> proc[c].lease, todo |-> proc[c].todo]

Shape ==
    /\ ProcShape
    /\ DOMAIN result = Containers
    /\ result = [c \in Containers |-> result[c]]
    /\ added \subseteq Containers

(* Leases are of allocated addresses, and no two have one in common. *)
LeasesAreOwn ==
    /\ \A c \in Containers : proc[c].lease \subseteq allocated
    /\ \A c, d \in Containers : c # d => proc[c].lease \cap proc[d].lease = {}

(* What was returned is allocated, is in no lease, also not in one of the   *)
(* pod's own process, and no two pods were returned the same.               *)
ResultsAreOwn ==
    /\ \A c \in added :
          /\ result[c] \subseteq allocated
          /\ \E e \in registered : e.container = c /\ e.addrs = result[c]
          /\ \A d \in Containers : result[c] \cap proc[d].lease = {}
    /\ \A c, d \in added : c # d => result[c] \cap result[d] = {}

AddressInv == Shape /\ (reliable => LeasesAreOwn /\ ResultsAreOwn)

-----------------------------------------------------------------------------
(* What the steps of a process do to the leases. *)

(* A process that goes on, with its lease. *)
LeasesStay == \A d \in Containers : proc'[d].lease = proc[d].lease

(* A process that ends has no lease. *)
LeaseEnds(c) ==
    /\ proc'[c].lease = {}
    /\ \A d \in Containers \ {c} : proc'[d].lease = proc[d].lease

LEMMA EndIs ==
    ASSUME ProcShape, NEW c \in Containers, proc' = [proc EXCEPT ![c] = Fresh]
    PROVE  ProcShape' /\ LeaseEnds(c)
<1>1. Fresh = [host |-> Fresh.host, peer |-> Fresh.peer, lease |-> {}, todo |-> Fresh.todo]
      /\ Fresh.lease = {}
  BY DEF Fresh
<1>2. /\ proc'[c] = Fresh /\ \A d \in Containers \ {c} : proc'[d] = proc[d]
      /\ DOMAIN proc' = Containers /\ proc' = [d \in Containers |-> proc'[d]]
  BY DEF ProcShape
<1> QED
  BY <1>1, <1>2 DEF ProcShape, LeaseEnds

(* A process that goes on with other handles or routes. *)
LEMMA GoesOn ==
    ASSUME ProcShape, NEW c \in Containers, NEW after, proc' = [proc EXCEPT ![c] = after],
           after = [host |-> after.host, peer |-> after.peer,
                    lease |-> proc[c].lease, todo |-> after.todo]
    PROVE  ProcShape' /\ LeasesStay
<1>1. after.lease = proc[c].lease
  OBVIOUS
<1>2. /\ proc'[c] = after /\ \A d \in Containers \ {c} : proc'[d] = proc[d]
      /\ DOMAIN proc' = Containers /\ proc' = [d \in Containers |-> proc'[d]]
  BY DEF ProcShape
<1> QED
  BY <1>1, <1>2 DEF ProcShape, LeasesStay

LEMMA FailIs ==
    ASSUME ProcShape, NEW c \in Containers, Fail(c)
    PROVE  ProcShape' /\ LeasesStay
<1>1. CASE proc[c].lease = {}
  <2>1. ProcShape' /\ LeaseEnds(c)
    BY <1>1, EndIs DEF Fail, End
  <2> QED
    BY <1>1, <2>1 DEF LeaseEnds, LeasesStay
<1>2. CASE proc[c].lease # {}
  <2> DEFINE after == [Fresh EXCEPT !.lease = proc[c].lease]
  <2>1. proc' = [proc EXCEPT ![c] = after]
    BY <1>2 DEF Fail
  <2>2. after = [host |-> after.host, peer |-> after.peer,
                 lease |-> proc[c].lease, todo |-> after.todo]
    BY DEF Fresh
  <2> HIDE DEF after
  <2> QED
    BY <2>1, <2>2, GoesOn
<1> QED
  BY <1>1, <1>2

LEMMA CallFailsIs ==
    ASSUME ProcShape, NEW c \in Containers, NEW error, CallFails(c, error)
    PROVE  ProcShape' /\ LeasesStay
<1>1. CASE UNCHANGED proc
  BY <1>1 DEF ProcShape, LeasesStay
<1> QED
  BY <1>1, FailIs DEF CallFails

(* A netlink request changes neither the daemon nor a lease. *)
LEMMA NetlinkIs ==
    ASSUME ProcShape, NEW c \in Containers, NEW next, NEW step, NEW after,
           after = [host |-> after.host, peer |-> after.peer,
                    lease |-> proc[c].lease, todo |-> after.todo],
           Netlink(c, next, step, after)
    PROVE  ProcShape' /\ LeasesStay
BY FailIs, GoesOn DEF Netlink

-----------------------------------------------------------------------------
(* Steps that release nothing, return nothing and at most end a process. *)
LEMMA QuietKeepsAddresses ==
    ASSUME AddressInv, ProcShape',
           LeasesStay \/ \E c \in Containers : LeaseEnds(c),
           reliable' => reliable, allocated \subseteq allocated', result' = result,
           registered \subseteq registered', added' \subseteq added
    PROVE  AddressInv'
<1>1. \A d \in Containers : proc'[d].lease \subseteq proc[d].lease
  BY DEF LeasesStay, LeaseEnds
<1>2. Shape'
  BY DEF AddressInv, Shape, ProcShape
<1>3. ASSUME reliable' PROVE LeasesAreOwn'
  BY <1>1, <1>3 DEF AddressInv, LeasesAreOwn
<1>4. ASSUME reliable' PROVE ResultsAreOwn'
  BY <1>1, <1>4 DEF AddressInv, ResultsAreOwn
<1> QED
  BY <1>2, <1>3, <1>4 DEF AddressInv

(* Once a release's answer was lost nothing is claimed any more. *)
LEMMA LossKeepsAddresses ==
    ASSUME AddressInv, ProcShape', ~reliable', result' = result, added' \subseteq added
    PROVE  AddressInv'
BY DEF AddressInv, Shape, ProcShape

-----------------------------------------------------------------------------
(* The steps that change what is allocated or returned. *)

LEMMA AllocateKeepsAddresses ==
    ASSUME AddressInv, NEW c \in Containers, Allocate(c)
    PROVE  AddressInv'
<1>1. /\ result' = result /\ added' = added /\ registered' = registered
      /\ reliable' = reliable /\ allocated \subseteq allocated'
      /\ ProcShape
  BY DEF Allocate, history, AddressInv, Shape
<1>2. CASE \E error : CallFails(c, error)
  <2>1. ProcShape' /\ LeasesStay
    BY <1>1, <1>2, CallFailsIs
  <2> QED
    BY <1>1, <2>1, QuietKeepsAddresses
<1>4. ASSUME NEW a \in Addrs \ allocated, allocated' = allocated \cup {a},
             proc' = [proc EXCEPT ![c].lease = {a}]
      PROVE  AddressInv'
  <2> DEFINE new == [proc[c] EXCEPT !.lease = {a}]
  <2>1. proc' = [proc EXCEPT ![c] = new]
    BY <1>4
  <2>2. proc[c] = [host |-> proc[c].host, peer |-> proc[c].peer,
                   lease |-> proc[c].lease, todo |-> proc[c].todo]
    BY <1>1 DEF ProcShape
  <2>3. new = [host |-> proc[c].host, peer |-> proc[c].peer, lease |-> {a},
               todo |-> proc[c].todo]
    BY <2>2
  <2> HIDE DEF new
  <2>4. /\ new.lease = {a}
        /\ new = [host |-> new.host, peer |-> new.peer, lease |-> new.lease, todo |-> new.todo]
    BY <2>3
  <2>5. /\ proc'[c] = new /\ \A d \in Containers \ {c} : proc'[d] = proc[d]
        /\ DOMAIN proc' = Containers /\ proc' = [d \in Containers |-> proc'[d]]
    BY <1>1, <2>1 DEF ProcShape
  <2>6. ProcShape'
    BY <1>1, <2>4, <2>5 DEF ProcShape
  <2>7. Shape'
    BY <1>1, <2>6 DEF AddressInv, Shape
  <2>8. proc'[c].lease = {a} /\ \A d \in Containers \ {c} : proc'[d].lease = proc[d].lease
    BY <2>4, <2>5
  <2>9. ASSUME reliable' PROVE LeasesAreOwn' /\ ResultsAreOwn'
    <3>1. LeasesAreOwn /\ ResultsAreOwn
      BY <1>1, <2>9 DEF AddressInv
    <3>2. /\ \A d \in Containers : a \notin proc[d].lease
          /\ \A d \in added : a \notin result[d]
      BY <3>1 DEF LeasesAreOwn, ResultsAreOwn
    <3>3. LeasesAreOwn'
      BY <1>4, <2>8, <3>1, <3>2 DEF LeasesAreOwn
    <3>4. ResultsAreOwn'
      BY <1>1, <1>4, <2>8, <3>1, <3>2 DEF ResultsAreOwn
    <3> QED
      BY <3>3, <3>4
  <2> QED
    BY <2>7, <2>9 DEF AddressInv
<1> QED
  BY <1>2, <1>4 DEF Allocate

(* A process releases its own lease only, which nobody else has. *)
LEMMA ReleaseKeepsAddresses ==
    ASSUME AddressInv, NEW c \in Containers, Release(c)
    PROVE  AddressInv'
<1>1. /\ result' = result /\ added' = added /\ registered' = registered
      /\ allocated' = allocated \ proc[c].lease
      /\ ProcShape
  BY DEF Release, AddressInv, Shape
<1>2. CASE ~reliable'
  <2>1. ProcShape'
    BY <1>1, EndIs, CallFailsIs DEF Release, End
  <2> QED
    BY <1>1, <1>2, <2>1, LossKeepsAddresses
<1>3. CASE reliable'
  <2>1. End(c) /\ reliable
    BY <1>3 DEF Release
  <2>2. ProcShape' /\ LeaseEnds(c)
    BY <1>1, <2>1, EndIs DEF End
  <2>3. LeasesAreOwn /\ ResultsAreOwn
    BY <2>1 DEF AddressInv
  <2>4. Shape'
    BY <1>1, <2>2 DEF AddressInv, Shape
  <2>5. LeasesAreOwn'
    BY <1>1, <2>2, <2>3 DEF LeasesAreOwn, LeaseEnds
  <2>6. ResultsAreOwn'
    BY <1>1, <2>2, <2>3 DEF ResultsAreOwn, LeaseEnds
  <2> QED
    BY <2>4, <2>5, <2>6 DEF AddressInv
<1> QED
  BY <1>2, <1>3

(* The answer of a registration turns the lease into the result. *)
LEMMA RegisterKeepsAddresses ==
    ASSUME AddressInv, NEW c \in Containers, NEW e, e.container = c, AddEndpoint(e)
    PROVE  AddressInv'
<1>1. /\ registered' = registered \cup {e} /\ allocated' = allocated
      /\ reliable' = reliable /\ ProcShape
  BY DEF AddEndpoint, AddressInv, Shape
<1>2. CASE UNCHANGED <<proc, added, result>>
  <2>1. ProcShape' /\ LeasesStay
    BY <1>1, <1>2 DEF ProcShape, LeasesStay
  <2> QED
    BY <1>1, <1>2, <2>1, QuietKeepsAddresses
<1>3. CASE UNCHANGED <<added, result>> /\ \E error : CallFails(c, error)
  <2>1. ProcShape' /\ LeasesStay
    BY <1>1, <1>3, CallFailsIs
  <2> QED
    BY <1>1, <1>3, <2>1, QuietKeepsAddresses
<1>4. CASE /\ proc[c].lease = e.addrs /\ Keep(c) /\ added' = added \cup {c}
           /\ result' = [result EXCEPT ![c] = e.addrs]
  <2>1. ProcShape' /\ LeaseEnds(c)
    BY <1>1, <1>4, EndIs DEF Keep, End
  <2>2. /\ result'[c] = e.addrs /\ \A d \in Containers \ {c} : result'[d] = result[d]
        /\ DOMAIN result' = Containers /\ result' = [d \in Containers |-> result'[d]]
    BY <1>4 DEF AddressInv, Shape
  <2>3. Shape'
    BY <1>4, <2>1, <2>2 DEF AddressInv, Shape
  <2>4. ASSUME reliable' PROVE LeasesAreOwn' /\ ResultsAreOwn'
    <3>1. LeasesAreOwn /\ ResultsAreOwn /\ added \subseteq Containers
      BY <1>1, <2>4 DEF AddressInv, Shape
    <3>2. LeasesAreOwn'
      BY <1>1, <2>1, <3>1 DEF LeasesAreOwn, LeaseEnds
    <3>3. ASSUME NEW d \in added'
          PROVE  /\ result'[d] \subseteq allocated'
                 /\ \E x \in registered' : x.container = d /\ x.addrs = result'[d]
                 /\ \A k \in Containers : result'[d] \cap proc'[k].lease = {}
      <4>1. CASE d = c
        BY <1>1, <1>4, <2>1, <2>2, <3>1, <4>1 DEF LeasesAreOwn, LeaseEnds
      <4>2. CASE d # c
        <5>1. d \in added /\ result'[d] = result[d]
          BY <1>4, <2>2, <3>1, <3>3, <4>2
        <5> QED
          BY <1>1, <2>1, <3>1, <5>1 DEF ResultsAreOwn, LeaseEnds
      <4> QED
        BY <4>1, <4>2
    <3>4. ASSUME NEW d \in added', NEW k \in added', d # k
          PROVE  result'[d] \cap result'[k] = {}
      BY <1>4, <2>2, <3>1, <3>4 DEF ResultsAreOwn
    <3>5. ResultsAreOwn'
      BY <3>3, <3>4 DEF ResultsAreOwn
    <3> QED
      BY <3>2, <3>5
  <2> QED
    BY <2>3, <2>4 DEF AddressInv
<1> QED
  BY <1>2, <1>3, <1>4 DEF AddEndpoint

-----------------------------------------------------------------------------
(* All other steps leave the addresses alone. *)

(* The daemon's addresses and endpoints, and what was returned. *)
AddressesStay ==
    UNCHANGED <<allocated, registered, result, reliable>> /\ added' \subseteq added

(* Steps that do not touch the process. *)
LEMMA IdleKeepsAddresses ==
    ASSUME AddressInv, AddressesStay, proc' = proc
    PROVE  AddressInv'
<1>1. ProcShape' /\ LeasesStay
  BY DEF AddressInv, Shape, ProcShape, LeasesStay
<1> QED
  BY <1>1, QuietKeepsAddresses DEF AddressesStay

(* Steps after which the process is gone, failed or went on. *)
LEMMA ProcessKeepsAddresses ==
    ASSUME AddressInv, AddressesStay, NEW c \in Containers,
           End(c) \/ Fail(c) \/ \E error : CallFails(c, error)
    PROVE  AddressInv'
<1>1. ProcShape
  BY DEF AddressInv, Shape
<1>2. ProcShape' /\ (LeasesStay \/ LeaseEnds(c))
  BY <1>1, EndIs, FailIs, CallFailsIs DEF End
<1> QED
  BY <1>2, QuietKeepsAddresses DEF AddressesStay

(* A netlink request of ADD. *)
LEMMA ConfigureKeepsAddresses ==
    ASSUME AddressInv, NEW c \in Containers, NEW step, NEW next, NEW then, NEW after,
           after = [host |-> after.host, peer |-> after.peer,
                    lease |-> proc[c].lease, todo |-> after.todo],
           Configure(c, step, next, then, after)
    PROVE  AddressInv'
<1>1. ProcShape /\ AddressesStay
  BY DEF Configure, daemon, history, AddressesStay, AddressInv, Shape
<1>2. ProcShape' /\ LeasesStay
  BY <1>1, NetlinkIs DEF Configure
<1> QED
  BY <1>1, <1>2, QuietKeepsAddresses DEF AddressesStay

(* A request of ADD that leaves the process's handles as they are. *)
LEMMA PlainRequestKeepsAddresses ==
    ASSUME AddressInv, NEW c \in Containers, NEW step, NEW next, NEW then,
           Configure(c, step, next, then, proc[c])
    PROVE  AddressInv'
<1>1. proc[c] = [host |-> proc[c].host, peer |-> proc[c].peer,
                 lease |-> proc[c].lease, todo |-> proc[c].todo]
  BY DEF AddressInv, Shape, ProcShape
<1> QED
  BY <1>1, ConfigureKeepsAddresses

LEMMA StaleKeepsAddresses ==
    ASSUME AddressInv, NEW c \in Containers, DeleteStale(c)
    PROVE  AddressInv'
<1>1. AddressesStay
  BY DEF DeleteStale, daemon, history, AddressesStay
<1>2. CASE spaces[c] # "ready"
  BY <1>1, <1>2, ProcessKeepsAddresses DEF DeleteStale
<1>3. CASE spaces[c] = "ready"
  <2>1. PICK next : Configure(c, "stale", next, "config", proc[c])
    BY <1>3 DEF DeleteStale, Configure
  <2> QED
    BY <2>1, PlainRequestKeepsAddresses
<1> QED
  BY <1>2, <1>3

LEMMA VethKeepsAddresses ==
    ASSUME AddressInv, NEW c \in Containers, SetupVeth(c)
    PROVE  AddressInv'
<1>1. proc[c] = [host |-> proc[c].host, peer |-> proc[c].peer,
                 lease |-> proc[c].lease, todo |-> proc[c].todo]
  BY DEF AddressInv, Shape, ProcShape
<1>2. ASSUME NEW h, NEW p, NEW next,
             Configure(c, "veth", next, "move", [proc[c] EXCEPT !.host = h, !.peer = p])
      PROVE  AddressInv'
  <2> DEFINE after == [proc[c] EXCEPT !.host = h, !.peer = p]
  <2>1. after = [host |-> after.host, peer |-> after.peer,
                 lease |-> proc[c].lease, todo |-> after.todo]
    <3> DEFINE half == [proc[c] EXCEPT !.host = h]
    <3>1. half = [host |-> h, peer |-> proc[c].peer,
                  lease |-> proc[c].lease, todo |-> proc[c].todo]
      BY <1>1
    <3>2. after = [half EXCEPT !.peer = p]
      OBVIOUS
    <3> HIDE DEF half, after
    <3>3. after = [host |-> h, peer |-> p, lease |-> proc[c].lease, todo |-> proc[c].todo]
      BY <3>1, <3>2
    <3> QED
      BY <3>3
  <2>2. Configure(c, "veth", next, "move", after)
    BY <1>2
  <2> HIDE DEF after
  <2> QED
    BY <2>1, <2>2, ConfigureKeepsAddresses
<1>3. ASSUME NEW next, Configure(c, "move", next, "rename", [proc[c] EXCEPT !.peer.ns = c])
      PROVE  AddressInv'
  <2> DEFINE after == [proc[c] EXCEPT !.peer.ns = c]
  <2>1. after = [host |-> after.host, peer |-> after.peer,
                 lease |-> proc[c].lease, todo |-> after.todo]
    BY <1>1
  <2>2. Configure(c, "move", next, "rename", after)
    BY <1>3
  <2> HIDE DEF after
  <2> QED
    BY <2>1, <2>2, ConfigureKeepsAddresses
<1>4. ASSUME NEW next,
             Configure(c, "rename", next, "rp_filter", [proc[c] EXCEPT !.peer.name = IfName])
      PROVE  AddressInv'
  <2> DEFINE after == [proc[c] EXCEPT !.peer.name = IfName]
  <2>1. after = [host |-> after.host, peer |-> after.peer,
                 lease |-> proc[c].lease, todo |-> after.todo]
    BY <1>1
  <2>2. Configure(c, "rename", next, "rp_filter", after)
    BY <1>4
  <2> HIDE DEF after
  <2> QED
    BY <2>1, <2>2, ConfigureKeepsAddresses
<1> QED
  BY <1>2, <1>3, <1>4, PlainRequestKeepsAddresses DEF SetupVeth

LEMMA IfaceKeepsAddresses ==
    ASSUME AddressInv, NEW c \in Containers, ConfigureIface(c)
    PROVE  AddressInv'
<1>1. proc[c] = [host |-> proc[c].host, peer |-> proc[c].peer,
                 lease |-> proc[c].lease, todo |-> proc[c].todo]
  BY DEF AddressInv, Shape, ProcShape
<1>2. ASSUME NEW todo, NEW step, NEW next,
             Configure(c, step, next, "route", [proc[c] EXCEPT !.todo = todo])
      PROVE  AddressInv'
  <2> DEFINE after == [proc[c] EXCEPT !.todo = todo]
  <2>1. after = [host |-> after.host, peer |-> after.peer,
                 lease |-> proc[c].lease, todo |-> after.todo]
    BY <1>1
  <2>2. Configure(c, step, next, "route", after)
    BY <1>2
  <2> HIDE DEF after
  <2> QED
    BY <2>1, <2>2, ConfigureKeepsAddresses
<1>3. CASE proc' = proc /\ UNCHANGED <<daemon, history>>
  BY <1>3, IdleKeepsAddresses DEF daemon, history, AddressesStay
<1>4. ASSUME NEW next, Configure(c, "route", next, "route",
                                 [proc[c] EXCEPT !.todo = Tail(@)])
      PROVE  AddressInv'
  <2>1. [proc[c] EXCEPT !.todo = Tail(@)] = [proc[c] EXCEPT !.todo = Tail(proc[c].todo)]
    OBVIOUS
  <2> QED
    BY <1>2, <1>4, <2>1
<1> QED
  BY <1>2, <1>3, <1>4, PlainRequestKeepsAddresses DEF ConfigureIface

LEMMA StepKeepsAddresses ==
    ASSUME AddressInv, NEW c \in Containers, Step(c)
    PROVE  AddressInv'
<1>1. CASE GetConfig(c) \/ DeleteEndpoint(c) \/ EndpointHealth(c)
  <2>1. AddressesStay /\ proc' = proc
    BY <1>1 DEF GetConfig, DeleteEndpoint, EndpointHealth, daemon, history, AddressesStay
  <2> QED
    BY <2>1, IdleKeepsAddresses
<1>2. CASE CheckEndpoint(c)
  <2>1. AddressesStay
    BY <1>2 DEF CheckEndpoint, history, AddressesStay
  <2>2. proc' = proc \/ CallFails(c, "endpoint_known")
    BY <1>2 DEF CheckEndpoint
  <2> QED
    BY <2>1, <2>2, IdleKeepsAddresses, ProcessKeepsAddresses
<1>3. CASE DeleteInterface(c) \/ VerifyInterface(c) \/ DaemonHealth(c)
  <2>1. AddressesStay
    BY <1>3 DEF DeleteInterface, VerifyInterface, DaemonHealth, daemon, history, AddressesStay
  <2>2. End(c) \/ Fail(c)
    BY <1>3 DEF DeleteInterface, VerifyInterface, DaemonHealth
  <2> QED
    BY <2>1, <2>2, ProcessKeepsAddresses
<1>4. CASE ConnectionLost(c)
  <2>1. AddressesStay /\ CallFails(c, "network")
    BY <1>4 DEF ConnectionLost, daemon, history, AddressesStay
  <2> QED
    BY <2>1, ProcessKeepsAddresses
<1> QED
  BY <1>1, <1>2, <1>3, <1>4, AllocateKeepsAddresses, ReleaseKeepsAddresses,
     RegisterKeepsAddresses, StaleKeepsAddresses, VethKeepsAddresses,
     IfaceKeepsAddresses DEF Step

LEMMA NextKeepsAddresses ==
    ASSUME AddressInv, [Next]_vars
    PROVE  AddressInv'
<1>1. ASSUME NEW c \in Containers, CreateNetns(c) \/ CreateOnThread(c) \/ RollbackNetns(c)
      PROVE  AddressInv'
  <2>1. AddressesStay /\ proc' = proc
    BY <1>1 DEF CreateNetns, CreateOnThread, RollbackNetns, daemon, history, AddressesStay
  <2> QED
    BY <2>1, IdleKeepsAddresses
<1>2. ASSUME NEW c \in Containers, NEW command,
             DeleteNetns(c) \/ Dispatch(c, command) \/ RejectArgs(c)
      PROVE  AddressInv'
  <2>1. AddressesStay /\ proc' = proc
    BY <1>2 DEF DeleteNetns, Dispatch, RejectArgs, daemon, AddressesStay
  <2> QED
    BY <2>1, IdleKeepsAddresses
<1>3. ASSUME NEW c \in Containers, Kill(c) \/ ExitEarly(c)
      PROVE  AddressInv'
  <2>1. AddressesStay /\ End(c)
    BY <1>3 DEF Kill, ExitEarly, daemon, history, AddressesStay
  <2> QED
    BY <2>1, ProcessKeepsAddresses
<1>4. ASSUME NEW c \in Containers, RequestLost(c)
      PROVE  AddressInv'
  <2>1. AddressesStay /\ CallFails(c, "network")
    BY <1>4 DEF RequestLost, daemon, history, AddressesStay
  <2> QED
    BY <2>1, ProcessKeepsAddresses
<1>5. CASE DaemonRestart
  <2>1. ProcShape'
    BY <1>5 DEF DaemonRestart, AddressInv, Shape, ProcShape
  <2> QED
    BY <1>5, <2>1, LossKeepsAddresses DEF DaemonRestart
<1>6. CASE UNCHANGED vars
  BY <1>6, IdleKeepsAddresses DEF vars, AddressesStay
<1> QED
  BY <1>1, <1>2, <1>3, <1>4, <1>5, <1>6, StepKeepsAddresses DEF Next

LEMMA InitHasAddresses == Init => AddressInv
<1> SUFFICES ASSUME Init PROVE AddressInv
  OBVIOUS
<1>1. ProcShape /\ \A c \in Containers : proc[c].lease = {}
  BY DEF Init, ProcShape, Fresh
<1>2. DOMAIN result = Containers /\ result = [c \in Containers |-> result[c]] /\ added = {}
  BY DEF Init
<1> QED
  BY <1>1, <1>2 DEF AddressInv, Shape, LeasesAreOwn, ResultsAreOwn

(* An added pod keeps its addresses for itself as long as no answer to a    *)
(* release was lost and the daemon did not restart: failed ADDs release     *)
(* their own lease only (IpamLease::drop), kills, rollbacks and calls made  *)
(* again take nothing from another pod, and a late registration is not      *)
(* taken for the one a process awaits.                                      *)
THEOREM AddressesKept == Spec => []AddressesAreKept
<1>1. Spec => []AddressInv
  BY InitHasAddresses, NextKeepsAddresses, PTL DEF Spec
<1>2. AddressInv => AddressesAreKept
  BY DEF AddressInv, LeasesAreOwn, ResultsAreOwn, AddressesAreKept, Shape
<1> QED
  BY <1>1, <1>2, PTL
-----------------------------------------------------------------------------
(* The interfaces.  First what holds of the kernel's links.                 *)

(* Links are records, they come in pairs and their names are unique in a    *)
(* namespace.                                                               *)
Fields == {"ns", "name", "peer", "up", "arp", "mtu", "sysctl", "addrs", "routes"}

IsLink(l) ==
    /\ l = [f \in Fields |-> l[f]]
    /\ l.sysctl = [k \in Sysctls |-> l.sysctl[k]]

LinkShape ==
    /\ links = [i \in DOMAIN links |-> links[i]]
    /\ \A i \in DOMAIN links : IsLink(links[i])

LinksArePaired ==
    \A i \in DOMAIN links :
        /\ links[i].peer \in DOMAIN links
        /\ links[i].peer # i
        /\ links[links[i].peer].peer = i

NamesAreUnique ==
    \A i, j \in DOMAIN links :
        links[i].ns = links[j].ns /\ links[i].name = links[j].name => i = j

(* The end of a pair that stays on the host.  One of each pair does, so     *)
(* there are at most two links for a container.                             *)
IsHostEnd(l) == l.ns = HostNs /\ \E c \in Containers : l.name = HostName[c]

PairsHaveHostEnds ==
    \A i \in DOMAIN links : IsHostEnd(links[i]) \/ IsHostEnd(links[links[i].peer])

KernelInv ==
    /\ LinkShape
    /\ LinksArePaired
    /\ NamesAreUnique
    /\ PairsHaveHostEnds
    /\ IsFiniteSet(DOMAIN links)

(* The steps of an ADD from its veth on, and what lies behind each.         *)
VethSteps == {"move", "rename", "rp_filter", "host_mtu", "peer_mtu", "host_up",
              "peer_up", "addr", "route", "create", "created"}
RenamedSteps == VethSteps \ {"move", "rename"}
FilteredSteps == RenamedSteps \ {"rp_filter"}
HostSizedSteps == FilteredSteps \ {"host_mtu"}
PeerSizedSteps == HostSizedSteps \ {"peer_mtu"}
HostUpSteps == PeerSizedSteps \ {"host_up"}
PeerUpSteps == HostUpSteps \ {"peer_up"}
AddressedSteps == PeerUpSteps \ {"addr"}
RoutedSteps == AddressedSteps \ {"route"}

(* The steps of a process that touches no link.                             *)
IdleSteps == {"idle", "health", "verify", "status"}

Destinations(routes) == {r.prefix : r \in routes}
PodRoutes == {Ipv4Routes(Gateway, RouteMtu)[k] : k \in 1 .. 2}

(* The two ends of a process's veth, by its step.                           *)
EndsAre(c, step, lease, todo, host, peer) ==
    /\ host.ns = HostNs /\ host.name = HostName[c]
    /\ peer.ns = IF step = "move" THEN HostNs ELSE c
    /\ step \in RenamedSteps => peer.name = IfName
    /\ step \in FilteredSteps => host.sysctl["rp_filter"] = "0"
    /\ step \in HostSizedSteps => host.mtu = DeviceMtu
    /\ step \in PeerSizedSteps => peer.mtu = DeviceMtu
    /\ step \in HostUpSteps => host.up
    /\ step \in PeerUpSteps => peer.up
    /\ peer.addrs = IF step \in AddressedSteps THEN lease ELSE {}
    /\ step \notin AddressedSteps => peer.routes = {}
    /\ step = "route" =>
          /\ todo \in Seq(PodRoutes)
          /\ Destinations(peer.routes) \cup {todo[k].prefix : k \in DOMAIN todo}
             = {Gateway, Everything}
    /\ step \in RoutedSteps => Destinations(peer.routes) = {Gateway, Everything}

VethIs(c, h, p) ==
    /\ h \in DOMAIN links /\ p \in DOMAIN links
    /\ links[h].peer = p /\ links[p].peer = h
    /\ EndsAre(c, pc[c], proc[c].lease, proc[c].todo, links[h], links[p])

(* The process's handles reach them.                                        *)
HasVeth(c) ==
    LET h == proc[c].host.index
        p == proc[c].peer.index
    IN  /\ proc[c].host = [index |-> h, name |-> HostName[c], ns |-> HostNs]
        /\ proc[c].peer = [index |-> p, name |-> proc[c].peer.name,
                           ns |-> IF pc[c] = "move" THEN HostNs ELSE c]
        /\ VethIs(c, h, p)

StepOf(c) ==
    /\ pc[c] \in VethSteps => HasVeth(c)
    /\ pc[c] \in VethSteps \cup {"veth"} => \E a : proc[c].lease = {a}
    /\ op[c] = None => pc[c] = "idle"

(* A pod that was added, with its two links; its process touches neither.   *)
ConfiguredIs(c, i, j) ==
    /\ i \in DOMAIN links /\ j \in DOMAIN links
    /\ links[i].ns = c /\ links[i].name = IfName
    /\ links[j].ns = HostNs /\ links[j].name = HostName[c]
    /\ links[i].peer = j
    /\ links[i].up /\ links[j].up
    /\ links[i].mtu = DeviceMtu /\ links[j].mtu = DeviceMtu
    /\ links[i].addrs = result[c] /\ result[c] # {}
    /\ Destinations(links[i].routes) = {Gateway, Everything}
    /\ links[j].sysctl["rp_filter"] = "0"

AddedOf(c) ==
    c \in added =>
        /\ pc[c] \in IdleSteps
        /\ proc[c].lease = {}
        /\ \E i, j \in DOMAIN links : ConfiguredIs(c, i, j)

(* Two processes do not have a link in common.                              *)
VethsAreApart ==
    \A c, d \in Containers :
        c # d /\ pc[c] \in VethSteps /\ pc[d] \in VethSteps
            => proc[c].host.index # proc[d].peer.index

PodShape == Shape /\ DOMAIN pc = Containers /\ DOMAIN op = Containers

LinkInv ==
    /\ PodShape
    /\ KernelInv
    /\ VethsAreApart
    /\ \A c \in Containers : StepOf(c) /\ AddedOf(c)

-----------------------------------------------------------------------------
(* The three ways in which a request changes the kernel's links.            *)

(* One link is changed: it keeps its peer, and if it keeps not its name and *)
(* namespace, those it gets are free and its peer is the host's end.        *)
LEMMA EditKeepsKernel ==
    ASSUME KernelInv, NEW i \in DOMAIN links, NEW x, IsLink(x), x.peer = links[i].peer,
           \/ x.ns = links[i].ns /\ x.name = links[i].name
           \/ /\ IsHostEnd(links[links[i].peer])
              /\ \A j \in DOMAIN links \ {i} : ~(links[j].ns = x.ns /\ links[j].name = x.name),
           links' = [links EXCEPT ![i] = x]
    PROVE  KernelInv'
<1>1. /\ DOMAIN links' = DOMAIN links /\ links' = [j \in DOMAIN links' |-> links'[j]]
      /\ links'[i] = x
      /\ \A j \in DOMAIN links \ {i} : links'[j] = links[j]
  BY DEF KernelInv, LinkShape
<1>2. LinkShape'
  <2>1. \A j \in DOMAIN links : IsLink(links'[j])
    BY <1>1, Zenon DEF KernelInv, LinkShape
  <2> QED
    BY <1>1, <2>1, Zenon DEF LinkShape, IsLink
<1>3. \A j \in DOMAIN links : links'[j].peer = links[j].peer
  BY <1>1
<1>4. LinksArePaired'
  BY <1>1, <1>3 DEF KernelInv, LinksArePaired
<1>5. NamesAreUnique'
  BY <1>1 DEF KernelInv, NamesAreUnique
<1>6. PairsHaveHostEnds'
  <2>1. \A j \in DOMAIN links \ {i} : IsHostEnd(links'[j]) <=> IsHostEnd(links[j])
    BY <1>1
  <2>2. links[i].peer \in DOMAIN links \ {i} /\ links[links[i].peer].peer = i
    BY DEF KernelInv, LinksArePaired
  <2>3. IsHostEnd(links'[i]) \/ IsHostEnd(links'[links[i].peer])
    <3>1. CASE x.ns = links[i].ns /\ x.name = links[i].name
      BY <1>1, <2>1, <2>2, <3>1 DEF KernelInv, PairsHaveHostEnds, IsHostEnd
    <3>2. CASE IsHostEnd(links[links[i].peer])
      BY <2>1, <2>2, <3>2
    <3> QED
      BY <3>1, <3>2
  <2>4. ASSUME NEW j \in DOMAIN links
        PROVE  IsHostEnd(links'[j]) \/ IsHostEnd(links'[links'[j].peer])
    <3>1. CASE j = i
      BY <1>3, <2>3, <3>1
    <3>2. CASE j # i /\ links[j].peer = i
      <4>1. j = links[i].peer
        BY <3>2 DEF KernelInv, LinksArePaired
      <4> QED
        BY <1>3, <2>3, <3>2, <4>1
    <3>3. CASE j # i /\ links[j].peer # i
      <4>1. links[j].peer \in DOMAIN links
        BY DEF KernelInv, LinksArePaired
      <4> QED
        BY <1>3, <2>1, <3>3, <4>1 DEF KernelInv, PairsHaveHostEnds
    <3> QED
      BY <3>1, <3>2, <3>3
  <2> QED
    BY <1>1, <2>4, Zenon DEF PairsHaveHostEnds, IsHostEnd
<1> QED
  BY <1>1, <1>2, <1>4, <1>5, <1>6 DEF KernelInv

LEMMA NewLinkIs ==
    ASSUME NEW name, NEW peer, NEW l, l = NewLink(name, peer)
    PROVE  IsLink(l) /\ l.ns = HostNs /\ l.name = name /\ l.peer = peer
             /\ l.addrs = {} /\ l.routes = {}
<1>1. /\ l.ns = HostNs /\ l.name = name /\ l.peer = peer /\ l.up = FALSE
      /\ l.arp = TRUE /\ l.mtu = 0 /\ l.addrs = {} /\ l.routes = {}
      /\ l.sysctl = [k \in Sysctls |-> "default"]
  BY DEF NewLink
<1>2. l.sysctl = [k \in Sysctls |-> l.sysctl[k]]
  BY <1>1
<1>3. l = [f \in Fields |-> l[f]]
  BY DEF NewLink, Fields
<1> QED
  BY <1>1, <1>2, <1>3, Zenon DEF IsLink

(* A pair is made, of indices and names that are free.                      *)
LEMMA NewPairKeepsKernel ==
    ASSUME KernelInv, NEW i, NEW j, i \notin DOMAIN links, j \notin DOMAIN links, i # j,
           NEW c \in Containers, NEW name, name # HostName[c],
           Named(links, HostNs, HostName[c]) = {}, Named(links, HostNs, name) = {},
           DOMAIN links' = DOMAIN links \cup {i, j},
           links' = [k \in DOMAIN links' |-> links'[k]],
           links'[i] = NewLink(HostName[c], j), links'[j] = NewLink(name, i),
           \A k \in DOMAIN links : links'[k] = links[k]
    PROVE  KernelInv'
<1>1. /\ links'[i].peer = j /\ links'[i].ns = HostNs /\ links'[i].name = HostName[c]
      /\ links'[j].peer = i /\ links'[j].ns = HostNs /\ links'[j].name = name
      /\ IsLink(links'[i]) /\ IsLink(links'[j])
  BY NewLinkIs
<1>2. LinkShape'
  <2>1. \A k \in DOMAIN links' : IsLink(links'[k])
    BY <1>1, Zenon DEF KernelInv, LinkShape
  <2> QED
    BY <2>1, Zenon DEF LinkShape, IsLink
<1>3. LinksArePaired'
  BY <1>1 DEF KernelInv, LinksArePaired
<1>4. NamesAreUnique'
  <2>1. \A k \in DOMAIN links : links[k].ns = HostNs =>
                                   links[k].name # HostName[c] /\ links[k].name # name
    BY DEF Named
  <2> QED
    BY <1>1, <2>1 DEF KernelInv, NamesAreUnique
<1>5. PairsHaveHostEnds'
  <2>1. IsHostEnd(links'[i])
    BY <1>1 DEF IsHostEnd
  <2>2. \A k \in DOMAIN links : links[k].peer \in DOMAIN links
    BY DEF KernelInv, LinksArePaired
  <2>3. \A k \in DOMAIN links' : IsHostEnd(links'[k]) \/ IsHostEnd(links'[links'[k].peer])
    BY <1>1, <2>1, <2>2 DEF KernelInv, PairsHaveHostEnds
  <2> QED
    BY <2>3, Zenon DEF PairsHaveHostEnds, IsHostEnd
<1>6. IsFiniteSet(DOMAIN links')
  <2>1. IsFiniteSet(DOMAIN links \cup {i})
    BY FS_AddElement DEF KernelInv
  <2>2. IsFiniteSet((DOMAIN links \cup {i}) \cup {j})
    BY <2>1, FS_AddElement
  <2>3. DOMAIN links' = (DOMAIN links \cup {i}) \cup {j}
    OBVIOUS
  <2> QED
    BY <2>2, <2>3
<1> QED
  BY <1>2, <1>3, <1>4, <1>5, <1>6 DEF KernelInv

(* Whole pairs go.                                                          *)
LEMMA RestrictKeepsKernel ==
    ASSUME KernelInv, NEW S \in SUBSET DOMAIN links,
           \A k \in S : links[k].peer \in S, links' = Restrict(links, S)
    PROVE  KernelInv' /\ DOMAIN links' = S /\ \A k \in S : links'[k] = links[k]
<1>1. /\ DOMAIN links' = S /\ \A k \in S : links'[k] = links[k]
      /\ links' = [k \in DOMAIN links' |-> links'[k]]
  BY DEF Restrict
<1>2. LinkShape'
  <2>1. \A k \in S : IsLink(links'[k])
    BY <1>1, Zenon DEF KernelInv, LinkShape
  <2> QED
    BY <1>1, <2>1, Zenon DEF LinkShape, IsLink
<1>3. LinksArePaired' /\ NamesAreUnique'
  BY <1>1 DEF KernelInv, LinksArePaired, NamesAreUnique
<1>4. PairsHaveHostEnds'
  <2>1. \A k \in S : IsHostEnd(links'[k]) \/ IsHostEnd(links'[links'[k].peer])
    BY <1>1 DEF KernelInv, PairsHaveHostEnds
  <2> QED
    BY <1>1, <2>1, Zenon DEF PairsHaveHostEnds, IsHostEnd
<1>5. IsFiniteSet(DOMAIN links')
  BY <1>1, FS_Subset DEF KernelInv
<1> QED
  BY <1>1, <1>2, <1>3, <1>4, <1>5 DEF KernelInv

(* Nothing changes.                                                         *)
LEMMA SameKernel ==
    ASSUME KernelInv, links' = links
    PROVE  KernelInv'
BY DEF KernelInv, LinkShape, IsLink, LinksArePaired, NamesAreUnique, PairsHaveHostEnds,
       IsHostEnd

(* Deleting a link of a pod's namespace takes one pair with an end there.   *)
LEMMA DeleteLinkIs ==
    ASSUME KernelInv, NEW c, NEW name, links' \in DeleteLinkInNs(links, c, name)
    PROVE  /\ KernelInv'
           /\ \E x \in DOMAIN links :
                /\ links[x].ns = c
                /\ \A k \in DOMAIN links \ {x, links[x].peer} :
                      k \in DOMAIN links' /\ links'[k] = links[k]
<1>1. PICK h \in GetLinkByNameInNs(links, c, name) : links' \in Delete(links, h)
  BY DEF DeleteLinkInNs
<1>2. PICK x \in Reach(links, h) : links' \in LinkDeleteImpl(links, x)
  BY <1>1 DEF Delete
<1>3. x \in DOMAIN links /\ links[x].ns = c
  BY <1>2, <1>1 DEF GetLinkByNameInNs, GetLinkImpl, Named, Reach
<1> DEFINE S == DOMAIN links \ {x, links[x].peer}
<1>4. links' = Restrict(links, S)
  BY <1>2 DEF LinkDeleteImpl
<1>5. S \in SUBSET DOMAIN links /\ \A k \in S : links[k].peer \in S
  BY <1>3 DEF KernelInv, LinksArePaired
<1> HIDE DEF S
<1>6. KernelInv' /\ DOMAIN links' = S /\ \A k \in S : links'[k] = links[k]
  BY <1>4, <1>5, RestrictKeepsKernel
<1> QED
  BY <1>3, <1>6 DEF S

LEMMA DeleteNsIs ==
    ASSUME KernelInv, NEW c, links' = DeleteNs(links, c)
    PROVE  /\ KernelInv'
           /\ \A k \in DOMAIN links : links[k].ns # c /\ links[links[k].peer].ns # c =>
                 k \in DOMAIN links' /\ links'[k] = links[k]
<1> DEFINE S == {i \in DOMAIN links : links[i].ns # c /\ links[links[i].peer].ns # c}
<1>1. links' = Restrict(links, S)
  BY DEF DeleteNs
<1>2. S \in SUBSET DOMAIN links /\ \A k \in S : links[k].peer \in S
  BY DEF KernelInv, LinksArePaired
<1> HIDE DEF S
<1>3. KernelInv' /\ DOMAIN links' = S /\ \A k \in S : links'[k] = links[k]
  BY <1>1, <1>2, RestrictKeepsKernel
<1> QED
  BY <1>3 DEF S

-----------------------------------------------------------------------------
(* Two indices are free: with at most two links for a container, and two    *)
(* handles, not all of FreshIndices' range is used.                         *)

LEMMA LeastNat ==
    ASSUME NEW T \in SUBSET Nat, T # {}
    PROVE  Min(T) \in T
<1> DEFINE Less == OpToRel(<, Nat)
<1>1. \A m, n \in Nat : m < n => <<m, n>> \in Less
  BY DEF OpToRel
<1> HIDE DEF Less
<1>2. PICK n \in T : \A m \in T : ~ (<<m, n>> \in Less)
  BY NatLessThanWellFounded, WFMin, Zenon DEF Less
<1>3. \A m \in T : ~ (m < n)
  BY <1>1, <1>2
<1>4. \A m \in T : n <= m
  BY <1>3
<1> QED
  BY <1>4 DEF Min

LEMMA ImageIsNoLarger ==
    ASSUME NEW S, IsFiniteSet(S), NEW f, f = [x \in S |-> f[x]],
           NEW T, T = {f[x] : x \in S}
    PROVE  IsFiniteSet(T) /\ Cardinality(T) <= Cardinality(S)
<1>1. f \in [S -> T] /\ \A t \in T : \E s \in S : f[s] = t
  OBVIOUS
<1>2. f \in Surjection(S, T)
  BY <1>1 DEF Surjection
<1> QED
  BY <1>2, FS_Surjection

(* One of the two ends stays on the host, and has its container's name.     *)
LEMMA LinksAreFew ==
    ASSUME KernelInv
    PROVE  Cardinality(DOMAIN links) <= 2 * Cardinality(Containers)
<1> DEFINE H == {i \in DOMAIN links : IsHostEnd(links[i])}
           owner == [i \in H |-> CHOOSE c \in Containers : links[i].name = HostName[c]]
           other == [i \in H |-> links[i].peer]
           P == {other[i] : i \in H}
<1>1. IsFiniteSet(Containers) /\ Cardinality(Containers) \in Nat
  BY CniAssumption, FS_CardinalityType
<1>2. \A i \in H : owner[i] \in Containers /\ links[i].name = HostName[owner[i]]
  BY DEF IsHostEnd
<1>3. \A i, j \in H : owner[i] = owner[j] => i = j
  BY <1>2 DEF KernelInv, NamesAreUnique, IsHostEnd
<1>4. owner \in Injection(H, Containers)
  <2>1. owner \in [H -> Containers]
    BY <1>2
  <2>2. \A i, j \in H : owner[i] = owner[j] => i = j
    BY <1>3
  <2> HIDE DEF owner, H
  <2> QED
    BY <2>1, <2>2 DEF Injection, IsInjective
<1>5. IsFiniteSet(H) /\ Cardinality(H) <= Cardinality(Containers) /\ Cardinality(H) \in Nat
  <2> HIDE DEF owner, H
  <2>1. IsFiniteSet(H) /\ Cardinality(H) <= Cardinality(Containers)
    BY <1>1, <1>4, FS_Injection
  <2> QED
    BY <2>1, FS_CardinalityType
<1>6. IsFiniteSet(P) /\ Cardinality(P) <= Cardinality(H) /\ Cardinality(P) \in Nat
  <2>1. other = [i \in H |-> other[i]]
    OBVIOUS
  <2> HIDE DEF owner, H, other
  <2>2. IsFiniteSet(P) /\ Cardinality(P) <= Cardinality(H)
    BY <1>5, <2>1, ImageIsNoLarger
  <2> QED
    BY <2>2, FS_CardinalityType
<1>7. DOMAIN links \subseteq H \cup P
  BY DEF KernelInv, PairsHaveHostEnds, LinksArePaired
<1> HIDE DEF H, P, owner, other
<1>8. /\ IsFiniteSet(H \cup P)
      /\ Cardinality(H \cup P) = Cardinality(H) + Cardinality(P) - Cardinality(H \cap P)
  BY <1>5, <1>6, FS_Union
<1>9. Cardinality(H \cap P) \in Nat
  BY <1>5, FS_Intersection, FS_CardinalityType
<1>10. Cardinality(DOMAIN links) <= Cardinality(H \cup P)
  BY <1>7, <1>8, FS_Subset
<1>11. Cardinality(DOMAIN links) \in Nat
  BY FS_CardinalityType DEF KernelInv
<1> QED
  BY <1>1, <1>5, <1>6, <1>8, <1>9, <1>10, <1>11

LEMMA FreshIndicesAreFree ==
    ASSUME KernelInv, NEW f, f = FreshIndices
    PROVE  f[1] \notin DOMAIN links /\ f[2] \notin DOMAIN links /\ f[1] # f[2]
<1> DEFINE hosts == {proc[c].host.index : c \in Containers}
           peers == {proc[c].peer.index : c \in Containers}
           hostOf == [c \in Containers |-> proc[c].host.index]
           peerOf == [c \in Containers |-> proc[c].peer.index]
           used == DOMAIN links \cup hosts \cup peers
           n == Cardinality(Containers)
           range == 1 .. 4 * n + 2
           free == range \ used
<1>1. IsFiniteSet(Containers) /\ n \in Nat
  BY CniAssumption, FS_CardinalityType
<1>2. /\ IsFiniteSet(hosts) /\ Cardinality(hosts) <= n
      /\ IsFiniteSet(peers) /\ Cardinality(peers) <= n
  <2>1. hosts = {hostOf[c] : c \in Containers} /\ hostOf = [c \in Containers |-> hostOf[c]]
    OBVIOUS
  <2>2. peers = {peerOf[c] : c \in Containers} /\ peerOf = [c \in Containers |-> peerOf[c]]
    OBVIOUS
  <2> HIDE DEF hosts, peers, hostOf, peerOf
  <2> QED
    BY <1>1, <2>1, <2>2, ImageIsNoLarger
<1>3. /\ IsFiniteSet(DOMAIN links) /\ Cardinality(DOMAIN links) <= 2 * n
  BY LinksAreFew DEF KernelInv
<1>4. f = <<Min(free), Min(free \ {Min(free)})>>
  BY DEF FreshIndices
<1> HIDE DEF hosts, peers, n
<1>5. IsFiniteSet(used) /\ Cardinality(used) <= 4 * n
  <2>1. /\ Cardinality(DOMAIN links) \in Nat /\ Cardinality(hosts) \in Nat
        /\ Cardinality(peers) \in Nat
        /\ Cardinality(DOMAIN links \cap hosts) \in Nat
        /\ Cardinality((DOMAIN links \cup hosts) \cap peers) \in Nat
    BY <1>2, <1>3, FS_CardinalityType, FS_Intersection
  <2>2. /\ IsFiniteSet(DOMAIN links \cup hosts)
        /\ Cardinality(DOMAIN links \cup hosts)
             = Cardinality(DOMAIN links) + Cardinality(hosts)
               - Cardinality(DOMAIN links \cap hosts)
    BY <1>2, <1>3, FS_Union
  <2>3. /\ IsFiniteSet(used)
        /\ Cardinality(used) = Cardinality(DOMAIN links \cup hosts) + Cardinality(peers)
                               - Cardinality((DOMAIN links \cup hosts) \cap peers)
    BY <1>2, <2>2, FS_Union
  <2> QED
    BY <1>1, <1>2, <1>3, <2>1, <2>2, <2>3
<1> HIDE DEF used
<1>6. IsFiniteSet(range) /\ Cardinality(range) = 4 * n + 2
  <2>1. 4 * n + 2 \in Nat
    BY <1>1
  <2> QED
    BY <2>1, FS_Interval
<1>7. Cardinality(range \cap used) \in Nat /\ Cardinality(range \cap used) <= 4 * n
  <2>1. Cardinality(range \cap used) <= Cardinality(used)
    BY <1>5, FS_Intersection
  <2>2. Cardinality(range \cap used) \in Nat /\ Cardinality(used) \in Nat
    BY <1>5, FS_Intersection, FS_CardinalityType
  <2> QED
    BY <1>1, <1>5, <2>1, <2>2
<1>8. IsFiniteSet(free) /\ Cardinality(free) >= 2
  <2> HIDE DEF range
  <2>1. /\ IsFiniteSet(free)
        /\ Cardinality(free) = Cardinality(range) - Cardinality(range \cap used)
    BY <1>6, FS_Difference
  <2> QED
    BY <1>1, <1>6, <1>7, <2>1
<1>9. free \in SUBSET Nat
  BY <1>1
<1> HIDE DEF range, free
<1>10. free # {}
  BY <1>8, FS_EmptySet
<1>11. Min(free) \in free
  BY <1>9, <1>10, LeastNat
<1> DEFINE rest == free \ {Min(free)}
<1>12. IsFiniteSet(rest) /\ Cardinality(rest) = Cardinality(free) - 1
  BY <1>8, <1>11, FS_RemoveElement
<1>13. Cardinality(free) \in Nat /\ rest \in SUBSET Nat
  BY <1>8, <1>9, FS_CardinalityType
<1> HIDE DEF rest
<1>14. rest # {}
  BY <1>8, <1>12, <1>13, FS_EmptySet
<1>15. Min(rest) \in rest
  BY <1>13, <1>14, LeastNat
<1>16. f[1] = Min(free) /\ f[2] = Min(rest)
  BY <1>4 DEF rest
<1>17. \A i \in free : i \notin DOMAIN links
  BY DEF free, used
<1> QED
  BY <1>11, <1>15, <1>16, <1>17 DEF rest

-----------------------------------------------------------------------------
(* What a container's process does leaves the other containers' links       *)
(* alone.                                                                   *)

(* The links a step of c may touch: those with an end in its namespace and  *)
(* those its process has made.                                              *)
Own(c) ==
    {k \in DOMAIN links :
        \/ links[k].ns = c
        \/ links[links[k].peer].ns = c
        \/ pc[c] \in VethSteps /\ k \in {proc[c].host.index, proc[c].peer.index}}

LEMMA VethIsNotOthers ==
    ASSUME LinkInv, NEW c \in Containers, NEW d \in Containers, c # d,
           pc[d] \in VethSteps
    PROVE  proc[d].host.index \notin Own(c) /\ proc[d].peer.index \notin Own(c)
<1> DEFINE h == proc[d].host.index
           p == proc[d].peer.index
<1>1. VethIs(d, h, p)
  BY DEF LinkInv, StepOf, HasVeth
<1> HIDE DEF h, p
<1>2. /\ h \in DOMAIN links /\ p \in DOMAIN links
      /\ links[h].peer = p /\ links[p].peer = h
      /\ links[h].ns = HostNs /\ links[h].name = HostName[d]
      /\ links[p].ns # c /\ links[h].ns # c
  BY <1>1, CniAssumption DEF VethIs, EndsAre
<1>3. ASSUME pc[c] \in VethSteps
      PROVE  {h, p} \cap {proc[c].host.index, proc[c].peer.index} = {}
  <2>1. VethIs(c, proc[c].host.index, proc[c].peer.index)
    BY <1>3 DEF LinkInv, StepOf, HasVeth
  <2>2. /\ links[proc[c].host.index].peer = proc[c].peer.index
        /\ links[proc[c].peer.index].peer = proc[c].host.index
        /\ links[proc[c].host.index].name = HostName[c]
    BY <2>1 DEF VethIs, EndsAre
  <2>3. proc[c].host.index # h
    BY <1>2, <2>2, CniAssumption
  <2>4. proc[c].host.index # p /\ h # proc[c].peer.index
    BY <1>3 DEF LinkInv, VethsAreApart, h, p
  <2> QED
    BY <1>2, <2>2, <2>3, <2>4
<1>4. h \notin Own(c) /\ p \notin Own(c)
  BY <1>2, <1>3 DEF Own
<1> QED
  BY <1>4 DEF h, p

LEMMA ConfiguredIsNotOthers ==
    ASSUME LinkInv, NEW c \in Containers, NEW d \in Containers, c # d,
           NEW i, NEW j, ConfiguredIs(d, i, j)
    PROVE  i \notin Own(c) /\ j \notin Own(c)
<1>1. /\ i \in DOMAIN links /\ j \in DOMAIN links
      /\ links[i].ns = d /\ links[j].ns = HostNs
      /\ links[i].peer = j /\ links[j].peer = i
  BY DEF ConfiguredIs, LinkInv, KernelInv, LinksArePaired
<1>2. ASSUME pc[c] \in VethSteps
      PROVE  {i, j} \cap {proc[c].host.index, proc[c].peer.index} = {}
  <2>1. VethIs(c, proc[c].host.index, proc[c].peer.index)
    BY <1>2 DEF LinkInv, StepOf, HasVeth
  <2>2. /\ links[proc[c].host.index].peer = proc[c].peer.index
        /\ links[proc[c].peer.index].peer = proc[c].host.index
        /\ links[proc[c].host.index].ns = HostNs
        /\ links[proc[c].peer.index].ns \in {HostNs, c}
    BY <2>1 DEF VethIs, EndsAre
  <2> QED
    BY <1>1, <2>2, CniAssumption
<1> QED
  BY <1>1, <1>2, CniAssumption DEF Own

(* A process that did not move, whose links are as they were.               *)
LEMMA VethStays ==
    ASSUME NEW d \in Containers, HasVeth(d), pc'[d] = pc[d], proc'[d] = proc[d],
           proc[d].host.index \in DOMAIN links', proc[d].peer.index \in DOMAIN links',
           links'[proc[d].host.index] = links[proc[d].host.index],
           links'[proc[d].peer.index] = links[proc[d].peer.index]
    PROVE  HasVeth(d)'
<1>1. VethIs(d, proc[d].host.index, proc[d].peer.index)
  BY DEF HasVeth
<1>2. VethIs(d, proc[d].host.index, proc[d].peer.index)'
  BY <1>1 DEF VethIs
<1> QED
  BY <1>2 DEF HasVeth

LEMMA ConfiguredStays ==
    ASSUME NEW d \in Containers, NEW i, NEW j, ConfiguredIs(d, i, j), result'[d] = result[d],
           i \in DOMAIN links', j \in DOMAIN links',
           links'[i] = links[i], links'[j] = links[j]
    PROVE  ConfiguredIs(d, i, j)'
BY DEF ConfiguredIs

(* A step of c that changes its own variables and its own links.            *)
StepsAside(c) ==
    /\ \A d \in Containers \ {c} :
          pc'[d] = pc[d] /\ proc'[d] = proc[d] /\ op'[d] = op[d] /\ result'[d] = result[d]
    /\ added' \subseteq added \cup {c}
    /\ \A k \in DOMAIN links \ Own(c) : k \in DOMAIN links' /\ links'[k] = links[k]

LEMMA OthersStay ==
    ASSUME LinkInv, NEW c \in Containers, StepsAside(c), NEW d \in Containers, d # c
    PROVE  StepOf(d)' /\ AddedOf(d)'
<1>1. pc'[d] = pc[d] /\ proc'[d] = proc[d] /\ op'[d] = op[d] /\ result'[d] = result[d]
  BY DEF StepsAside
<1>2. ASSUME pc[d] \in VethSteps PROVE HasVeth(d)'
  <2>1. proc[d].host.index \notin Own(c) /\ proc[d].peer.index \notin Own(c)
    BY <1>2, VethIsNotOthers
  <2>2. HasVeth(d)
    BY <1>2 DEF LinkInv, StepOf
  <2>3. proc[d].host.index \in DOMAIN links /\ proc[d].peer.index \in DOMAIN links
    BY <2>2 DEF HasVeth, VethIs
  <2> QED
    BY <1>1, <2>1, <2>2, <2>3, VethStays DEF StepsAside
<1>3. StepOf(d)'
  BY <1>1, <1>2 DEF LinkInv, StepOf
<1>4. ASSUME d \in added' PROVE \E i, j \in DOMAIN links' : ConfiguredIs(d, i, j)'
  <2>1. d \in added
    BY <1>4 DEF StepsAside
  <2>2. PICK i \in DOMAIN links, j \in DOMAIN links : ConfiguredIs(d, i, j)
    BY <2>1 DEF LinkInv, AddedOf
  <2>3. i \notin Own(c) /\ j \notin Own(c)
    BY <2>2, ConfiguredIsNotOthers
  <2>4. i \in DOMAIN links' /\ j \in DOMAIN links' /\ links'[i] = links[i] /\ links'[j] = links[j]
    BY <2>3 DEF StepsAside
  <2> QED
    BY <1>1, <2>2, <2>4, ConfiguredStays
<1>5. AddedOf(d)'
  BY <1>1, <1>4 DEF LinkInv, AddedOf, StepsAside
<1> QED
  BY <1>3, <1>5

(* So such a step only has to keep the kernel's links in shape and to leave *)
(* c itself as it should be.                                                *)
LEMMA StepKeepsLinks ==
    ASSUME LinkInv, NEW c \in Containers, StepsAside(c), PodShape', KernelInv',
           StepOf(c)', AddedOf(c)',
           pc'[c] \in VethSteps =>
             \/ /\ pc[c] \in VethSteps
                /\ proc'[c].host.index = proc[c].host.index
                /\ proc'[c].peer.index = proc[c].peer.index
             \/ /\ proc'[c].host.index \notin DOMAIN links
                /\ proc'[c].peer.index \notin DOMAIN links
    PROVE  LinkInv'
<1>1. \A d \in Containers : StepOf(d)' /\ AddedOf(d)'
  BY OthersStay
<1>2. ASSUME NEW d \in Containers, d # c, pc'[c] \in VethSteps, pc'[d] \in VethSteps
      PROVE  /\ proc'[c].host.index # proc'[d].peer.index
             /\ proc'[d].host.index # proc'[c].peer.index
  <2>1. pc[d] \in VethSteps /\ proc'[d] = proc[d]
    BY <1>2 DEF StepsAside
  <2>2. proc[d].host.index \in DOMAIN links /\ proc[d].peer.index \in DOMAIN links
    BY <2>1 DEF LinkInv, StepOf, HasVeth, VethIs
  <2> QED
    BY <1>2, <2>1, <2>2 DEF LinkInv, VethsAreApart
<1>3. VethsAreApart'
  <2>1. ASSUME NEW a \in Containers, NEW b \in Containers, a # b,
               pc'[a] \in VethSteps, pc'[b] \in VethSteps
        PROVE  proc'[a].host.index # proc'[b].peer.index
    <3>1. CASE a = c \/ b = c
      BY <1>2, <2>1, <3>1
    <3>2. CASE a # c /\ b # c
      BY <2>1, <3>2 DEF StepsAside, LinkInv, VethsAreApart
    <3> QED
      BY <3>1, <3>2
  <2> QED
    BY <2>1 DEF VethsAreApart
<1> QED
  BY <1>1, <1>3 DEF LinkInv

-----------------------------------------------------------------------------
(* What a step of c does to its process.                                    *)
OnlyProcess(c) ==
    /\ ProcShape' /\ DOMAIN pc' = Containers /\ DOMAIN op' = Containers
    /\ \A d \in Containers \ {c} : pc'[d] = pc[d] /\ proc'[d] = proc[d] /\ op'[d] = op[d]

LEMMA EndOnlyProcess ==
    ASSUME PodShape, NEW c \in Containers, End(c)
    PROVE  OnlyProcess(c) /\ pc'[c] = "idle" /\ op'[c] = None /\ proc'[c].lease = {}
<1>1. ProcShape' /\ proc'[c].lease = {}
  BY EndIs DEF PodShape, Shape, End, LeaseEnds
<1> QED
  BY <1>1 DEF PodShape, Shape, ProcShape, End, OnlyProcess

LEMMA FailOnlyProcess ==
    ASSUME PodShape, NEW c \in Containers, Fail(c)
    PROVE  /\ OnlyProcess(c)
           /\ IF proc[c].lease = {}
              THEN pc'[c] = "idle" /\ op'[c] = None /\ proc'[c].lease = {}
              ELSE pc'[c] = "release" /\ op'[c] = op[c]
<1>1. ProcShape'
  BY FailIs DEF PodShape, Shape
<1>2. CASE proc[c].lease = {}
  <2>1. End(c)
    BY <1>2 DEF Fail
  <2> QED
    BY <1>2, <2>1, EndOnlyProcess
<1>3. CASE proc[c].lease # {}
  BY <1>1, <1>3 DEF PodShape, Shape, ProcShape, Fail, OnlyProcess
<1> QED
  BY <1>2, <1>3

(* A step in which c touches no link and is, after it, at none of the steps *)
(* with a lease of its own for a veth.                                      *)
LEMMA QuietKeepsLinks ==
    ASSUME LinkInv, NEW c \in Containers, OnlyProcess(c), UNCHANGED <<links, result>>,
           added' \subseteq added, pc'[c] \notin VethSteps \cup {"veth"},
           op'[c] = None => pc'[c] = "idle",
           c \in added' => pc'[c] \in IdleSteps /\ proc'[c].lease = {}
    PROVE  LinkInv'
<1>1. PodShape'
  BY DEF LinkInv, PodShape, Shape, OnlyProcess
<1>2. KernelInv'
  BY SameKernel DEF LinkInv
<1>3. StepsAside(c)
  BY DEF OnlyProcess, StepsAside
<1>4. StepOf(c)'
  BY DEF StepOf
<1>5. AddedOf(c)'
  <2>1. ASSUME c \in added' PROVE \E i, j \in DOMAIN links' : ConfiguredIs(c, i, j)'
    <3>1. PICK i \in DOMAIN links, j \in DOMAIN links : ConfiguredIs(c, i, j)
      BY <2>1 DEF LinkInv, AddedOf
    <3> QED
      BY <3>1, ConfiguredStays
  <2> QED
    BY <2>1 DEF AddedOf
<1> QED
  BY <1>1, <1>2, <1>3, <1>4, <1>5, StepKeepsLinks

LEMMA EndKeepsLinks ==
    ASSUME LinkInv, NEW c \in Containers, End(c), UNCHANGED <<links, result>>,
           added' \subseteq added
    PROVE  LinkInv'
<1>1. OnlyProcess(c) /\ pc'[c] = "idle" /\ op'[c] = None /\ proc'[c].lease = {}
  BY EndOnlyProcess DEF LinkInv
<1>2. "idle" \in IdleSteps /\ "idle" \notin VethSteps \cup {"veth"}
  BY DEF IdleSteps, VethSteps
<1> QED
  BY <1>1, <1>2, QuietKeepsLinks

LEMMA FailKeepsLinks ==
    ASSUME LinkInv, NEW c \in Containers, Fail(c), pc[c] # "idle",
           UNCHANGED <<links, result>>, added' \subseteq added
    PROVE  LinkInv'
<1>1. /\ OnlyProcess(c)
      /\ IF proc[c].lease = {}
         THEN pc'[c] = "idle" /\ op'[c] = None /\ proc'[c].lease = {}
         ELSE pc'[c] = "release" /\ op'[c] = op[c]
  BY FailOnlyProcess DEF LinkInv
<1>2. "idle" \in IdleSteps /\ {"idle", "release"} \cap (VethSteps \cup {"veth"}) = {}
  BY DEF IdleSteps, VethSteps
<1>3. /\ op[c] = None => pc[c] = "idle"
      /\ c \in added => proc[c].lease = {}
  BY DEF LinkInv, StepOf, AddedOf
<1> QED
  BY <1>1, <1>2, <1>3, QuietKeepsLinks

(* Nothing changes that the invariant is about.                             *)
LEMMA StillKeepsLinks ==
    ASSUME LinkInv, UNCHANGED <<links, result, op, proc>>, added' \subseteq added,
           DOMAIN pc' = Containers, \A d \in Containers : pc'[d] = pc[d]
    PROVE  LinkInv'
<1>1. PodShape' /\ KernelInv'
  BY SameKernel DEF LinkInv, PodShape, Shape, ProcShape
<1>2. VethsAreApart'
  BY DEF LinkInv, VethsAreApart
<1>3. ASSUME NEW c \in Containers PROVE StepOf(c)' /\ AddedOf(c)'
  <2>1. ASSUME pc[c] \in VethSteps PROVE HasVeth(c)'
    <3>1. HasVeth(c)
      BY <2>1 DEF LinkInv, StepOf
    <3>2. proc[c].host.index \in DOMAIN links /\ proc[c].peer.index \in DOMAIN links
      BY <3>1 DEF HasVeth, VethIs
    <3> QED
      BY <3>1, <3>2, VethStays
  <2>2. StepOf(c)'
    BY <2>1 DEF LinkInv, StepOf
  <2>3. ASSUME c \in added' PROVE \E i, j \in DOMAIN links' : ConfiguredIs(c, i, j)'
    <3>1. PICK i \in DOMAIN links, j \in DOMAIN links : ConfiguredIs(c, i, j)
      BY <2>3 DEF LinkInv, AddedOf
    <3> QED
      BY <3>1, ConfiguredStays
  <2>4. AddedOf(c)'
    BY <2>3 DEF LinkInv, AddedOf
  <2> QED
    BY <2>2, <2>4
<1> QED
  BY <1>1, <1>2, <1>3 DEF LinkInv

-----------------------------------------------------------------------------
(* A step of ADD from the veth on, in which c changes nothing but the two   *)
(* ends of its veth.                                                        *)
LEMMA AdvanceKeepsLinks ==
    ASSUME LinkInv, NEW c \in Containers, OnlyProcess(c), UNCHANGED <<op, added, result>>,
           pc[c] \in VethSteps, pc'[c] \in VethSteps, KernelInv',
           NEW h, h = proc[c].host.index, NEW p, p = proc[c].peer.index,
           DOMAIN links' = DOMAIN links,
           \A k \in DOMAIN links \ {h, p} : links'[k] = links[k],
           links'[h].peer = p, links'[p].peer = h,
           proc'[c].host = proc[c].host, proc'[c].lease = proc[c].lease,
           proc'[c].peer = [index |-> p, name |-> proc'[c].peer.name,
                            ns |-> IF pc'[c] = "move" THEN HostNs ELSE c],
           EndsAre(c, pc'[c], proc[c].lease, proc'[c].todo, links'[h], links'[p])
    PROVE  LinkInv'
<1>1. PodShape'
  BY DEF LinkInv, PodShape, Shape, OnlyProcess
<1>2. HasVeth(c)
  BY DEF LinkInv, StepOf
<1>3. h \in DOMAIN links /\ p \in DOMAIN links
  BY <1>2 DEF HasVeth, VethIs
<1>4. StepsAside(c)
  <2>1. h \in Own(c) /\ p \in Own(c)
    BY <1>3 DEF Own
  <2> QED
    BY <2>1 DEF OnlyProcess, StepsAside
<1>5. proc'[c].host.index = h /\ proc'[c].peer.index = p
  OBVIOUS
<1>6. VethIs(c, h, p)'
  BY <1>3 DEF VethIs
<1>7. HasVeth(c)'
  BY <1>2, <1>5, <1>6 DEF HasVeth
<1>8. StepOf(c)'
  <2>1. op[c] # None
    <3>1. "idle" \notin VethSteps
      BY DEF VethSteps
    <3> QED
      BY <3>1 DEF LinkInv, StepOf
  <2>2. \E a : proc'[c].lease = {a}
    BY DEF LinkInv, StepOf
  <2> QED
    BY <1>7, <2>1, <2>2 DEF StepOf
<1>9. c \notin added
  <2>1. \A s \in VethSteps : s \notin IdleSteps
    BY DEF VethSteps, IdleSteps
  <2> QED
    BY <2>1 DEF LinkInv, AddedOf
<1>10. AddedOf(c)'
  BY <1>9 DEF AddedOf
<1> QED
  BY <1>1, <1>4, <1>5, <1>8, <1>10, StepKeepsLinks

(* What the process's two links are when a step of its ADD begins.          *)
LEMMA VethAtStep ==
    ASSUME LinkInv, NEW c \in Containers, pc[c] \in VethSteps,
           NEW h, h = proc[c].host.index, NEW p, p = proc[c].peer.index
    PROVE  /\ h \in DOMAIN links /\ p \in DOMAIN links /\ h # p
           /\ links[h].peer = p /\ links[p].peer = h
           /\ IsLink(links[h]) /\ IsLink(links[p])
           /\ EndsAre(c, pc[c], proc[c].lease, proc[c].todo, links[h], links[p])
<1>1. HasVeth(c)
  BY DEF LinkInv, StepOf
<1>2. VethIs(c, h, p)
  BY <1>1 DEF HasVeth
<1>3. h \in DOMAIN links /\ p \in DOMAIN links /\ links[h].peer = p /\ links[p].peer = h
      /\ EndsAre(c, pc[c], proc[c].lease, proc[c].todo, links[h], links[p])
  BY <1>2 DEF VethIs
<1>4. h # p /\ IsLink(links[h]) /\ IsLink(links[p])
  BY <1>3 DEF LinkInv, KernelInv, LinksArePaired, LinkShape
<1> QED
  BY <1>3, <1>4

LEMMA HandlesAtStep ==
    ASSUME LinkInv, NEW c \in Containers, pc[c] \in VethSteps
    PROVE  /\ proc[c].host.ns = HostNs /\ proc[c].host.name = HostName[c]
           /\ proc[c].peer.ns = IF pc[c] = "move" THEN HostNs ELSE c
           /\ proc[c].peer = [index |-> proc[c].peer.index, name |-> proc[c].peer.name,
                              ns |-> IF pc[c] = "move" THEN HostNs ELSE c]
<1> DEFINE h == proc[c].host.index
           p == proc[c].peer.index
           n == proc[c].peer.name
<1>1. /\ proc[c].host = [index |-> h, name |-> HostName[c], ns |-> HostNs]
      /\ proc[c].peer = [index |-> p, name |-> n,
                         ns |-> IF pc[c] = "move" THEN HostNs ELSE c]
  BY DEF LinkInv, StepOf, HasVeth
<1> HIDE DEF h, p, n
<1>2. /\ proc[c].host.ns = HostNs /\ proc[c].host.name = HostName[c]
      /\ proc[c].peer.ns = IF pc[c] = "move" THEN HostNs ELSE c
  BY <1>1
<1> QED
  BY <1>1, <1>2 DEF p, n

(* One of the two is changed.                                               *)
LEMMA EditAdvances ==
    ASSUME LinkInv, NEW c \in Containers, OnlyProcess(c), UNCHANGED <<op, added, result>>,
           pc[c] \in VethSteps, pc'[c] \in VethSteps,
           NEW h, h = proc[c].host.index, NEW p, p = proc[c].peer.index,
           NEW i \in {h, p}, NEW x, IsLink(x), x.peer = links[i].peer,
           \/ x.ns = links[i].ns /\ x.name = links[i].name
           \/ /\ i = p
              /\ \A j \in DOMAIN links \ {i} : ~(links[j].ns = x.ns /\ links[j].name = x.name),
           links' = [links EXCEPT ![i] = x],
           proc'[c].host = proc[c].host, proc'[c].lease = proc[c].lease,
           proc'[c].peer = [index |-> p, name |-> proc'[c].peer.name,
                            ns |-> IF pc'[c] = "move" THEN HostNs ELSE c],
           EndsAre(c, pc'[c], proc[c].lease, proc'[c].todo,
                   IF i = h THEN x ELSE links[h], IF i = p THEN x ELSE links[p])
    PROVE  LinkInv'
<1>1. /\ h \in DOMAIN links /\ p \in DOMAIN links /\ h # p
      /\ links[h].peer = p /\ links[p].peer = h
      /\ EndsAre(c, pc[c], proc[c].lease, proc[c].todo, links[h], links[p])
  BY VethAtStep
<1>2. IsHostEnd(links[h])
  BY <1>1 DEF EndsAre, IsHostEnd
<1>3. KernelInv'
  <2>1. KernelInv /\ i \in DOMAIN links
    BY <1>1 DEF LinkInv
  <2>2. CASE x.ns = links[i].ns /\ x.name = links[i].name
    BY <2>1, <2>2, EditKeepsKernel
  <2>3. CASE /\ i = p
             /\ \A j \in DOMAIN links \ {i} : ~(links[j].ns = x.ns /\ links[j].name = x.name)
    <3>1. IsHostEnd(links[links[i].peer])
      BY <1>1, <1>2, <2>3
    <3> QED
      BY <2>1, <2>3, <3>1, EditKeepsKernel
  <2> QED
    BY <2>2, <2>3
<1>4. /\ DOMAIN links' = DOMAIN links /\ links'[i] = x
      /\ \A k \in DOMAIN links \ {i} : links'[k] = links[k]
  BY <1>1
<1>5. /\ links'[h] = IF i = h THEN x ELSE links[h]
      /\ links'[p] = IF i = p THEN x ELSE links[p]
  BY <1>1, <1>4
<1>6. links'[h].peer = p /\ links'[p].peer = h
  BY <1>1, <1>4
<1>7. EndsAre(c, pc'[c], proc[c].lease, proc'[c].todo, links'[h], links'[p])
  BY <1>5
<1> QED
  BY <1>1, <1>3, <1>4, <1>6, <1>7, AdvanceKeepsLinks

-----------------------------------------------------------------------------
(* What each request leaves of the link its handle reaches.                 *)

Same(x, l) == IsLink(x) /\ x.ns = l.ns /\ x.name = l.name /\ x.peer = l.peer

(* Nothing but whether it is up.                                            *)
LEMMA SetUpIs ==
    ASSUME NEW h, links' \in SetUp(links, h), NEW l, l = links[h.index], IsLink(l)
    PROVE  \E x : /\ links' = [links EXCEPT ![h.index] = x] /\ Same(x, l) /\ x.up
                  /\ x.mtu = l.mtu /\ x.sysctl = l.sysctl
                  /\ x.addrs = l.addrs /\ x.routes = l.routes
<1> DEFINE x == [l EXCEPT !.up = TRUE]
<1>1. links' = [links EXCEPT ![h.index] = x]
  BY DEF SetUp, Reach, LinkSetUpImpl
<1>2. /\ Same(x, l) /\ x.up /\ x.mtu = l.mtu /\ x.sysctl = l.sysctl
      /\ x.addrs = l.addrs /\ x.routes = l.routes
  BY DEF Same, IsLink, Fields
<1> QED
  BY <1>1, <1>2

LEMMA SetMtuIs ==
    ASSUME NEW h, NEW mtu, links' \in SetMtu(links, h, mtu), NEW l, l = links[h.index], IsLink(l)
    PROVE  \E x : /\ links' = [links EXCEPT ![h.index] = x] /\ Same(x, l) /\ x.mtu = mtu
                  /\ x.up = l.up /\ x.sysctl = l.sysctl
                  /\ x.addrs = l.addrs /\ x.routes = l.routes
<1> DEFINE x == [l EXCEPT !.mtu = mtu]
<1>1. links' = [links EXCEPT ![h.index] = x]
  BY DEF SetMtu, Reach, LinkSetMtuImpl
<1>2. /\ Same(x, l) /\ x.mtu = mtu /\ x.up = l.up /\ x.sysctl = l.sysctl
      /\ x.addrs = l.addrs /\ x.routes = l.routes
  BY DEF Same, IsLink, Fields
<1> QED
  BY <1>1, <1>2

(* The setting is found by the handle's name, which nobody else has.        *)
LEMMA SetRpFilterIs ==
    ASSUME NamesAreUnique, NEW h, NEW value, links' \in SetRpFilter(links, h, value),
           h.index \in DOMAIN links, NEW l, l = links[h.index], IsLink(l),
           l.ns = h.ns, l.name = h.name
    PROVE  \E x : /\ links' = [links EXCEPT ![h.index] = x] /\ Same(x, l)
                  /\ x.sysctl["rp_filter"] = value /\ x.mtu = l.mtu /\ x.up = l.up
                  /\ x.addrs = l.addrs /\ x.routes = l.routes
<1> DEFINE x == [l EXCEPT !.sysctl["rp_filter"] = value]
<1>1. PICK i \in Named(links, h.ns, h.name) :
         links' = [links EXCEPT ![i].sysctl["rp_filter"] = value]
  BY DEF SetRpFilter, SysctlWrite
<1>2. i = h.index
  BY <1>1 DEF Named, NamesAreUnique
<1>3. links' = [links EXCEPT ![h.index] = x]
  BY <1>1, <1>2
<1>4. /\ Same(x, l) /\ x.sysctl["rp_filter"] = value /\ x.mtu = l.mtu /\ x.up = l.up
      /\ x.addrs = l.addrs /\ x.routes = l.routes
  BY DEF Same, IsLink, Fields, Sysctls
<1> QED
  BY <1>3, <1>4

(* A link that moves has lost its addresses and routes.                     *)
LEMMA SetNsIs ==
    ASSUME NEW h, NEW ns, links' \in SetNs(links, h, ns), NEW l, l = links[h.index], IsLink(l)
    PROVE  \E x : /\ links' = [links EXCEPT ![h.index] = x]
                  /\ IsLink(x) /\ x.ns = ns /\ x.name = l.name /\ x.peer = l.peer
                  /\ x.addrs = {} /\ x.routes = {}
                  /\ Named(links, ns, x.name) = {}
<1> DEFINE x == [l EXCEPT !.ns = ns, !.up = FALSE, !.addrs = {}, !.routes = {}]
<1>1. links' = [links EXCEPT ![h.index] = x] /\ Named(links, ns, l.name) = {}
  <2>1. PICK i \in Reach(links, h) : links' \in LinkSetNsImpl(links, i, ns)
    BY DEF SetNs
  <2>2. i = h.index /\ links[i] = l
    BY <2>1 DEF Reach
  <2>3. PICK target \in {t \in {ns} : Named(links, t, links[i].name) = {}} :
           links' = [links EXCEPT ![i] = [@ EXCEPT !.ns = target, !.up = FALSE,
                                                   !.addrs = {}, !.routes = {}]]
    BY <2>1, Zenon DEF LinkSetNsImpl
  <2>4. target = ns /\ Named(links, ns, l.name) = {}
    BY <2>2, <2>3
  <2>5. links' = [links EXCEPT ![i] = [l EXCEPT !.ns = target, !.up = FALSE,
                                                !.addrs = {}, !.routes = {}]]
    BY <2>2, <2>3, Zenon
  <2> QED
    BY <2>2, <2>4, <2>5, Zenon
<1>2. IsLink(x) /\ x.ns = ns /\ x.name = l.name /\ x.peer = l.peer /\ x.addrs = {} /\ x.routes = {}
  BY DEF IsLink, Fields
<1> QED
  BY <1>1, <1>2

LEMMA RenameIs ==
    ASSUME NEW h, NEW name, links' \in Rename(links, h, name), NEW l, l = links[h.index],
           IsLink(l)
    PROVE  \E x : /\ links' = [links EXCEPT ![h.index] = x]
                  /\ IsLink(x) /\ x.ns = l.ns /\ x.name = name /\ x.peer = l.peer
                  /\ x.addrs = l.addrs /\ x.routes = l.routes
                  /\ Named(links, x.ns, name) \subseteq {h.index}
<1> DEFINE x == [l EXCEPT !.name = name]
<1>1. /\ links' = [links EXCEPT ![h.index] = x]
      /\ Named(links, l.ns, name) \subseteq {h.index}
  BY DEF Rename, Reach, LinkRenameImpl
<1>2. /\ IsLink(x) /\ x.ns = l.ns /\ x.name = name /\ x.peer = l.peer
      /\ x.addrs = l.addrs /\ x.routes = l.routes
  BY DEF IsLink, Fields
<1> QED
  BY <1>1, <1>2

LEMMA AddAddrIs ==
    ASSUME NEW h, NEW a, links' \in AddAddr(links, h, a), NEW l, l = links[h.index], IsLink(l)
    PROVE  \E x : /\ links' = [links EXCEPT ![h.index] = x] /\ Same(x, l)
                  /\ x.up = l.up /\ x.mtu = l.mtu
                  /\ x.addrs = l.addrs \cup {a} /\ x.routes = l.routes
<1> DEFINE x == [l EXCEPT !.addrs = l.addrs \cup {a}]
<1>1. links' = [links EXCEPT ![h.index] = x]
  BY DEF AddAddr, Reach, LinkAddAddrImpl
<1>2. /\ Same(x, l) /\ x.up = l.up /\ x.mtu = l.mtu
      /\ x.addrs = l.addrs \cup {a} /\ x.routes = l.routes
  BY DEF Same, IsLink, Fields
<1> QED
  BY <1>1, <1>2

(* The route of a destination takes the place of an earlier one.            *)
LEMMA AddRouteIs ==
    ASSUME NEW h, NEW r, links' \in AddRoute(links, h, r), NEW l, l = links[h.index], IsLink(l)
    PROVE  \E x : /\ links' = [links EXCEPT ![h.index] = x] /\ Same(x, l)
                  /\ x.up = l.up /\ x.mtu = l.mtu /\ x.addrs = l.addrs
                  /\ Destinations(x.routes) = Destinations(l.routes) \cup {r.prefix}
<1> DEFINE routes == {q \in l.routes : q.prefix # r.prefix} \cup {r}
           x == [l EXCEPT !.routes = routes]
<1>1. links' = [links EXCEPT ![h.index] = x]
  BY DEF AddRoute, Reach, LinkAddRouteImpl
<1>2. Destinations(routes) = Destinations(l.routes) \cup {r.prefix}
  BY DEF Destinations
<1> HIDE DEF routes
<1>3. /\ Same(x, l) /\ x.up = l.up /\ x.mtu = l.mtu /\ x.addrs = l.addrs
      /\ x.routes = routes
  BY DEF Same, IsLink, Fields
<1> QED
  BY <1>1, <1>2, <1>3

-----------------------------------------------------------------------------
(* The routes of a pod: sorting them loses none.                            *)

LEMMA SortReorders ==
    ASSUME NEW r
    PROVE  \E q : /\ SortNarrowestFirst(r) = [i \in DOMAIN r |-> r[q[i]]]
                  /\ (\E p \in Bijection(DOMAIN r, DOMAIN r) :
                         \A i, j \in DOMAIN r : i <= j =>
                             \/ r[p[i]].len > r[p[j]].len
                             \/ r[p[i]].len = r[p[j]].len /\ p[i] <= p[j])
                     => q \in Bijection(DOMAIN r, DOMAIN r)
<1> DEFINE Before(i, j) == \/ r[i].len > r[j].len
                           \/ r[i].len = r[j].len /\ i <= j
           Sorts(p) == \A i, j \in DOMAIN r : i <= j => Before(p[i], p[j])
           order == CHOOSE p \in Bijection(DOMAIN r, DOMAIN r) : Sorts(p)
<1>1. SortNarrowestFirst(r) = [i \in DOMAIN r |-> r[order[i]]]
  BY Zenon DEF SortNarrowestFirst
<1>2. (\E p \in Bijection(DOMAIN r, DOMAIN r) : Sorts(p))
        => order \in Bijection(DOMAIN r, DOMAIN r)
  OBVIOUS
<1> HIDE DEF order
<1> QED
  BY <1>1, <1>2

LEMMA RoutesAreSorted ==
    ASSUME NEW t, t = SortNarrowestFirst(Ipv4Routes(Gateway, RouteMtu))
    PROVE  t \in Seq(PodRoutes) /\ {t[k].prefix : k \in DOMAIN t} = {Gateway, Everything}
<1> DEFINE r == Ipv4Routes(Gateway, RouteMtu)
           same == [i \in 1 .. 2 |-> i]
<1>1. /\ DOMAIN r = 1 .. 2 /\ r[1].len = 32 /\ r[2].len = 0
      /\ r[1].prefix = Gateway /\ r[2].prefix = Everything
      /\ \A i \in 1 .. 2 : r[i] \in PodRoutes
  BY DEF Ipv4Routes, Route, PodRoutes
<1>2. t = SortNarrowestFirst(r)
  OBVIOUS
<1> HIDE DEF r
<1>3. same \in Bijection(1 .. 2, 1 .. 2)
  BY DEF Bijection, Injection, Surjection, IsInjective
<1>4. \A i, j \in 1 .. 2 : i <= j =>
         \/ r[same[i]].len > r[same[j]].len
         \/ r[same[i]].len = r[same[j]].len /\ same[i] <= same[j]
  <2>1. \A i, j \in 1 .. 2 : i <= j => i = j \/ (i = 1 /\ j = 2)
    OBVIOUS
  <2> QED
    BY <1>1, <2>1
<1> HIDE DEF same
<1>5. PICK q : t = [i \in 1 .. 2 |-> r[q[i]]] /\ q \in Bijection(1 .. 2, 1 .. 2)
  BY <1>1, <1>2, <1>3, <1>4, SortReorders
<1>6. /\ q \in [1 .. 2 -> 1 .. 2]
      /\ \A i \in 1 .. 2 : \E j \in 1 .. 2 : q[j] = i
  BY <1>5 DEF Bijection, Surjection
<1>7. t \in [1 .. 2 -> PodRoutes]
  BY <1>1, <1>5, <1>6
<1>8. t \in Seq(PodRoutes)
  <2>1. PICK a \in PodRoutes, b \in PodRoutes : t = <<a, b>>
    BY <1>7
  <2> QED
    BY <2>1
<1>9. \A k \in 1 .. 2 : t[k].prefix = r[q[k]].prefix
  BY <1>5
<1>10. {t[k].prefix : k \in DOMAIN t} = {r[i].prefix : i \in 1 .. 2}
  BY <1>6, <1>7, <1>9
<1>11. {r[i].prefix : i \in 1 .. 2} = {Gateway, Everything}
  BY <1>1
<1> QED
  BY <1>8, <1>10, <1>11

LEMMA NextRoute ==
    ASSUME NEW S, NEW t \in Seq(S), t # <<>>
    PROVE  /\ Tail(t) \in Seq(S)
           /\ {t[k].prefix : k \in DOMAIN t}
                = {Head(t).prefix} \cup {Tail(t)[k].prefix : k \in DOMAIN Tail(t)}
<1> DEFINE u == Tail(t)
<1>1. Len(t) \in Nat \ {0} /\ DOMAIN t = 1 .. Len(t) /\ Head(t) = t[1]
  OBVIOUS
<1>2. /\ u \in Seq(S) /\ DOMAIN u = 1 .. Len(t) - 1
      /\ \A k \in 1 .. Len(t) - 1 : u[k] = t[k + 1]
  OBVIOUS
<1> HIDE DEF u
<1>3. ASSUME NEW k \in DOMAIN t
      PROVE  t[k] = Head(t) \/ \E j \in DOMAIN u : t[k] = u[j]
  <2>1. CASE k = 1
    BY <1>1, <2>1
  <2>2. CASE k # 1
    <3>1. k - 1 \in 1 .. Len(t) - 1 /\ k = (k - 1) + 1
      BY <1>1, <2>2
    <3> QED
      BY <1>2, <3>1
  <2> QED
    BY <2>1, <2>2
<1>4. ASSUME NEW j \in DOMAIN u
      PROVE  j + 1 \in DOMAIN t /\ u[j] = t[j + 1]
  BY <1>1, <1>2
<1>5. 1 \in DOMAIN t
  BY <1>1
<1>6. {t[k].prefix : k \in DOMAIN t}
        \subseteq {Head(t).prefix} \cup {u[k].prefix : k \in DOMAIN u}
  BY <1>3
<1>7. {Head(t).prefix} \cup {u[k].prefix : k \in DOMAIN u}
        \subseteq {t[k].prefix : k \in DOMAIN t}
  BY <1>1, <1>4, <1>5
<1> QED
  BY <1>2, <1>6, <1>7 DEF u

-----------------------------------------------------------------------------
(* The steps of ADD. *)

(* A request of ADD fails, or its effect keeps the invariant.               *)
LEMMA ConfigureKeepsLinks ==
    ASSUME LinkInv, NEW c \in Containers, NEW step, NEW next, NEW then, NEW after,
           after = [host |-> after.host, peer |-> after.peer,
                    lease |-> proc[c].lease, todo |-> after.todo],
           Configure(c, step, next, then, after), step # "idle",
           (/\ links' \in next /\ pc[c] = step /\ pc'[c] = then /\ proc'[c] = after
            /\ OnlyProcess(c) /\ UNCHANGED <<op, added, result>>) => LinkInv'
    PROVE  LinkInv'
<1>1. PodShape /\ ProcShape /\ UNCHANGED <<added, result>> /\ pc[c] = step
  BY DEF LinkInv, PodShape, Shape, Configure, history
<1>2. CASE Fail(c) /\ UNCHANGED links
  BY <1>1, <1>2, FailKeepsLinks
<1>3. CASE /\ links' \in next /\ proc' = [proc EXCEPT ![c] = after] /\ Goto(c, then)
  <2>1. ProcShape'
    BY <1>1, <1>3, GoesOn
  <2>2. /\ DOMAIN pc' = Containers /\ DOMAIN op' = Containers /\ pc'[c] = then /\ op' = op
        /\ \A d \in Containers \ {c} : pc'[d] = pc[d]
    BY <1>1, <1>3 DEF Goto, PodShape
  <2>3. proc'[c] = after /\ \A d \in Containers \ {c} : proc'[d] = proc[d]
    BY <1>1, <1>3 DEF ProcShape
  <2>4. OnlyProcess(c)
    BY <2>1, <2>2, <2>3 DEF OnlyProcess
  <2> QED
    BY <1>1, <1>3, <2>2, <2>3, <2>4
<1> QED
  BY <1>2, <1>3 DEF Configure, Netlink

(* With what each request leaves of its link, that is all there is to show. *)
Edits(c, i, x, then, after) ==
    LET h == proc[c].host.index
        p == proc[c].peer.index
    IN  /\ i \in {h, p} /\ IsLink(x) /\ x.peer = links[i].peer
        /\ \/ x.ns = links[i].ns /\ x.name = links[i].name
           \/ /\ i = p
              /\ \A j \in DOMAIN links \ {i} : ~(links[j].ns = x.ns /\ links[j].name = x.name)
        /\ links' = [links EXCEPT ![i] = x]
        /\ EndsAre(c, then, proc[c].lease, after.todo,
                   IF i = h THEN x ELSE links[h], IF i = p THEN x ELSE links[p])

LEMMA EditsKeepLinks ==
    ASSUME LinkInv, NEW c \in Containers, NEW step \in VethSteps, NEW next,
           NEW then \in VethSteps, NEW after,
           after = [host |-> proc[c].host, peer |-> after.peer,
                    lease |-> proc[c].lease, todo |-> after.todo],
           pc[c] = step =>
             after.peer = [index |-> proc[c].peer.index, name |-> after.peer.name,
                           ns |-> IF then = "move" THEN HostNs ELSE c],
           Configure(c, step, next, then, after),
           (links' \in next /\ pc[c] = step) => \E i, x : Edits(c, i, x, then, after)
    PROVE  LinkInv'
<1>1. after = [host |-> after.host, peer |-> after.peer,
               lease |-> proc[c].lease, todo |-> after.todo]
      /\ after.host = proc[c].host /\ after.lease = proc[c].lease
  OBVIOUS
<1>2. step # "idle"
  BY DEF VethSteps
<1>3. ASSUME links' \in next, pc[c] = step, pc'[c] = then, proc'[c] = after,
             OnlyProcess(c), UNCHANGED <<op, added, result>>
      PROVE  LinkInv'
  <2>1. PICK i, x : Edits(c, i, x, then, after)
    BY <1>3
  <2> DEFINE h == proc[c].host.index
             p == proc[c].peer.index
  <2>2. /\ i \in {h, p} /\ IsLink(x) /\ x.peer = links[i].peer
        /\ \/ x.ns = links[i].ns /\ x.name = links[i].name
           \/ /\ i = p
              /\ \A j \in DOMAIN links \ {i} : ~(links[j].ns = x.ns /\ links[j].name = x.name)
        /\ links' = [links EXCEPT ![i] = x]
        /\ EndsAre(c, then, proc[c].lease, after.todo,
                   IF i = h THEN x ELSE links[h], IF i = p THEN x ELSE links[p])
    BY <2>1 DEF Edits
  <2>3. proc'[c].host = proc[c].host /\ proc'[c].lease = proc[c].lease
        /\ proc'[c].todo = after.todo
    BY <1>1, <1>3
  <2>4. proc'[c].peer = [index |-> p, name |-> proc'[c].peer.name,
                         ns |-> IF pc'[c] = "move" THEN HostNs ELSE c]
    BY <1>3
  <2>5. EndsAre(c, pc'[c], proc[c].lease, proc'[c].todo,
                IF i = h THEN x ELSE links[h], IF i = p THEN x ELSE links[p])
    BY <1>3, <2>2, <2>3
  <2> HIDE DEF h, p
  <2>6. h = proc[c].host.index /\ p = proc[c].peer.index
    BY DEF h, p
  <2> QED
    BY <1>3, <2>2, <2>3, <2>4, <2>5, <2>6, EditAdvances
<1> QED
  BY <1>1, <1>2, <1>3, ConfigureKeepsLinks

(* Of a process at one of the steps.                                        *)
LEMMA ProcessIs ==
    ASSUME LinkInv, NEW c \in Containers
    PROVE  proc[c] = [host |-> proc[c].host, peer |-> proc[c].peer,
                      lease |-> proc[c].lease, todo |-> proc[c].todo]
BY DEF LinkInv, PodShape, Shape, ProcShape

LEMMA WithOther ==
    ASSUME NEW q, q = [host |-> q.host, peer |-> q.peer, lease |-> q.lease, todo |-> q.todo],
           NEW v
    PROVE  /\ [q EXCEPT !.host = v]
                = [host |-> v, peer |-> q.peer, lease |-> q.lease, todo |-> q.todo]
           /\ [q EXCEPT !.peer = v]
                = [host |-> q.host, peer |-> v, lease |-> q.lease, todo |-> q.todo]
           /\ [q EXCEPT !.lease = v]
                = [host |-> q.host, peer |-> q.peer, lease |-> v, todo |-> q.todo]
           /\ [q EXCEPT !.todo = v]
                = [host |-> q.host, peer |-> q.peer, lease |-> q.lease, todo |-> v]
OBVIOUS

(* A request that leaves the handles as they are.                           *)
LEMMA PlainRequestKeepsLinks ==
    ASSUME LinkInv, NEW c \in Containers, NEW step \in VethSteps \ {"move"}, NEW next,
           NEW then \in VethSteps \ {"move"}, Configure(c, step, next, then, proc[c]),
           (links' \in next /\ pc[c] = step) => \E i, x : Edits(c, i, x, then, proc[c])
    PROVE  LinkInv'
<1>1. ASSUME pc[c] = step
      PROVE  proc[c].peer = [index |-> proc[c].peer.index, name |-> proc[c].peer.name,
                             ns |-> IF then = "move" THEN HostNs ELSE c]
  BY <1>1, HandlesAtStep
<1> QED
  BY <1>1, ProcessIs, EditsKeepLinks

LEMMA RpFilterKeepsLinks ==
    ASSUME LinkInv, NEW c \in Containers,
           Configure(c, "rp_filter", SetRpFilter(links, proc[c].host, "0"), "host_mtu", proc[c])
    PROVE  LinkInv'
<1> DEFINE h == proc[c].host.index
           p == proc[c].peer.index
<1>1. "rp_filter" \in VethSteps \ {"move"} /\ "host_mtu" \in VethSteps \ {"move"}
  BY DEF VethSteps
<1>2. ASSUME links' \in SetRpFilter(links, proc[c].host, "0"), pc[c] = "rp_filter"
      PROVE  \E i, x : Edits(c, i, x, "host_mtu", proc[c])
  <2>1. /\ h \in DOMAIN links /\ p \in DOMAIN links /\ h # p
        /\ IsLink(links[h]) /\ IsLink(links[p])
        /\ EndsAre(c, "rp_filter", proc[c].lease, proc[c].todo, links[h], links[p])
    BY <1>1, <1>2, VethAtStep
  <2>2. links[h].ns = proc[c].host.ns /\ links[h].name = proc[c].host.name
    <3>1. proc[c].host.ns = HostNs /\ proc[c].host.name = HostName[c]
      BY <1>1, <1>2, HandlesAtStep
    <3>2. links[h].ns = HostNs /\ links[h].name = HostName[c]
      BY <2>1 DEF EndsAre
    <3> QED
      BY <3>1, <3>2
  <2>3. PICK x : /\ links' = [links EXCEPT ![h] = x] /\ Same(x, links[h])
                 /\ x.sysctl["rp_filter"] = "0" /\ x.mtu = links[h].mtu /\ x.up = links[h].up
                 /\ x.addrs = links[h].addrs /\ x.routes = links[h].routes
    BY <1>2, <2>1, <2>2, SetRpFilterIs DEF LinkInv, KernelInv
  <2>4. EndsAre(c, "host_mtu", proc[c].lease, proc[c].todo, x, links[p])
    BY <2>1, <2>3 DEF EndsAre, Same, VethSteps, RenamedSteps, FilteredSteps,
       HostSizedSteps, PeerSizedSteps, HostUpSteps, PeerUpSteps, AddressedSteps, RoutedSteps
  <2>5. Edits(c, h, x, "host_mtu", proc[c])
    BY <2>1, <2>3, <2>4 DEF Edits, Same
  <2> QED
    BY <2>5
<1> QED
  BY <1>1, <1>2, PlainRequestKeepsLinks

LEMMA HostMtuKeepsLinks ==
    ASSUME LinkInv, NEW c \in Containers,
           Configure(c, "host_mtu", SetMtu(links, proc[c].host, DeviceMtu), "peer_mtu", proc[c])
    PROVE  LinkInv'
<1> DEFINE h == proc[c].host.index
           p == proc[c].peer.index
<1>1. "host_mtu" \in VethSteps \ {"move"} /\ "peer_mtu" \in VethSteps \ {"move"}
  BY DEF VethSteps
<1>2. ASSUME links' \in SetMtu(links, proc[c].host, DeviceMtu), pc[c] = "host_mtu"
      PROVE  \E i, x : Edits(c, i, x, "peer_mtu", proc[c])
  <2>1. /\ h \in DOMAIN links /\ p \in DOMAIN links /\ h # p
        /\ IsLink(links[h]) /\ IsLink(links[p])
        /\ EndsAre(c, "host_mtu", proc[c].lease, proc[c].todo, links[h], links[p])
    BY <1>1, <1>2, VethAtStep
  <2>3. PICK x : /\ links' = [links EXCEPT ![h] = x] /\ Same(x, links[h])
                 /\ x.mtu = DeviceMtu /\ x.up = links[h].up
                 /\ x.sysctl = links[h].sysctl
                 /\ x.addrs = links[h].addrs /\ x.routes = links[h].routes
    BY <1>2, <2>1, SetMtuIs
  <2>4. EndsAre(c, "peer_mtu", proc[c].lease, proc[c].todo, x, links[p])
    BY <2>1, <2>3 DEF EndsAre, Same, VethSteps, RenamedSteps, FilteredSteps,
       HostSizedSteps, PeerSizedSteps, HostUpSteps, PeerUpSteps, AddressedSteps, RoutedSteps
  <2>5. Edits(c, h, x, "peer_mtu", proc[c])
    BY <2>1, <2>3, <2>4 DEF Edits, Same
  <2> QED
    BY <2>5
<1> QED
  BY <1>1, <1>2, PlainRequestKeepsLinks

LEMMA PeerMtuKeepsLinks ==
    ASSUME LinkInv, NEW c \in Containers,
           Configure(c, "peer_mtu", SetMtu(links, proc[c].peer, DeviceMtu), "host_up", proc[c])
    PROVE  LinkInv'
<1> DEFINE h == proc[c].host.index
           p == proc[c].peer.index
<1>1. "peer_mtu" \in VethSteps \ {"move"} /\ "host_up" \in VethSteps \ {"move"}
  BY DEF VethSteps
<1>2. ASSUME links' \in SetMtu(links, proc[c].peer, DeviceMtu), pc[c] = "peer_mtu"
      PROVE  \E i, x : Edits(c, i, x, "host_up", proc[c])
  <2>1. /\ h \in DOMAIN links /\ p \in DOMAIN links /\ h # p
        /\ IsLink(links[h]) /\ IsLink(links[p])
        /\ EndsAre(c, "peer_mtu", proc[c].lease, proc[c].todo, links[h], links[p])
    BY <1>1, <1>2, VethAtStep
  <2>3. PICK x : /\ links' = [links EXCEPT ![p] = x] /\ Same(x, links[p])
                 /\ x.mtu = DeviceMtu /\ x.up = links[p].up
                 /\ x.sysctl = links[p].sysctl
                 /\ x.addrs = links[p].addrs /\ x.routes = links[p].routes
    BY <1>2, <2>1, SetMtuIs
  <2>4. EndsAre(c, "host_up", proc[c].lease, proc[c].todo, links[h], x)
    BY <2>1, <2>3 DEF EndsAre, Same, VethSteps, RenamedSteps, FilteredSteps,
       HostSizedSteps, PeerSizedSteps, HostUpSteps, PeerUpSteps, AddressedSteps, RoutedSteps
  <2>5. Edits(c, p, x, "host_up", proc[c])
    BY <2>1, <2>3, <2>4 DEF Edits, Same
  <2> QED
    BY <2>5
<1> QED
  BY <1>1, <1>2, PlainRequestKeepsLinks

LEMMA HostUpKeepsLinks ==
    ASSUME LinkInv, NEW c \in Containers,
           Configure(c, "host_up", SetUp(links, proc[c].host), "peer_up", proc[c])
    PROVE  LinkInv'
<1> DEFINE h == proc[c].host.index
           p == proc[c].peer.index
<1>1. "host_up" \in VethSteps \ {"move"} /\ "peer_up" \in VethSteps \ {"move"}
  BY DEF VethSteps
<1>2. ASSUME links' \in SetUp(links, proc[c].host), pc[c] = "host_up"
      PROVE  \E i, x : Edits(c, i, x, "peer_up", proc[c])
  <2>1. /\ h \in DOMAIN links /\ p \in DOMAIN links /\ h # p
        /\ IsLink(links[h]) /\ IsLink(links[p])
        /\ EndsAre(c, "host_up", proc[c].lease, proc[c].todo, links[h], links[p])
    BY <1>1, <1>2, VethAtStep
  <2>3. PICK x : /\ links' = [links EXCEPT ![h] = x] /\ Same(x, links[h])
                 /\ x.up /\ x.mtu = links[h].mtu
                 /\ x.sysctl = links[h].sysctl
                 /\ x.addrs = links[h].addrs /\ x.routes = links[h].routes
    BY <1>2, <2>1, SetUpIs
  <2>4. EndsAre(c, "peer_up", proc[c].lease, proc[c].todo, x, links[p])
    BY <2>1, <2>3 DEF EndsAre, Same, VethSteps, RenamedSteps, FilteredSteps,
       HostSizedSteps, PeerSizedSteps, HostUpSteps, PeerUpSteps, AddressedSteps, RoutedSteps
  <2>5. Edits(c, h, x, "peer_up", proc[c])
    BY <2>1, <2>3, <2>4 DEF Edits, Same
  <2> QED
    BY <2>5
<1> QED
  BY <1>1, <1>2, PlainRequestKeepsLinks

LEMMA PeerUpKeepsLinks ==
    ASSUME LinkInv, NEW c \in Containers,
           Configure(c, "peer_up", SetUp(links, proc[c].peer), "addr", proc[c])
    PROVE  LinkInv'
<1> DEFINE h == proc[c].host.index
           p == proc[c].peer.index
<1>1. "peer_up" \in VethSteps \ {"move"} /\ "addr" \in VethSteps \ {"move"}
  BY DEF VethSteps
<1>2. ASSUME links' \in SetUp(links, proc[c].peer), pc[c] = "peer_up"
      PROVE  \E i, x : Edits(c, i, x, "addr", proc[c])
  <2>1. /\ h \in DOMAIN links /\ p \in DOMAIN links /\ h # p
        /\ IsLink(links[h]) /\ IsLink(links[p])
        /\ EndsAre(c, "peer_up", proc[c].lease, proc[c].todo, links[h], links[p])
    BY <1>1, <1>2, VethAtStep
  <2>3. PICK x : /\ links' = [links EXCEPT ![p] = x] /\ Same(x, links[p])
                 /\ x.up /\ x.mtu = links[p].mtu
                 /\ x.sysctl = links[p].sysctl
                 /\ x.addrs = links[p].addrs /\ x.routes = links[p].routes
    BY <1>2, <2>1, SetUpIs
  <2>4. EndsAre(c, "addr", proc[c].lease, proc[c].todo, links[h], x)
    BY <2>1, <2>3 DEF EndsAre, Same, VethSteps, RenamedSteps, FilteredSteps,
       HostSizedSteps, PeerSizedSteps, HostUpSteps, PeerUpSteps, AddressedSteps, RoutedSteps
  <2>5. Edits(c, p, x, "addr", proc[c])
    BY <2>1, <2>3, <2>4 DEF Edits, Same
  <2> QED
    BY <2>5
<1> QED
  BY <1>1, <1>2, PlainRequestKeepsLinks

(* The peer moves and then takes the interface's name: both are free there. *)
LEMMA MoveKeepsLinks ==
    ASSUME LinkInv, NEW c \in Containers,
           Configure(c, "move", SetNs(links, proc[c].peer, c), "rename",
                     [proc[c] EXCEPT !.peer.ns = c])
    PROVE  LinkInv'
<1> DEFINE h == proc[c].host.index
           p == proc[c].peer.index
           n == proc[c].peer.name
           peer == [index |-> p, name |-> n, ns |-> c]
           after == [host |-> proc[c].host, peer |-> peer,
                     lease |-> proc[c].lease, todo |-> proc[c].todo]
<1>1. "move" \in VethSteps /\ "rename" \in VethSteps /\ "rename" # "move"
  BY DEF VethSteps
<1>2. ASSUME pc[c] = "move" PROVE [proc[c] EXCEPT !.peer.ns = c] = after
  <2>1. proc[c].peer = [index |-> p, name |-> n, ns |-> HostNs]
    BY <1>1, <1>2, HandlesAtStep
  <2>2. [proc[c].peer EXCEPT !.ns = c] = peer
    BY <2>1
  <2>3. [proc[c] EXCEPT !.peer.ns = c] = [proc[c] EXCEPT !.peer = [proc[c].peer EXCEPT !.ns = c]]
    BY Zenon
  <2>4. [proc[c] EXCEPT !.peer = peer] = after
    BY ProcessIs, WithOther
  <2> HIDE DEF after, peer
  <2> QED
    BY <2>2, <2>3, <2>4, Zenon
<1>3. Configure(c, "move", SetNs(links, proc[c].peer, c), "rename", after)
  BY <1>2 DEF Configure
<1>4. /\ after = [host |-> proc[c].host, peer |-> after.peer,
                  lease |-> proc[c].lease, todo |-> after.todo]
      /\ after.peer = [index |-> p, name |-> after.peer.name, ns |-> c]
      /\ after.todo = proc[c].todo
  OBVIOUS
<1> HIDE DEF after
<1>5. ASSUME links' \in SetNs(links, proc[c].peer, c), pc[c] = "move"
      PROVE  \E i, x : Edits(c, i, x, "rename", after)
  <2>1. /\ h \in DOMAIN links /\ p \in DOMAIN links /\ h # p
        /\ IsLink(links[h]) /\ IsLink(links[p])
        /\ EndsAre(c, "move", proc[c].lease, proc[c].todo, links[h], links[p])
    BY <1>1, <1>5, VethAtStep
  <2>2. PICK x : /\ links' = [links EXCEPT ![p] = x]
                 /\ IsLink(x) /\ x.ns = c /\ x.name = links[p].name /\ x.peer = links[p].peer
                 /\ x.addrs = {} /\ x.routes = {}
                 /\ Named(links, c, x.name) = {}
    BY <1>5, <2>1, SetNsIs
  <2>3. EndsAre(c, "rename", proc[c].lease, after.todo, links[h], x)
    BY <2>1, <2>2, <1>4 DEF EndsAre, VethSteps, RenamedSteps, FilteredSteps,
       HostSizedSteps, PeerSizedSteps, HostUpSteps, PeerUpSteps, AddressedSteps, RoutedSteps
  <2>4. \A j \in DOMAIN links : ~(links[j].ns = x.ns /\ links[j].name = x.name)
    BY <2>2 DEF Named
  <2>5. Edits(c, p, x, "rename", after)
    BY <2>1, <2>2, <2>3, <2>4 DEF Edits
  <2> QED
    BY <2>5
<1> QED
  BY <1>1, <1>3, <1>4, <1>5, EditsKeepLinks

LEMMA RenameKeepsLinks ==
    ASSUME LinkInv, NEW c \in Containers,
           Configure(c, "rename", Rename(links, proc[c].peer, IfName), "rp_filter",
                     [proc[c] EXCEPT !.peer.name = IfName])
    PROVE  LinkInv'
<1> DEFINE h == proc[c].host.index
           p == proc[c].peer.index
           peer == [index |-> p, name |-> IfName, ns |-> c]
           after == [host |-> proc[c].host, peer |-> peer,
                     lease |-> proc[c].lease, todo |-> proc[c].todo]
<1>1. "rename" \in VethSteps /\ "rp_filter" \in VethSteps
      /\ "rename" # "move" /\ "rp_filter" # "move"
  BY DEF VethSteps
<1>2. ASSUME pc[c] = "rename" PROVE [proc[c] EXCEPT !.peer.name = IfName] = after
  <2>1. proc[c].peer = [index |-> p, name |-> proc[c].peer.name, ns |-> c]
    BY <1>1, <1>2, HandlesAtStep
  <2>2. [proc[c].peer EXCEPT !.name = IfName] = peer
    BY <2>1
  <2>3. [proc[c] EXCEPT !.peer.name = IfName]
          = [proc[c] EXCEPT !.peer = [proc[c].peer EXCEPT !.name = IfName]]
    BY Zenon
  <2>4. [proc[c] EXCEPT !.peer = peer] = after
    BY ProcessIs, WithOther
  <2> HIDE DEF after, peer
  <2> QED
    BY <2>2, <2>3, <2>4, Zenon
<1>3. Configure(c, "rename", Rename(links, proc[c].peer, IfName), "rp_filter", after)
  BY <1>2 DEF Configure
<1>4. /\ after = [host |-> proc[c].host, peer |-> after.peer,
                  lease |-> proc[c].lease, todo |-> after.todo]
      /\ after.peer = [index |-> p, name |-> after.peer.name, ns |-> c]
      /\ after.todo = proc[c].todo
  OBVIOUS
<1> HIDE DEF after
<1>5. ASSUME links' \in Rename(links, proc[c].peer, IfName), pc[c] = "rename"
      PROVE  \E i, x : Edits(c, i, x, "rp_filter", after)
  <2>1. /\ h \in DOMAIN links /\ p \in DOMAIN links /\ h # p
        /\ IsLink(links[h]) /\ IsLink(links[p])
        /\ EndsAre(c, "rename", proc[c].lease, proc[c].todo, links[h], links[p])
    BY <1>1, <1>5, VethAtStep
  <2>2. PICK x : /\ links' = [links EXCEPT ![p] = x]
                 /\ IsLink(x) /\ x.ns = links[p].ns /\ x.name = IfName
                 /\ x.peer = links[p].peer
                 /\ x.addrs = links[p].addrs /\ x.routes = links[p].routes
                 /\ Named(links, x.ns, IfName) \subseteq {p}
    BY <1>5, <2>1, RenameIs
  <2>3. EndsAre(c, "rp_filter", proc[c].lease, after.todo, links[h], x)
    BY <2>1, <2>2, <1>4 DEF EndsAre, VethSteps, RenamedSteps, FilteredSteps,
       HostSizedSteps, PeerSizedSteps, HostUpSteps, PeerUpSteps, AddressedSteps, RoutedSteps
  <2>4. \A j \in DOMAIN links \ {p} : ~(links[j].ns = x.ns /\ links[j].name = x.name)
    BY <2>2 DEF Named
  <2>5. Edits(c, p, x, "rp_filter", after)
    BY <2>1, <2>2, <2>3, <2>4 DEF Edits
  <2> QED
    BY <2>5
<1> QED
  BY <1>1, <1>3, <1>4, <1>5, EditsKeepLinks

(* The address is the lease's only one, and all routes are still to add.    *)
LEMMA AddrKeepsLinks ==
    ASSUME LinkInv, NEW c \in Containers, NEW a \in proc[c].lease,
           Configure(c, "addr", AddAddr(links, proc[c].peer, a), "route",
                     [proc[c] EXCEPT !.todo =
                        SortNarrowestFirst(Ipv4Routes(Gateway, RouteMtu))])
    PROVE  LinkInv'
<1> DEFINE h == proc[c].host.index
           p == proc[c].peer.index
           t == SortNarrowestFirst(Ipv4Routes(Gateway, RouteMtu))
           after == [host |-> proc[c].host, peer |-> proc[c].peer,
                     lease |-> proc[c].lease, todo |-> t]
<1>1. "addr" \in VethSteps /\ "route" \in VethSteps /\ "addr" # "move" /\ "route" # "move"
  BY DEF VethSteps
<1>2. t \in Seq(PodRoutes) /\ {t[k].prefix : k \in DOMAIN t} = {Gateway, Everything}
  BY RoutesAreSorted
<1> HIDE DEF t
<1>3. [proc[c] EXCEPT !.todo = t] = after
  BY ProcessIs, WithOther
<1>4. Configure(c, "addr", AddAddr(links, proc[c].peer, a), "route", after)
  BY <1>3 DEF t
<1>5. /\ after = [host |-> proc[c].host, peer |-> after.peer,
                  lease |-> proc[c].lease, todo |-> after.todo]
      /\ after.todo = t /\ after.peer = proc[c].peer
  OBVIOUS
<1> HIDE DEF after
<1>6. ASSUME pc[c] = "addr"
      PROVE  after.peer = [index |-> p, name |-> after.peer.name,
                           ns |-> IF "route" = "move" THEN HostNs ELSE c]
  BY <1>1, <1>5, <1>6, HandlesAtStep
<1>7. ASSUME links' \in AddAddr(links, proc[c].peer, a), pc[c] = "addr"
      PROVE  \E i, x : Edits(c, i, x, "route", after)
  <2>1. /\ h \in DOMAIN links /\ p \in DOMAIN links /\ h # p
        /\ IsLink(links[h]) /\ IsLink(links[p])
        /\ EndsAre(c, "addr", proc[c].lease, proc[c].todo, links[h], links[p])
    BY <1>1, <1>7, VethAtStep
  <2>2. PICK x : /\ links' = [links EXCEPT ![p] = x] /\ Same(x, links[p])
                 /\ x.up = links[p].up /\ x.mtu = links[p].mtu
                 /\ x.addrs = links[p].addrs \cup {a} /\ x.routes = links[p].routes
    BY <1>7, <2>1, AddAddrIs
  <2>3. /\ links[p].addrs = {} /\ links[p].routes = {}
    BY <2>1 DEF EndsAre, VethSteps, RenamedSteps, FilteredSteps,
       HostSizedSteps, PeerSizedSteps, HostUpSteps, PeerUpSteps, AddressedSteps, RoutedSteps
  <2>4. proc[c].lease = {a}
    BY <1>1, <1>7 DEF LinkInv, StepOf
  <2>5. x.addrs = proc[c].lease /\ Destinations(x.routes) = {}
    BY <2>2, <2>3, <2>4 DEF Destinations
  <2>6. EndsAre(c, "route", proc[c].lease, t, links[h], x)
    BY <1>2, <2>1, <2>2, <2>5 DEF EndsAre, Same, VethSteps, RenamedSteps, FilteredSteps,
       HostSizedSteps, PeerSizedSteps, HostUpSteps, PeerUpSteps, AddressedSteps, RoutedSteps
  <2>7. Edits(c, p, x, "route", after)
    BY <1>5, <2>1, <2>2, <2>6 DEF Edits, Same
  <2> QED
    BY <2>7
<1> QED
  BY <1>1, <1>4, <1>5, <1>6, <1>7, EditsKeepLinks

(* A route that was still to add is there.                                  *)
LEMMA RouteKeepsLinks ==
    ASSUME LinkInv, NEW c \in Containers, proc[c].todo # <<>>,
           Configure(c, "route", AddRoute(links, proc[c].peer, Head(proc[c].todo)), "route",
                     [proc[c] EXCEPT !.todo = Tail(@)])
    PROVE  LinkInv'
<1> DEFINE h == proc[c].host.index
           p == proc[c].peer.index
           t == proc[c].todo
           after == [host |-> proc[c].host, peer |-> proc[c].peer,
                     lease |-> proc[c].lease, todo |-> Tail(t)]
<1>1. "route" \in VethSteps /\ "route" # "move"
  BY DEF VethSteps
<1>2. [proc[c] EXCEPT !.todo = Tail(@)] = after
  BY ProcessIs, WithOther
<1>3. Configure(c, "route", AddRoute(links, proc[c].peer, Head(t)), "route", after)
  BY <1>2
<1>4. /\ after = [host |-> proc[c].host, peer |-> after.peer,
                  lease |-> proc[c].lease, todo |-> after.todo]
      /\ after.todo = Tail(t) /\ after.peer = proc[c].peer
  OBVIOUS
<1> HIDE DEF after
<1>5. ASSUME pc[c] = "route"
      PROVE  after.peer = [index |-> p, name |-> after.peer.name,
                           ns |-> IF "route" = "move" THEN HostNs ELSE c]
  BY <1>1, <1>4, <1>5, HandlesAtStep
<1>6. ASSUME links' \in AddRoute(links, proc[c].peer, Head(t)), pc[c] = "route"
      PROVE  \E i, x : Edits(c, i, x, "route", after)
  <2>1. /\ h \in DOMAIN links /\ p \in DOMAIN links /\ h # p
        /\ IsLink(links[h]) /\ IsLink(links[p])
        /\ EndsAre(c, "route", proc[c].lease, t, links[h], links[p])
    BY <1>1, <1>6, VethAtStep
  <2>2. PICK x : /\ links' = [links EXCEPT ![p] = x] /\ Same(x, links[p])
                 /\ x.up = links[p].up /\ x.mtu = links[p].mtu /\ x.addrs = links[p].addrs
                 /\ Destinations(x.routes) = Destinations(links[p].routes) \cup {Head(t).prefix}
    BY <1>6, <2>1, AddRouteIs
  <2>3. /\ t \in Seq(PodRoutes)
        /\ Destinations(links[p].routes) \cup {t[k].prefix : k \in DOMAIN t}
             = {Gateway, Everything}
    BY <2>1 DEF EndsAre
  <2>4. /\ Tail(t) \in Seq(PodRoutes)
        /\ {t[k].prefix : k \in DOMAIN t}
             = {Head(t).prefix} \cup {Tail(t)[k].prefix : k \in DOMAIN Tail(t)}
    BY <2>3, NextRoute
  <2>5. Destinations(x.routes) \cup {Tail(t)[k].prefix : k \in DOMAIN Tail(t)}
          = {Gateway, Everything}
    BY <2>2, <2>3, <2>4
  <2>6. EndsAre(c, "route", proc[c].lease, Tail(t), links[h], x)
    BY <2>1, <2>2, <2>4, <2>5 DEF EndsAre, Same, VethSteps, RenamedSteps, FilteredSteps,
       HostSizedSteps, PeerSizedSteps, HostUpSteps, PeerUpSteps, AddressedSteps, RoutedSteps
  <2>7. Edits(c, p, x, "route", after)
    BY <1>4, <2>1, <2>2, <2>6 DEF Edits, Same
  <2> QED
    BY <2>7
<1> QED
  BY <1>1, <1>3, <1>4, <1>5, <1>6, EditsKeepLinks

(* The veth is made, both ends on the host under names that are free there. *)
LEMMA NewVethIs ==
    ASSUME NEW i, NEW j, NEW name, NEW other, i # j,
           i \notin DOMAIN links, j \notin DOMAIN links,
           links' \in CreateVethPair(links, i, j, name, other)
    PROVE  /\ DOMAIN links' = DOMAIN links \cup {i, j}
           /\ links' = [k \in DOMAIN links' |-> links'[k]]
           /\ links'[i] = NewLink(name, j) /\ links'[j] = NewLink(other, i)
           /\ \A k \in DOMAIN links : links'[k] = links[k]
           /\ Named(links, HostNs, name) = {} /\ Named(links, HostNs, other) = {}
           /\ other # name
<1>1. /\ links' = [k \in DOMAIN links \cup {i, j} |->
                     CASE k = i -> NewLink(name, j)
                       [] k = j -> NewLink(other, i)
                       [] OTHER -> links[k]]
      /\ Named(links, HostNs, name) = {} /\ Named(links, HostNs, other) = {}
      /\ other # name
  BY DEF CreateVethPair
<1>2. DOMAIN links' = DOMAIN links \cup {i, j} /\ links' = [k \in DOMAIN links' |-> links'[k]]
  BY <1>1
<1>3. /\ links'[i] = NewLink(name, j) /\ links'[j] = NewLink(other, i)
      /\ \A k \in DOMAIN links : links'[k] = links[k]
  BY <1>1
<1> QED
  BY <1>1, <1>2, <1>3

LEMMA NewVethKeepsLinks ==
    ASSUME LinkInv, NEW c \in Containers, NEW f, f = FreshIndices,
           Configure(c, "veth", CreateVethPair(links, f[1], f[2], HostName[c], TempName[c]),
                     "move",
                     [proc[c] EXCEPT
                        !.host = [index |-> f[1], name |-> HostName[c], ns |-> HostNs],
                        !.peer = [index |-> f[2], name |-> TempName[c], ns |-> HostNs]])
    PROVE  LinkInv'
<1> DEFINE i == f[1]
           j == f[2]
           host == [index |-> i, name |-> HostName[c], ns |-> HostNs]
           peer == [index |-> j, name |-> TempName[c], ns |-> HostNs]
           after == [host |-> host, peer |-> peer,
                     lease |-> proc[c].lease, todo |-> proc[c].todo]
           next == CreateVethPair(links, i, j, HostName[c], TempName[c])
<1>1. i \notin DOMAIN links /\ j \notin DOMAIN links /\ i # j
  BY FreshIndicesAreFree DEF LinkInv
<1> HIDE DEF i, j
<1>2. Configure(c, "veth", next, "move", after)
  <2>1. Configure(c, "veth", next, "move", [proc[c] EXCEPT !.host = host, !.peer = peer])
    BY DEF i, j
  <2> HIDE DEF host, peer, next
  <2> DEFINE half == [proc[c] EXCEPT !.host = host]
  <2>2. half = [host |-> host, peer |-> proc[c].peer,
                lease |-> proc[c].lease, todo |-> proc[c].todo]
    BY ProcessIs, WithOther
  <2>3. [proc[c] EXCEPT !.host = host, !.peer = peer] = [half EXCEPT !.peer = peer]
    OBVIOUS
  <2> HIDE DEF half
  <2>4. [half EXCEPT !.peer = peer] = after
    BY <2>2
  <2> QED
    BY <2>1, <2>3, <2>4
<1>3. /\ after.host = host /\ after.peer = peer /\ after.lease = proc[c].lease
      /\ after = [host |-> after.host, peer |-> after.peer,
                  lease |-> proc[c].lease, todo |-> after.todo]
  OBVIOUS
<1>4. host.index = i /\ peer.index = j /\ peer.name = TempName[c]
  OBVIOUS
<1> HIDE DEF after, next
<1>5. ASSUME links' \in next, pc[c] = "veth", pc'[c] = "move", proc'[c] = after,
             OnlyProcess(c), UNCHANGED <<op, added, result>>
      PROVE  LinkInv'
  <2>1. /\ DOMAIN links' = DOMAIN links \cup {i, j}
        /\ links' = [k \in DOMAIN links' |-> links'[k]]
        /\ links'[i] = NewLink(HostName[c], j) /\ links'[j] = NewLink(TempName[c], i)
        /\ \A k \in DOMAIN links : links'[k] = links[k]
        /\ Named(links, HostNs, HostName[c]) = {} /\ Named(links, HostNs, TempName[c]) = {}
        /\ TempName[c] # HostName[c]
    BY <1>1, <1>5, NewVethIs DEF next
  <2>2. KernelInv'
    BY <1>1, <2>1, NewPairKeepsKernel DEF LinkInv
  <2>3. PodShape'
    BY <1>5 DEF LinkInv, PodShape, Shape, OnlyProcess
  <2>4. StepsAside(c)
    BY <1>5, <2>1 DEF StepsAside, OnlyProcess
  <2>5. /\ links'[i].ns = HostNs /\ links'[i].name = HostName[c] /\ links'[i].peer = j
        /\ links'[j].ns = HostNs /\ links'[j].peer = i
        /\ links'[j].addrs = {} /\ links'[j].routes = {}
    BY <2>1, NewLinkIs
  <2>6. EndsAre(c, "move", proc'[c].lease, proc'[c].todo, links'[i], links'[j])
    BY <2>5 DEF EndsAre, VethSteps, RenamedSteps, FilteredSteps,
       HostSizedSteps, PeerSizedSteps, HostUpSteps, PeerUpSteps, AddressedSteps, RoutedSteps
  <2>7. VethIs(c, i, j)'
    BY <1>5, <2>1, <2>5, <2>6 DEF VethIs
  <2>8. proc'[c].host = host /\ proc'[c].peer = peer
        /\ proc'[c].host.index = i /\ proc'[c].peer.index = j
        /\ proc'[c].peer.name = TempName[c] /\ proc'[c].lease = proc[c].lease
    BY <1>3, <1>4, <1>5
  <2>9. HasVeth(c)'
    BY <1>5, <2>7, <2>8 DEF HasVeth
  <2>10. "veth" \notin IdleSteps /\ "veth" # "idle"
    BY DEF IdleSteps
  <2>11. StepOf(c)'
    BY <1>5, <2>8, <2>9, <2>10 DEF LinkInv, StepOf
  <2>12. AddedOf(c)'
    BY <1>5, <2>10 DEF LinkInv, AddedOf
  <2> QED
    BY <1>1, <2>2, <2>3, <2>4, <2>8, <2>11, <2>12, StepKeepsLinks
<1> QED
  BY <1>2, <1>3, <1>5, ConfigureKeepsLinks

(* No route is left to add.                                                 *)
LEMMA LastRouteKeepsLinks ==
    ASSUME LinkInv, NEW c \in Containers, pc[c] = "route", proc[c].todo = <<>>,
           Goto(c, "create"), UNCHANGED <<links, proc, added, result>>
    PROVE  LinkInv'
<1> DEFINE h == proc[c].host.index
           p == proc[c].peer.index
<1>1. "route" \in VethSteps /\ "create" \in VethSteps /\ "route" # "move" /\ "create" # "move"
  BY DEF VethSteps
<1>2. /\ h \in DOMAIN links /\ p \in DOMAIN links
      /\ links[h].peer = p /\ links[p].peer = h
      /\ EndsAre(c, "route", proc[c].lease, proc[c].todo, links[h], links[p])
  BY <1>1, VethAtStep
<1>3. EndsAre(c, "create", proc[c].lease, proc[c].todo, links[h], links[p])
  BY <1>2 DEF EndsAre, VethSteps, RenamedSteps, FilteredSteps,
     HostSizedSteps, PeerSizedSteps, HostUpSteps, PeerUpSteps, AddressedSteps, RoutedSteps
<1>4. proc[c].peer = [index |-> p, name |-> proc[c].peer.name, ns |-> c]
  BY <1>1, HandlesAtStep
<1>5. pc'[c] = "create" /\ op' = op /\ OnlyProcess(c)
  BY DEF LinkInv, PodShape, Shape, ProcShape, Goto, OnlyProcess
<1>6. KernelInv'
  BY SameKernel DEF LinkInv
<1> QED
  BY <1>1, <1>2, <1>3, <1>4, <1>5, <1>6, AdvanceKeepsLinks

LEMMA SetupVethKeepsLinks ==
    ASSUME LinkInv, NEW c \in Containers, SetupVeth(c)
    PROVE  LinkInv'
BY NewVethKeepsLinks, MoveKeepsLinks, RenameKeepsLinks, RpFilterKeepsLinks,
   HostMtuKeepsLinks, PeerMtuKeepsLinks, HostUpKeepsLinks DEF SetupVeth

LEMMA ConfigureIfaceKeepsLinks ==
    ASSUME LinkInv, NEW c \in Containers, ConfigureIface(c)
    PROVE  LinkInv'
BY PeerUpKeepsLinks, AddrKeepsLinks, RouteKeepsLinks, LastRouteKeepsLinks
   DEF ConfigureIface, kernel, history

-----------------------------------------------------------------------------
(* The other steps. *)

(* A link of the interface's name in c's namespace goes, with its peer.     *)
LEMMA UnlinkStepsAside ==
    ASSUME LinkInv, NEW c \in Containers, links' \in DeleteLinkInNs(links, c, IfName),
           \A d \in Containers \ {c} : pc'[d] = pc[d] /\ proc'[d] = proc[d] /\ op'[d] = op[d],
           UNCHANGED <<added, result>>
    PROVE  KernelInv' /\ StepsAside(c)
<1>1. /\ KernelInv'
      /\ \E x \in DOMAIN links :
           /\ links[x].ns = c
           /\ \A k \in DOMAIN links \ {x, links[x].peer} :
                 k \in DOMAIN links' /\ links'[k] = links[k]
  BY DeleteLinkIs DEF LinkInv
<1>2. PICK x \in DOMAIN links :
         /\ links[x].ns = c
         /\ \A k \in DOMAIN links \ {x, links[x].peer} :
               k \in DOMAIN links' /\ links'[k] = links[k]
  BY <1>1
<1>3. x \in Own(c) /\ links[x].peer \in Own(c)
  BY <1>2 DEF LinkInv, KernelInv, LinksArePaired, Own
<1> QED
  BY <1>1, <1>2, <1>3 DEF StepsAside

(* A process that has no veth may do that.                                  *)
LEMMA UnlinkKeepsLinks ==
    ASSUME LinkInv, NEW c \in Containers, links' \in DeleteLinkInNs(links, c, IfName),
           OnlyProcess(c), UNCHANGED <<added, result>>, c \notin added,
           pc'[c] \notin VethSteps \cup {"veth"}, op'[c] = None => pc'[c] = "idle"
    PROVE  LinkInv'
<1>1. KernelInv' /\ StepsAside(c)
  BY UnlinkStepsAside DEF OnlyProcess
<1>2. PodShape'
  BY DEF LinkInv, PodShape, Shape, OnlyProcess
<1>3. StepOf(c)' /\ AddedOf(c)'
  BY DEF StepOf, AddedOf
<1> QED
  BY <1>1, <1>2, <1>3, StepKeepsLinks

LEMMA StaleKeepsLinks ==
    ASSUME LinkInv, NEW c \in Containers, DeleteStale(c)
    PROVE  LinkInv'
<1>1. /\ PodShape /\ ProcShape /\ UNCHANGED <<added, result>> /\ pc[c] = "stale"
      /\ op[c] # None /\ c \notin added
  BY DEF LinkInv, PodShape, Shape, DeleteStale, history, StepOf, AddedOf, IdleSteps
<1>2. CASE Fail(c) /\ UNCHANGED links
  BY <1>1, <1>2, FailKeepsLinks
<1>3. CASE /\ \/ links' = links
              \/ links' \in DeleteLinkInNs(links, c, IfName)
           /\ proc' = [proc EXCEPT ![c] = proc[c]] /\ Goto(c, "config")
  <2>1. OnlyProcess(c) /\ pc'[c] = "config" /\ op' = op
    BY <1>1, <1>3 DEF PodShape, ProcShape, Goto, OnlyProcess
  <2>2. "config" \notin VethSteps \cup {"veth"}
    BY DEF VethSteps
  <2> QED
    BY <1>1, <1>3, <2>1, <2>2, QuietKeepsLinks, UnlinkKeepsLinks
<1> QED
  BY <1>2, <1>3 DEF DeleteStale, Netlink

LEMMA DeleteInterfaceKeepsLinks ==
    ASSUME LinkInv, NEW c \in Containers, DeleteInterface(c)
    PROVE  LinkInv'
<1>1. /\ PodShape /\ UNCHANGED <<added, result>> /\ pc[c] = "unlink" /\ c \notin added
  BY DEF LinkInv, DeleteInterface, history, AddedOf, IdleSteps
<1>2. CASE Fail(c) /\ UNCHANGED links
  BY <1>1, <1>2, FailKeepsLinks
<1>3. CASE /\ \/ links' = links
              \/ links' \in DeleteLinkInNs(links, c, IfName)
           /\ End(c)
  <2>1. OnlyProcess(c) /\ pc'[c] = "idle" /\ op'[c] = None
    BY <1>1, <1>3, EndOnlyProcess
  <2>2. "idle" \notin VethSteps \cup {"veth"}
    BY DEF VethSteps
  <2> QED
    BY <1>1, <1>3, <2>1, <2>2, EndKeepsLinks, UnlinkKeepsLinks
<1> QED
  BY <1>2, <1>3 DEF DeleteInterface

(* The sandbox's end takes its links, and the pod is no longer one that was *)
(* added.                                                                   *)
LEMMA DeleteNetnsKeepsLinks ==
    ASSUME LinkInv, NEW c \in Containers, DeleteNetns(c)
    PROVE  LinkInv'
<1>1. /\ links' = DeleteNs(links, c) /\ added' = added \ {c} /\ op[c] = None
      /\ UNCHANGED <<op, pc, proc, result>>
  BY DEF DeleteNetns
<1>2. /\ KernelInv'
      /\ \A k \in DOMAIN links : links[k].ns # c /\ links[links[k].peer].ns # c =>
            k \in DOMAIN links' /\ links'[k] = links[k]
  BY <1>1, DeleteNsIs DEF LinkInv
<1>3. StepsAside(c)
  BY <1>1, <1>2 DEF StepsAside, Own
<1>4. PodShape'
  BY <1>1 DEF LinkInv, PodShape, Shape, ProcShape
<1>5. pc[c] = "idle" /\ "idle" \notin VethSteps \cup {"veth"}
  BY <1>1 DEF LinkInv, StepOf, VethSteps
<1>6. StepOf(c)' /\ AddedOf(c)'
  BY <1>1, <1>5 DEF StepOf, AddedOf
<1> QED
  BY <1>1, <1>2, <1>3, <1>4, <1>5, <1>6, StepKeepsLinks

(* The daemon's check of the endpoint, and its second half being repeated.  *)
LEMMA TurnKeepsLinks ==
    ASSUME LinkInv, NEW c \in Containers, pc[c] \in {"create", "created"},
           NEW step \in {"create", "created"}, pc' = [pc EXCEPT ![c] = step],
           UNCHANGED <<links, op, proc, added, result>>
    PROVE  LinkInv'
<1> DEFINE h == proc[c].host.index
           p == proc[c].peer.index
<1>1. /\ {"create", "created"} \subseteq VethSteps /\ "move" \notin {"create", "created"}
  BY DEF VethSteps
<1>2. /\ h \in DOMAIN links /\ p \in DOMAIN links
      /\ links[h].peer = p /\ links[p].peer = h
      /\ EndsAre(c, pc[c], proc[c].lease, proc[c].todo, links[h], links[p])
  BY <1>1, VethAtStep
<1>3. EndsAre(c, step, proc[c].lease, proc[c].todo, links[h], links[p])
  BY <1>2 DEF EndsAre, VethSteps, RenamedSteps, FilteredSteps,
     HostSizedSteps, PeerSizedSteps, HostUpSteps, PeerUpSteps, AddressedSteps, RoutedSteps
<1>4. proc[c].peer = [index |-> p, name |-> proc[c].peer.name, ns |-> c]
  BY <1>1, HandlesAtStep
<1>5. pc'[c] = step /\ OnlyProcess(c)
  BY DEF LinkInv, PodShape, Shape, ProcShape, OnlyProcess
<1>6. KernelInv'
  BY SameKernel DEF LinkInv
<1>7. pc[c] \in VethSteps /\ pc'[c] \in VethSteps /\ pc'[c] # "move"
  BY <1>1, <1>5
<1> HIDE DEF h, p
<1>8. h = proc[c].host.index /\ p = proc[c].peer.index
  BY DEF h, p
<1>9. proc'[c].peer = [index |-> p, name |-> proc'[c].peer.name,
                       ns |-> IF pc'[c] = "move" THEN HostNs ELSE c]
  BY <1>4, <1>7
<1> QED
  BY <1>2, <1>3, <1>5, <1>6, <1>7, <1>8, <1>9, AdvanceKeepsLinks

LEMMA CallFailsKeepsLinks ==
    ASSUME LinkInv, NEW c \in Containers, NEW error, CallFails(c, error), pc[c] # "idle",
           UNCHANGED <<links, added, result>>
    PROVE  LinkInv'
<1>1. DOMAIN pc = Containers
  BY DEF LinkInv, PodShape
<1>2. CASE /\ pc' = [pc EXCEPT ![c] = IF @ = "created" THEN "create" ELSE @]
           /\ UNCHANGED <<op, proc>>
  <2>1. CASE pc[c] = "created"
    BY <1>2, <2>1, TurnKeepsLinks
  <2>2. CASE pc[c] # "created"
    <3>1. DOMAIN pc' = Containers /\ \A d \in Containers : pc'[d] = pc[d]
      BY <1>1, <1>2, <2>2
    <3> QED
      BY <1>2, <3>1, StillKeepsLinks
  <2> QED
    BY <2>1, <2>2
<1>3. CASE Fail(c)
  BY <1>3, FailKeepsLinks
<1> QED
  BY <1>2, <1>3 DEF CallFails

(* The address arrives.                                                     *)
LEMMA AllocateKeepsLinks ==
    ASSUME LinkInv, NEW c \in Containers, Allocate(c)
    PROVE  LinkInv'
<1>1. /\ PodShape /\ ProcShape /\ UNCHANGED <<links, added, result>> /\ pc[c] = "allocate"
      /\ op[c] # None /\ c \notin added
  BY DEF LinkInv, PodShape, Shape, Allocate, kernel, history, StepOf, AddedOf, IdleSteps
<1>2. CASE \E error : CallFails(c, error)
  BY <1>1, <1>2, CallFailsKeepsLinks
<1>3. ASSUME NEW a, Goto(c, "veth"), proc' = [proc EXCEPT ![c].lease = {a}]
      PROVE  LinkInv'
  <2>1. /\ proc'[c] = [host |-> proc[c].host, peer |-> proc[c].peer,
                       lease |-> {a}, todo |-> proc[c].todo]
        /\ proc' = [d \in Containers |-> proc'[d]]
        /\ \A d \in Containers \ {c} : proc'[d] = proc[d]
    <3> DEFINE after == [proc[c] EXCEPT !.lease = {a}]
    <3>1. after = [host |-> proc[c].host, peer |-> proc[c].peer,
                   lease |-> {a}, todo |-> proc[c].todo]
      BY ProcessIs, WithOther
    <3>2. proc' = [proc EXCEPT ![c] = after]
      BY <1>3
    <3> HIDE DEF after
    <3> QED
      BY <1>1, <3>1, <3>2 DEF ProcShape
  <2>2. proc'[c] = [host |-> proc'[c].host, peer |-> proc'[c].peer,
                    lease |-> proc'[c].lease, todo |-> proc'[c].todo]
        /\ proc'[c].lease = {a}
    BY <2>1
  <2>3. /\ pc'[c] = "veth" /\ op' = op
        /\ DOMAIN pc' = Containers /\ \A d \in Containers \ {c} : pc'[d] = pc[d]
    BY <1>1, <1>3 DEF Goto, PodShape
  <2>4. PodShape'
    BY <1>1, <2>1, <2>2, <2>3 DEF PodShape, Shape, ProcShape
  <2>5. KernelInv'
    BY <1>1, SameKernel DEF LinkInv
  <2>6. StepsAside(c)
    BY <1>1, <2>1, <2>3 DEF StepsAside
  <2>7. "veth" \notin VethSteps
    BY DEF VethSteps
  <2>8. StepOf(c)' /\ AddedOf(c)'
    BY <1>1, <2>2, <2>3, <2>7 DEF StepOf, AddedOf
  <2> QED
    BY <2>3, <2>4, <2>5, <2>6, <2>7, <2>8, StepKeepsLinks
<1> QED
  BY <1>2, <1>3 DEF Allocate

LEMMA CheckKeepsLinks ==
    ASSUME LinkInv, NEW c \in Containers, CheckEndpoint(c)
    PROVE  LinkInv'
<1>1. pc[c] = "create" /\ UNCHANGED <<links, added, result>>
  BY DEF CheckEndpoint, kernel, history
<1>2. CASE CallFails(c, "endpoint_known")
  BY <1>1, <1>2, CallFailsKeepsLinks
<1>3. CASE pc' = [pc EXCEPT ![c] = "created"] /\ UNCHANGED <<op, proc>>
  BY <1>1, <1>3, TurnKeepsLinks
<1> QED
  BY <1>2, <1>3 DEF CheckEndpoint

(* What ADD has done by its last step is what the pod keeps.                *)
LEMMA CreatedIsConfigured ==
    ASSUME LinkInv, NEW c \in Containers, pc[c] = "created", result'[c] = proc[c].lease,
           links' = links
    PROVE  \E i, j \in DOMAIN links' : ConfiguredIs(c, i, j)'
<1>1. PICK h, p :
      /\ h \in DOMAIN links /\ p \in DOMAIN links
      /\ links[h].peer = p /\ links[p].peer = h
      /\ EndsAre(c, "created", proc[c].lease, proc[c].todo, links[h], links[p])
  BY VethAtStep DEF VethSteps
<1>2. \E a : proc[c].lease = {a}
  BY DEF LinkInv, StepOf, VethSteps
<1>3. /\ links[h].ns = HostNs /\ links[h].name = HostName[c]
      /\ links[p].ns = c /\ links[p].name = IfName
      /\ links[h].up /\ links[p].up
      /\ links[h].mtu = DeviceMtu /\ links[p].mtu = DeviceMtu
      /\ links[p].addrs = proc[c].lease
      /\ Destinations(links[p].routes) = {Gateway, Everything}
      /\ links[h].sysctl["rp_filter"] = "0"
  BY <1>1 DEF EndsAre, VethSteps, RenamedSteps, FilteredSteps,
     HostSizedSteps, PeerSizedSteps, HostUpSteps, PeerUpSteps, AddressedSteps, RoutedSteps
<1>4. ConfiguredIs(c, p, h)'
  BY <1>1, <1>2, <1>3 DEF ConfiguredIs
<1> QED
  BY <1>1, <1>4

LEMMA RegisterKeepsLinks ==
    ASSUME LinkInv, NEW c \in Containers, NEW e \in checked, e.container = c, AddEndpoint(e)
    PROVE  LinkInv'
<1>1. links' = links /\ PodShape
  BY DEF AddEndpoint, kernel, LinkInv
<1>2. CASE UNCHANGED <<op, pc, proc, added, result>>
  BY <1>1, <1>2, StillKeepsLinks DEF PodShape
<1>3. CASE /\ pc[c] = "created" /\ proc[c].lease = e.addrs
           /\ Keep(c) /\ added' = added \cup {c} /\ result' = [result EXCEPT ![c] = e.addrs]
  <2>1. OnlyProcess(c) /\ pc'[c] = "idle" /\ op'[c] = None /\ proc'[c].lease = {}
    BY <1>1, <1>3, EndOnlyProcess DEF Keep
  <2>2. /\ result'[c] = proc[c].lease /\ DOMAIN result' = Containers
        /\ result' = [d \in Containers |-> result'[d]]
        /\ \A d \in Containers \ {c} : result'[d] = result[d]
    BY <1>1, <1>3 DEF PodShape, Shape
  <2>3. \E i, j \in DOMAIN links' : ConfiguredIs(c, i, j)'
    BY <1>1, <1>3, <2>2, CreatedIsConfigured
  <2>4. PodShape'
    BY <1>1, <1>3, <2>1, <2>2 DEF PodShape, Shape, OnlyProcess
  <2>5. KernelInv'
    BY <1>1, SameKernel DEF LinkInv
  <2>6. StepsAside(c)
    BY <1>1, <1>3, <2>1, <2>2 DEF StepsAside, OnlyProcess
  <2>7. "idle" \in IdleSteps /\ "idle" \notin VethSteps \cup {"veth"}
    BY DEF IdleSteps, VethSteps
  <2>8. StepOf(c)' /\ AddedOf(c)'
    BY <2>1, <2>3, <2>7 DEF StepOf, AddedOf
  <2> QED
    BY <2>1, <2>4, <2>5, <2>6, <2>7, <2>8, StepKeepsLinks
<1>4. CASE /\ pc[c] = "created" /\ UNCHANGED <<added, result>>
           /\ \E error : CallFails(c, error)
  BY <1>1, <1>4, CallFailsKeepsLinks
<1> QED
  BY <1>2, <1>3, <1>4 DEF AddEndpoint

(* A process that goes on and has no veth yet.                              *)
LEMMA GotoKeepsLinks ==
    ASSUME LinkInv, NEW c \in Containers, NEW step, Goto(c, step),
           step \notin VethSteps \cup {"veth"}, pc[c] # "idle", c \in added => step \in IdleSteps,
           UNCHANGED <<links, proc, added, result>>
    PROVE  LinkInv'
<1>1. /\ OnlyProcess(c) /\ pc'[c] = step /\ op' = op
  BY DEF LinkInv, PodShape, Shape, ProcShape, Goto, OnlyProcess
<1>2. op[c] # None /\ (c \in added => proc[c].lease = {})
  BY DEF LinkInv, StepOf, AddedOf
<1> QED
  BY <1>1, <1>2, QuietKeepsLinks

LEMMA ProcessStepKeepsLinks ==
    ASSUME LinkInv, NEW c \in Containers, Step(c)
    PROVE  LinkInv'
<1>1. CASE GetConfig(c) \/ DeleteEndpoint(c)
  <2>1. PICK step \in {"allocate", "unlink"} : Goto(c, step)
    BY <1>1 DEF GetConfig, DeleteEndpoint
  <2>2. /\ pc[c] \in {"config", "unregister"}
        /\ UNCHANGED <<links, proc, added, result>>
    BY <1>1 DEF GetConfig, DeleteEndpoint, kernel, history
  <2>3. c \notin added
    BY <2>2 DEF LinkInv, AddedOf, IdleSteps
  <2>4. step \notin VethSteps \cup {"veth"}
    BY <2>1 DEF VethSteps
  <2> QED
    BY <2>1, <2>2, <2>3, <2>4, GotoKeepsLinks
<1>2. CASE EndpointHealth(c)
  <2>1. /\ Goto(c, "verify") /\ pc[c] = "health" /\ UNCHANGED <<links, proc, added, result>>
    BY <1>2 DEF EndpointHealth, kernel, history
  <2>2. "verify" \in IdleSteps /\ "verify" \notin VethSteps \cup {"veth"}
    BY DEF IdleSteps, VethSteps
  <2> QED
    BY <2>1, <2>2, GotoKeepsLinks
<1>3. CASE VerifyInterface(c) \/ DaemonHealth(c)
  <2>1. UNCHANGED <<links, added, result>> /\ pc[c] # "idle" /\ (End(c) \/ Fail(c))
    BY <1>3 DEF VerifyInterface, DaemonHealth, kernel, history
  <2> QED
    BY <2>1, EndKeepsLinks, FailKeepsLinks
<1>4. CASE Release(c)
  <2>1. UNCHANGED <<links, added, result>> /\ pc[c] # "idle"
        /\ (End(c) \/ CallFails(c, "network"))
    BY <1>4 DEF Release, kernel
  <2> QED
    BY <2>1, EndKeepsLinks, CallFailsKeepsLinks
<1>5. CASE ConnectionLost(c)
  <2>1. CallFails(c, "network") /\ pc[c] # "idle" /\ UNCHANGED <<links, added, result>>
    BY <1>5 DEF ConnectionLost, kernel, history
  <2> QED
    BY <2>1, CallFailsKeepsLinks
<1> QED
  BY <1>1, <1>2, <1>3, <1>4, <1>5, AllocateKeepsLinks, CheckKeepsLinks, RegisterKeepsLinks,
     StaleKeepsLinks, SetupVethKeepsLinks, ConfigureIfaceKeepsLinks,
     DeleteInterfaceKeepsLinks DEF Step

LEMMA DispatchKeepsLinks ==
    ASSUME LinkInv, NEW c \in Containers, NEW command \in {"ADD", "DEL", "CHECK", "STATUS"},
           Dispatch(c, command)
    PROVE  LinkInv'
<1>1. /\ UNCHANGED <<links, proc, result>> /\ op[c] = None
      /\ op' = [op EXCEPT ![c] = command] /\ added' \subseteq added
      /\ command \in {"ADD", "DEL"} => c \notin added'
  BY DEF Dispatch, kernel
<1>2. PICK step : /\ pc' = [pc EXCEPT ![c] = step]
                  /\ step \in {"stale", "unregister", "health", "status"}
                  /\ command \in {"CHECK", "STATUS"} => step \in {"health", "status"}
  BY DEF Dispatch
<1>3. OnlyProcess(c) /\ pc'[c] = step /\ op'[c] = command
  BY <1>1, <1>2 DEF LinkInv, PodShape, Shape, ProcShape, OnlyProcess
<1>4. step \notin VethSteps \cup {"veth"} /\ {"health", "status"} \subseteq IdleSteps
      /\ command # None
  BY <1>2 DEF VethSteps, IdleSteps, None
<1>5. c \in added' => step \in IdleSteps /\ proc[c].lease = {}
  BY <1>1, <1>2, <1>4 DEF LinkInv, AddedOf
<1> QED
  BY <1>1, <1>3, <1>4, <1>5, QuietKeepsLinks

LEMMA NextKeepsLinks ==
    ASSUME LinkInv, [Next]_vars
    PROVE  LinkInv'
<1>1. ASSUME NEW c \in Containers,
             CreateNetns(c) \/ CreateOnThread(c) \/ RollbackNetns(c) \/ RejectArgs(c)
      PROVE  LinkInv'
  <2>1. UNCHANGED <<links, result, pc, op, proc, added>>
    BY <1>1 DEF CreateNetns, CreateOnThread, RollbackNetns, RejectArgs, kernel, history
  <2> QED
    BY <2>1, StillKeepsLinks DEF LinkInv, PodShape
<1>2. ASSUME NEW c \in Containers, Kill(c) \/ ExitEarly(c)
      PROVE  LinkInv'
  <2>1. End(c) /\ UNCHANGED <<links, result, added>>
    BY <1>2 DEF Kill, ExitEarly, kernel, history
  <2> QED
    BY <2>1, EndKeepsLinks
<1>3. ASSUME NEW c \in Containers, RequestLost(c)
      PROVE  LinkInv'
  <2>1. CallFails(c, "network") /\ pc[c] # "idle" /\ UNCHANGED <<links, added, result>>
    BY <1>3 DEF RequestLost, Requests, kernel, history
  <2> QED
    BY <2>1, CallFailsKeepsLinks
<1>4. CASE DaemonRestart \/ UNCHANGED vars
  <2>1. UNCHANGED <<links, result, pc, op, proc, added>>
    BY <1>4 DEF DaemonRestart, kernel, vars
  <2> QED
    BY <2>1, StillKeepsLinks DEF LinkInv, PodShape
<1> QED
  BY <1>1, <1>2, <1>3, <1>4, DeleteNetnsKeepsLinks, DispatchKeepsLinks,
     ProcessStepKeepsLinks DEF Next

LEMMA InitHasLinks == Init => LinkInv
<1> SUFFICES ASSUME Init PROVE LinkInv
  OBVIOUS
<1>1. ProcShape
  BY DEF Init, ProcShape, Fresh
<1>2. /\ DOMAIN links = {} /\ links = [i \in {} |-> links[i]]
      /\ DOMAIN result = Containers /\ result = [c \in Containers |-> result[c]]
      /\ DOMAIN pc = Containers /\ DOMAIN op = Containers /\ added = {}
      /\ \A c \in Containers : pc[c] = "idle"
  BY DEF Init
<1>3. KernelInv
  BY <1>2, FS_EmptySet DEF KernelInv, LinkShape, LinksArePaired, NamesAreUnique,
     PairsHaveHostEnds
<1>4. "idle" \notin VethSteps \cup {"veth"}
  BY DEF VethSteps
<1> QED
  BY <1>1, <1>2, <1>3, <1>4 DEF LinkInv, PodShape, Shape, VethsAreApart, StepOf, AddedOf

(* A pod that was added keeps both ends of its veth as its ADD configured   *)
(* them (setup_veth, configure_iface: up, MTU, the ADD's address, the two   *)
(* routes, no reverse path filter), whatever the plugin processes of other  *)
(* pods, their failures, kills and rollbacks, and restarts of the daemon do *)
(* in between: every netlink request goes by a handle, and no handle of     *)
(* another process reaches this pod's links.                                *)
THEOREM InterfacesKept == Spec => []AddedIsConfigured
<1>1. Spec => []LinkInv
  BY InitHasLinks, NextKeepsLinks, PTL DEF Spec
<1>2. LinkInv => AddedIsConfigured
  <2> SUFFICES ASSUME LinkInv, NEW c \in added
               PROVE  \E i \in Named(links, c, IfName), j \in Named(links, HostNs, HostName[c]) :
                        /\ links[i].peer = j
                        /\ links[i].up /\ links[j].up
                        /\ links[i].mtu = DeviceMtu /\ links[j].mtu = DeviceMtu
                        /\ links[i].addrs = result[c] /\ result[c] # {}
                        /\ {r.prefix : r \in links[i].routes} = {Gateway, Everything}
                        /\ links[j].sysctl["rp_filter"] = "0"
    BY DEF AddedIsConfigured
  <2>1. PICK i \in DOMAIN links, j \in DOMAIN links : ConfiguredIs(c, i, j)
    BY DEF LinkInv, PodShape, Shape, AddedOf
  <2>2. i \in Named(links, c, IfName) /\ j \in Named(links, HostNs, HostName[c])
    BY <2>1 DEF ConfiguredIs, Named
  <2> QED
    BY <2>1, <2>2 DEF ConfiguredIs, Destinations
<1> QED
  BY <1>1, <1>2, PTL
=============================================================================
