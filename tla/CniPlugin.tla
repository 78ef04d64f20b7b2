----------------------------- MODULE CniPlugin -----------------------------
(***************************************************************************)
(* The CNI plugin (sarena-cni-plugin) with what it works on: the kernel's  *)
(* links (module Network), the pods' network namespaces (netns.rs), the    *)
(* API client with its retries (sarena-api/client) and the handlers of the *)
(* daemon's API server for addresses and endpoints (sarena-api/server).    *)
(*                                                                         *)
(* The runtime starts one plugin process at a time for a container, and    *)
(* processes of different containers run side by side.  A step is one      *)
(* netlink request or one request to the daemon; each may fail, and the    *)
(* process may be killed between any two.  The daemon's own detail is in   *)
(* Ipam and EndpointManager: here it is a set of allocated addresses and   *)
(* the table of endpoints.                                                 *)
(***************************************************************************)
EXTENDS Network, FiniteSets

CONSTANTS
    Containers,   \* container ids; each has the sandbox of its name
    HostName,     \* per container: endpoint_to_ifname, a digest of its id
    TempName,     \* per container: endpoint_to_temp_ifname, a prefix of its id
    IfName,       \* CNI_IFNAME, the same for all containers
    Addrs,        \* addresses of the daemon's subnet
    Gateway,      \* the host address of an allocation
    DeviceMtu, RouteMtu,
    MaxAttempts,  \* RetryPolicy.max_attempts
    MaxOps,       \* bound: plugin processes started
    MaxFaults     \* bound: failed or lost requests, lost answers, failing
                  \* regenerations, kills and restarts

ASSUME CniAssumption ==
    /\ IsFiniteSet(Containers)
    /\ HostNs \notin Containers
    /\ DOMAIN TempName = Containers
    /\ DOMAIN HostName = Containers
    /\ \A c, d \in Containers : HostName[c] = HostName[d] => c = d
    /\ MaxAttempts \in Nat \ {0}
    /\ MaxOps \in Nat
    /\ MaxFaults \in Nat

None == "none"

VARIABLES
    spaces,     \* per container: its namespace is absent, file, ready or deleted
    links,      \* the kernel's links
    allocated,  \* the daemon's allocated addresses
    registered, \* the daemon's endpoints: container, address, host link
    checked,    \* creations between the daemon's checks and the registration
    op,         \* per container: the command its plugin process runs
    pc,         \* per container: the step that process is at
    attempt,    \* per container: the attempt of the current request
    proc,       \* per container: the process's handles to its veth, the
                \* addresses of its IpamLease and the routes still to add
    added,      \* containers whose ADD was the last command and succeeded
    result,     \* per container: the addresses its last ADD returned
    failed,     \* per container: the step at which its last command failed
    reliable,   \* no answer to a release was lost, and no daemon restarted
    ops, faults

vars == <<spaces, links, allocated, registered, checked, op, pc, attempt, proc,
          added, result, failed, reliable, ops, faults>>

kernel == <<spaces, links>>
daemon == <<allocated, registered, checked>>
history == <<added, result, reliable, ops>>

NoHandle == [index |-> 0, name |-> None, ns |-> None]

Fresh == [host |-> NoHandle, peer |-> NoHandle, lease |-> {}, todo |-> <<>>]

(* Interface indices are not used again while a process has them. *)
FreshIndices ==
    LET used == DOMAIN links \cup {proc[c].host.index : c \in Containers}
                             \cup {proc[c].peer.index : c \in Containers}
        free == (1 .. 4 * Cardinality(Containers) + 2) \ used
    IN  <<Min(free), Min(free \ {Min(free)})>>

Init ==
    /\ spaces = [c \in Containers |-> "absent"]
    /\ links = [i \in {} |-> NewLink(None, 0)]
    /\ allocated = {} /\ registered = {} /\ checked = {}
    /\ op = [c \in Containers |-> None]
    /\ pc = [c \in Containers |-> "idle"]
    /\ attempt = [c \in Containers |-> 1]
    /\ proc = [c \in Containers |-> Fresh]
    /\ added = {}
    /\ result = [c \in Containers |-> {}]
    /\ failed = [c \in Containers |-> None]
    /\ reliable = TRUE
    /\ ops = 0 /\ faults = 0

Fault == faults < MaxFaults /\ faults' = faults + 1

-----------------------------------------------------------------------------
(* Network namespaces (netns.rs), created and deleted by the runtime the    *)
(* way the end-to-end tests do it.                                          *)

(* create: the file comes first, exclusively. *)
CreateNetns(c) ==
    /\ spaces[c] = "absent"
    /\ spaces' = [spaces EXCEPT ![c] = "file"]
    /\ UNCHANGED <<links, daemon, op, pc, attempt, proc, history, failed, faults>>

(* create_netns_on_thread: a new namespace is mounted on the file and its   *)
(* loopback brought up.                                                     *)
CreateOnThread(c) ==
    /\ spaces[c] = "file"
    /\ spaces' = [spaces EXCEPT ![c] = "ready"]
    /\ UNCHANGED <<links, daemon, op, pc, attempt, proc, history, failed, faults>>

(* rollback_netns_file, after any failure since the file was created. *)
RollbackNetns(c) ==
    /\ spaces[c] = "file"
    /\ Fault
    /\ spaces' = [spaces EXCEPT ![c] = "absent"]
    /\ UNCHANGED <<links, daemon, op, pc, attempt, proc, history, failed>>

(* delete: unmounted, then the file removed.  The runtime deletes a sandbox *)
(* when no plugin works on it, and names no other one like it.              *)
DeleteNetns(c) ==
    /\ spaces[c] = "ready"
    /\ op[c] = None
    /\ spaces' = [spaces EXCEPT ![c] = "deleted"]
    /\ links' = DeleteNs(links, c)
    /\ added' = added \ {c}
    /\ UNCHANGED <<daemon, op, pc, attempt, proc, result, failed, reliable,
                   ops, faults>>

-----------------------------------------------------------------------------
(* A plugin process. *)

(* The process ends; its handles and leases go with it. *)
End(c) ==
    /\ op' = [op EXCEPT ![c] = None]
    /\ pc' = [pc EXCEPT ![c] = "idle"]
    /\ attempt' = [attempt EXCEPT ![c] = 1]
    /\ proc' = [proc EXCEPT ![c] = Fresh]

Goto(c, step) ==
    /\ pc' = [pc EXCEPT ![c] = step]
    /\ attempt' = [attempt EXCEPT ![c] = 1]
    /\ UNCHANGED <<op, failed>>

(* An error return.  IpamLease::drop spawns the release of what the lease   *)
(* holds; the handles are gone, the links are not.                          *)
Fail(c) ==
    /\ failed' = [failed EXCEPT ![c] = pc[c]]
    /\ IF proc[c].lease = {}
       THEN End(c)
       ELSE /\ pc' = [pc EXCEPT ![c] = "release"]
            /\ attempt' = [attempt EXCEPT ![c] = 1]
            /\ proc' = [proc EXCEPT ![c] = [Fresh EXCEPT !.lease = proc[c].lease]]
            /\ UNCHANGED op

(* dispatch: the arguments are parsed, then the handler starts. *)
Dispatch(c, command) ==
    /\ op[c] = None
    /\ ops < MaxOps
    /\ spaces[c] \in {"ready", "deleted"}
    /\ ops' = ops + 1
    /\ op' = [op EXCEPT ![c] = command]
    /\ failed' = [failed EXCEPT ![c] = None]
    /\ added' = IF command \in {"ADD", "DEL"} THEN added \ {c} ELSE added
    /\ pc' = [pc EXCEPT ![c] = CASE command = "ADD" -> "stale"
                                 [] command = "DEL" -> "unregister"
                                 [] command = "CHECK" -> "health"
                                 [] command = "STATUS" -> "status"]
    /\ UNCHANGED <<kernel, daemon, attempt, proc, result, reliable, faults>>

(* Missing or unreadable arguments, or a chained configuration. *)
RejectArgs(c) ==
    /\ op[c] = None
    /\ ops < MaxOps
    /\ ops' = ops + 1
    /\ failed' = [failed EXCEPT ![c] = "args"]
    /\ UNCHANGED <<kernel, daemon, op, pc, attempt, proc, added, result,
                   reliable, faults>>

(* The process is killed, or exits before a spawned release is through. *)
Kill(c) ==
    /\ op[c] # None
    /\ Fault
    /\ End(c)
    /\ failed' = [failed EXCEPT ![c] = "killed"]
    /\ UNCHANGED <<kernel, daemon, history>>

(* main returns with the error while the release is under way. *)
ExitEarly(c) ==
    /\ pc[c] = "release"
    /\ End(c)
    /\ UNCHANGED <<kernel, daemon, history, failed, faults>>

(* A netlink request: `next` holds the kernel's links after it, or nothing  *)
(* if the kernel refuses it; `after` is the process once it succeeded.      *)
Netlink(c, next, step, after) ==
    \/ /\ links' \in next
       /\ proc' = [proc EXCEPT ![c] = after]
       /\ Goto(c, step)
       /\ UNCHANGED faults
    \/ /\ (next = {} /\ UNCHANGED faults) \/ (next # {} /\ Fault)
       /\ Fail(c)
       /\ UNCHANGED links

-----------------------------------------------------------------------------
(* The API client (send_and_check): a network error or a status of 500 and  *)
(* above is tried again, up to MaxAttempts.                                 *)

(* The status the API server gives an error of a service. *)
Status(error) ==
    CASE error \in {"excluded", "already_allocated", "not_in_range"} -> 400
      [] error = "no_pool" -> 501
      [] error \in {"range_full", "endpoint_known", "not_regenerated"} -> 500

IsRetryable(error) == error = "network" \/ Status(error) >= 500

(* Faulty variant: the attempts are not counted. *)
CallFailsForever(c, error) ==
    IF IsRetryable(error)
    THEN /\ pc' = [pc EXCEPT ![c] = IF @ = "created" THEN "create" ELSE @]
         /\ UNCHANGED <<op, attempt, proc, failed>>
    ELSE Fail(c)

(* A creation that was under way in the daemon is asked for from its start. *)
CallFails(c, error) ==
    IF IsRetryable(error) /\ attempt[c] < MaxAttempts
    THEN /\ attempt' = [attempt EXCEPT ![c] = @ + 1]
         /\ pc' = [pc EXCEPT ![c] = IF @ = "created" THEN "create" ELSE @]
         /\ UNCHANGED <<op, proc, failed>>
    ELSE Fail(c)

Requests == {"config", "allocate", "create", "release", "unregister",
             "health", "status"}

(* The daemon is not reached. *)
RequestLost(c) ==
    /\ pc[c] \in Requests
    /\ Fault
    /\ CallFails(c, "network")
    /\ UNCHANGED <<kernel, daemon, history>>

(* get_config, of a daemon that always has one. *)
GetConfig(c) ==
    /\ pc[c] = "config"
    /\ Goto(c, "allocate")
    /\ UNCHANGED <<kernel, daemon, proc, history, faults>>

(* An allocation whose answer is lost is made again, for another address. *)
Allocate(c) ==
    /\ pc[c] = "allocate"
    /\ \/ /\ allocated = Addrs
          /\ CallFails(c, "range_full")
          /\ UNCHANGED <<allocated, faults>>
       \/ \E a \in Addrs \ allocated :
          /\ allocated' = allocated \cup {a}
          /\ \/ /\ Goto(c, "veth")
                /\ proc' = [proc EXCEPT ![c].lease = {a}]
                /\ UNCHANGED faults
             \/ Fault /\ CallFails(c, "network")
    /\ UNCHANGED <<kernel, registered, checked, history>>

(* A release of what is not allocated succeeds too.  One whose answer is    *)
(* lost is made again, whoever was given the address since.                 *)
Release(c) ==
    /\ pc[c] = "release"
    /\ allocated' = allocated \ proc[c].lease
    /\ \/ /\ End(c)
          /\ UNCHANGED <<failed, reliable, faults>>
       \/ /\ Fault
          /\ reliable' = FALSE
          /\ IF attempt[c] < MaxAttempts THEN CallFails(c, "network")
             ELSE End(c) /\ UNCHANGED failed
    /\ UNCHANGED <<kernel, registered, checked, added, result, ops>>

(* The first half of create_endpoint: neither the container nor the         *)
(* addresses are known.                                                     *)
CheckEndpoint(c) ==
    /\ pc[c] = "create"
    /\ IF \E e \in registered : e.container = c \/ e.addrs \cap proc[c].lease # {}
       THEN CallFails(c, "endpoint_known") /\ UNCHANGED checked
       ELSE /\ checked' = checked \cup
                {[container |-> c, addrs |-> proc[c].lease, link |-> proc[c].host.index]}
            /\ pc' = [pc EXCEPT ![c] = "created"]
            /\ UNCHANGED <<op, attempt, proc, failed>>
    /\ UNCHANGED <<kernel, allocated, registered, history, faults>>

(* Faulty variant: the lease is not disarmed and releases the address. *)
KeepUnset(c) ==
    /\ pc' = [pc EXCEPT ![c] = "release"]
    /\ attempt' = [attempt EXCEPT ![c] = 1]
    /\ UNCHANGED <<op, proc>>

(* The lease is disarmed and the result returned. *)
Keep(c) == End(c)

(* The second half: the endpoint is registered, whoever still waits for the *)
(* answer.  lease.keep is set when the answer arrives; the regeneration may *)
(* fail and the answer may be lost, and the endpoint stays registered.      *)
AddEndpoint(e) ==
    LET c == e.container IN
    /\ e \in checked
    /\ checked' = checked \ {e}
    /\ registered' = registered \cup {e}
    /\ IF pc[c] # "created" \/ proc[c].lease # e.addrs
       THEN UNCHANGED <<op, pc, attempt, proc, added, result, failed, faults>>
       ELSE \/ /\ Keep(c)
               /\ added' = added \cup {c}
               /\ result' = [result EXCEPT ![c] = e.addrs]
               /\ UNCHANGED <<failed, faults>>
            \/ /\ Fault
               /\ \E error \in {"not_regenerated", "network"} : CallFails(c, error)
               /\ UNCHANGED <<added, result>>
    /\ UNCHANGED <<kernel, allocated, reliable, ops>>

(* The daemon comes back with neither addresses nor endpoints: the restored *)
(* endpoints only take their ids again.                                     *)
DaemonRestart ==
    /\ Fault
    /\ reliable' = FALSE
    /\ allocated' = {} /\ registered' = {} /\ checked' = {}
    /\ UNCHANGED <<kernel, op, pc, attempt, proc, added, result, failed, ops>>

(* The connection of a creation that the old daemon was serving breaks. *)
ConnectionLost(c) ==
    /\ pc[c] = "created"
    /\ ~\E e \in checked : e.container = c /\ e.addrs = proc[c].lease
    /\ CallFails(c, "network")
    /\ UNCHANGED <<kernel, daemon, history, faults>>

-----------------------------------------------------------------------------
(* ADD. *)

(* The namespace must open; a link of the interface's name goes. *)
DeleteStale(c) ==
    /\ pc[c] = "stale"
    /\ IF spaces[c] # "ready"
       THEN Fail(c) /\ UNCHANGED <<links, faults>>
       ELSE Netlink(c, IF Named(links, c, IfName) = {} THEN {links}
                       ELSE DeleteLinkInNs(links, c, IfName),
                    "config", proc[c])
    /\ UNCHANGED <<spaces, daemon, history>>

(* A request of ADD at one of its steps. *)
Configure(c, step, next, then, after) ==
    /\ pc[c] = step
    /\ Netlink(c, next, then, after)
    /\ UNCHANGED <<spaces, daemon, history>>

(* setup_veth.  The peer is made in the host's namespace, moves, and only   *)
(* then takes the interface's name: in the host's namespace two pods'       *)
(* interfaces would clash.  create_veth also looks both ends up once they   *)
(* are there; a look-up that fails leaves what a refused move leaves.       *)
SetupVeth(c) ==
    LET h == proc[c].host
        p == proc[c].peer
        f == FreshIndices
    IN
    \/ Configure(c, "veth",
         CreateVethPair(links, f[1], f[2], HostName[c], TempName[c]), "move",
         [proc[c] EXCEPT
            !.host = [index |-> f[1], name |-> HostName[c], ns |-> HostNs],
            !.peer = [index |-> f[2], name |-> TempName[c], ns |-> HostNs]])
    \/ Configure(c, "move", SetNs(links, p, c), "rename",
                 [proc[c] EXCEPT !.peer.ns = c])
    \/ Configure(c, "rename", Rename(links, p, IfName), "rp_filter",
                 [proc[c] EXCEPT !.peer.name = IfName])
    \/ Configure(c, "rp_filter", SetRpFilter(links, h, "0"), "host_mtu", proc[c])
    \/ Configure(c, "host_mtu", SetMtu(links, h, DeviceMtu), "peer_mtu", proc[c])
    \/ Configure(c, "peer_mtu", SetMtu(links, p, DeviceMtu), "host_up", proc[c])
    \/ Configure(c, "host_up", SetUp(links, h), "peer_up", proc[c])

(* configure_iface: up, the address, then the routes narrowest first. *)
ConfigureIface(c) ==
    LET p == proc[c].peer IN
    \/ Configure(c, "peer_up", SetUp(links, p), "addr", proc[c])
    \/ \E a \in proc[c].lease :
         Configure(c, "addr", AddAddr(links, p, a), "route",
                   [proc[c] EXCEPT !.todo =
                        SortNarrowestFirst(Ipv4Routes(Gateway, RouteMtu))])
    \/ /\ proc[c].todo # <<>>
       /\ Configure(c, "route", AddRoute(links, p, Head(proc[c].todo)), "route",
                    [proc[c] EXCEPT !.todo = Tail(@)])
    \/ /\ pc[c] = "route"
       /\ proc[c].todo = <<>>
       /\ Goto(c, "create")
       /\ UNCHANGED <<kernel, daemon, proc, history, faults>>

-----------------------------------------------------------------------------
(* DEL, CHECK and STATUS. *)

(* del: the daemon's delete answers and does nothing. *)
DeleteEndpoint(c) ==
    /\ pc[c] = "unregister"
    /\ Goto(c, "unlink")
    /\ UNCHANGED <<kernel, daemon, proc, history, faults>>

(* The namespace must open; errors of the deletion itself are only logged. *)
DeleteInterface(c) ==
    /\ pc[c] = "unlink"
    /\ IF spaces[c] # "ready"
       THEN Fail(c) /\ UNCHANGED <<links, faults>>
       ELSE /\ \/ /\ links' \in IF Named(links, c, IfName) = {} THEN {links}
                                ELSE DeleteLinkInNs(links, c, IfName)
                  /\ UNCHANGED faults
               \/ Fault /\ UNCHANGED links
            /\ End(c)
            /\ UNCHANGED failed
    /\ UNCHANGED <<spaces, daemon, history>>

(* The daemon reports every endpoint as healthy. *)
EndpointHealth(c) ==
    /\ pc[c] = "health"
    /\ Goto(c, "verify")
    /\ UNCHANGED <<kernel, daemon, proc, history, faults>>

(* verify_interface: the interface has the addresses ADD returned. *)
VerifyInterface(c) ==
    /\ pc[c] = "verify"
    /\ IF \E h \in GetLinkByNameInNs(links, c, IfName) :
             result[c] \subseteq Addresses(links, h)
       THEN End(c) /\ UNCHANGED failed
       ELSE Fail(c)
    /\ UNCHANGED <<kernel, daemon, history, faults>>

DaemonHealth(c) ==
    /\ pc[c] = "status"
    /\ End(c)
    /\ UNCHANGED <<kernel, daemon, history, failed, faults>>

-----------------------------------------------------------------------------
(* What the process of a container does next, of its own accord. *)
Step(c) ==
    \/ GetConfig(c) \/ Allocate(c) \/ Release(c) \/ CheckEndpoint(c)
    \/ (\E e \in checked : e.container = c /\ AddEndpoint(e))
    \/ ConnectionLost(c)
    \/ DeleteStale(c) \/ SetupVeth(c) \/ ConfigureIface(c)
    \/ DeleteEndpoint(c) \/ DeleteInterface(c)
    \/ EndpointHealth(c) \/ VerifyInterface(c) \/ DaemonHealth(c)

Next ==
    \/ \E c \in Containers :
        \/ CreateNetns(c) \/ CreateOnThread(c) \/ RollbackNetns(c)
        \/ DeleteNetns(c)
        \/ \E command \in {"ADD", "DEL", "CHECK", "STATUS"} : Dispatch(c, command)
        \/ RejectArgs(c) \/ Kill(c) \/ ExitEarly(c) \/ RequestLost(c)
        \/ Step(c)
    \/ DaemonRestart

(* A process that is not killed keeps running. *)
Fairness == \A c \in Containers : WF_vars(Step(c))

Spec == Init /\ [][Next]_vars /\ Fairness

-----------------------------------------------------------------------------
(* A pod whose ADD succeeded keeps a working interface, whatever the        *)
(* processes of other pods do, until its own DEL, ADD or sandbox's end:     *)
(* both ends up, the pod's with the addresses the ADD returned, the route   *)
(* to the gateway and the default route through it, the host's without      *)
(* reverse path filter.                                                     *)
AddedIsConfigured ==
    \A c \in added :
        \E i \in Named(links, c, IfName), j \in Named(links, HostNs, HostName[c]) :
            /\ links[i].peer = j
            /\ links[i].up /\ links[j].up
            /\ links[i].mtu = DeviceMtu /\ links[j].mtu = DeviceMtu
            /\ links[i].addrs = result[c] /\ result[c] # {}
            /\ {r.prefix : r \in links[i].routes} = {Gateway, Everything}
            /\ links[j].sysctl["rp_filter"] = "0"

(* As long as no answer to a release was lost and the daemon did not        *)
(* restart, the address of a pod that was added stays allocated and         *)
(* registered for it, and no other pod's ADD, running or done, has it: the  *)
(* leases of ADDs that failed half way are released, but never once more    *)
(* than they were given, also when an allocation or a creation is asked for *)
(* again after it was carried out.                                          *)
AddressesAreKept ==
    reliable => \A c \in added :
        /\ result[c] \subseteq allocated
        /\ \E e \in registered : e.container = c /\ e.addrs = result[c]
        /\ \A d \in Containers \ {c} :
            result[c] \cap (proc[d].lease \cup IF d \in added THEN result[d] ELSE {}) = {}

(* A plugin process comes to an end: its retries are bounded. *)
CommandsEnd == \A c \in Containers : []<>(op[c] = None)

(* "ADD is idempotent": once the namespace is there, an ADD is not refused  *)
(* its veth because of what an earlier ADD of the same container left.      *)
AddIsIdempotent ==
    \A c \in Containers :
        failed[c] = "veth" => Named(links, HostNs, HostName[c]) = {}
=============================================================================
