-------------------------------- MODULE Node --------------------------------
(***************************************************************************)
(* A node's data plane: the daemon that starts, runs, stops and crashes    *)
(* (sarena-daemon init.rs, sarena-data-plane setup.rs and netlink.rs), the *)
(* create requests its API server accepts and drains (api_server.rs), the  *)
(* loader's actor thread and the commands queued for it (actor.rs), the    *)
(* calls of its backend (data_plane_loader.rs, aya_backend.rs, tcx.rs,     *)
(* maps/) one at a time, and what the programs would do with a frame       *)
(* meanwhile (Programs).                                                   *)
(*                                                                         *)
(* What the kernel keeps (links, pinned maps, pinned tcx links) outlives   *)
(* the daemon.  A tcx link is pinned per link name and hook, and stays     *)
(* pinned, defunct, when its device is deleted.  The host's veth pair is   *)
(* part of the table of Network; of a container's pair, which the CNI      *)
(* plugin makes and deletes, only the index of the host's end matters, and *)
(* stands for its MACs, which are as fresh.                                *)
(***************************************************************************)
EXTENDS Network, Programs, FiniteSets

CONSTANTS Containers,  \* the names of the containers' links
          Ips,         \* addresses of containers
          Buffer,      \* the loader's channel_buffer, 16 in the code
          MaxVeth,     \* bound: container devices ever made
          MaxFaults,   \* bound: backend calls that fail
          MaxCrashes   \* bound: crashes and signals

SARENA_HOST == "sarena_host"
SARENA_NET == "sarena_net"
InternalIp == "internal"

ASSUME NodeAssumption ==
    /\ Buffer \in Nat \ {0}
    /\ {MaxVeth, MaxFaults, MaxCrashes} \subseteq Nat
    /\ SARENA_HOST \notin Containers
    /\ "daemon" \notin Containers /\ "manager" \notin Containers
    /\ InternalIp \notin Ips
    /\ None \notin Ips
    /\ None \notin [link : Containers, ip : Ips, mac : Nat]
    /\ None \notin [host_mac : Nat, ipv4 : Ips \cup {InternalIp, None}]
    /\ None \notin [if_index : Nat, container_mac : Nat, host_mac : Nat]

Subnet == "subnet"
Mtu == 1500

AllLinks == Containers \cup {SARENA_HOST}
Hooks == {"ingress", "egress"}
Callers == Containers \cup {"daemon", "manager"}

VARIABLES
    links,    \* the host's veth pair, a table of Network
    rpFilter, \* net.ipv4.conf.all.rp_filter
    veth,     \* index of each container's device, 0 when there is none
    made,     \* container devices made so far
    lxc,      \* lxc_map: EndpointInfo per address
    config,   \* the pinned endpoint_config of each link
    pins,     \* index of the device each pinned tcx link is attached to
    loggers,  \* links with a log-drain thread
    queue,    \* the loader's channel
    actor,    \* what its thread does: [cmd, todo, rest, then, index, failed],
              \* or None
    alive,    \* its thread runs
    call,     \* each caller's call: "idle", "waiting", "ok" or "err"
    phase,    \* of the daemon
    step,     \* of start_control_plane
    known,    \* the endpoint manager's endpoints of this life
    deleted,  \* those delete_endpoint was called for
    request,  \* of each container at the API server: "none", "accepted" or "served"
    owner,    \* history: the last endpoint added with an address
    faults, crashes

kernel == <<links, rpFilter, veth, made, lxc, config, pins>>
loader == <<loggers, queue, actor, alive, call>>
daemon == <<phase, step, known, deleted, request>>
history == <<owner, faults, crashes>>
vars == <<kernel, loader, daemon, history>>

-----------------------------------------------------------------------------
(* LoaderEndpoint, and the steps of the loader's operations on one. *)

HostEndpoint == [link |-> SARENA_HOST, ip |-> None, mac |-> 0]
Endpoint(l, ip, mac) == [link |-> l, ip |-> ip, mac |-> mac]

Device(l) ==
    IF l = SARENA_HOST
    THEN LET up == Named(links, HostNs, SARENA_HOST)
         IN  IF up = {} THEN 0 ELSE CHOOSE i \in up : TRUE
    ELSE veth[l]

Exists(i) == i # 0 /\ (i \in DOMAIN links \/ \E l \in Containers : veth[l] = i)

Do(name, ep) == [do |-> name, ep |-> ep]

(* add_loader_endpoint; the hooks in the order of the manifest. *)
AddSteps(ep) ==
    IF ep.link = SARENA_HOST
    THEN <<Do("resolve", ep), Do("load", ep), Do("egress", ep), Do("ingress", ep)>>
    ELSE <<Do("resolve", ep), Do("load", ep), Do("config", ep), Do("lxc", ep),
           Do("ingress", ep), Do("egress", ep)>>

(* Faulty variant: the maps go before the programs that use them. *)
DetachStepsMapsFirst(ep) ==
    <<Do("stop_logging", ep), Do("unpin_maps", ep), Do("unpin_links", ep)>>

DetachSteps(ep) ==
    <<Do("stop_logging", ep), Do("unpin_links", ep), Do("unpin_maps", ep)>>

RemoveSteps(ep) == <<Do("forget", ep)>> \o DetachSteps(ep)

(* dispatch: the operations on endpoints that make up a command. *)
StepsOf(cmd) ==
    CASE cmd.op = "load"      -> {<<Do("globals", None)>>}
      [] cmd.op = "add"       -> {AddSteps(ep) : ep \in cmd.eps}
      [] cmd.op = "remove"    -> {RemoveSteps(ep) : ep \in cmd.eps}
      [] cmd.op = "list"      -> {<<Do("list", None)>>}
      [] cmd.op = "reconcile" -> {AddSteps(ep) : ep \in cmd.eps}
      [] cmd.op = "shutdown"  -> {<<Do("teardown", None)>>}

(* list_loader_endpoints: every required hook is pinned. *)
Listed == {l \in AllLinks : \A h \in Hooks : pins[l][h] # 0}

-----------------------------------------------------------------------------
(* Calls of the loader (DefaultDataplaneLoader::call). *)

Waiting(c) == [call EXCEPT ![c] = "waiting"]

(* Faulty variant: an operation that fails is not answered. *)
AnswerWhenOk(c, ok) == IF ~ok THEN call[c] ELSE IF c = "daemon" THEN "ok" ELSE "idle"

(* What a caller sees of an answer; a worker's phase is the concern of     *)
(* EndpointManager.                                                        *)
Answer(c, ok) == IF c # "daemon" THEN "idle" ELSE IF ok THEN "ok" ELSE "err"

(* The command is queued once the channel has room; when the thread is    *)
(* gone the call fails.                                                   *)
Send(c, op, eps) ==
    /\ call[c] = "idle"
    /\ \/ /\ alive
          /\ Len(queue) < Buffer
          /\ queue' = Append(queue, [op |-> op, who |-> c, eps |-> eps])
          /\ call' = Waiting(c)
       \/ /\ ~alive
          /\ call' = [call EXCEPT ![c] = Answer(c, FALSE)]
          /\ UNCHANGED queue
    /\ UNCHANGED <<loggers, actor, alive>>

Receive ==
    /\ alive /\ actor = None /\ queue # <<>>
    /\ \E steps \in StepsOf(Head(queue)) :
          actor' = [cmd |-> Head(queue), todo |-> steps,
                    rest |-> StepsOf(Head(queue)) \ {steps},
                    then |-> IF Head(queue).op = "reconcile" THEN <<Do("list", None)>>
                             ELSE <<>>,
                    index |-> 0, failed |-> FALSE]
    /\ queue' = Tail(queue)
    /\ UNCHANGED <<kernel, loggers, alive, call, daemon, history>>

(* The next operation of the command: one of those it has left, in the     *)
(* order of the caller's list or of a hash set, or what follows them.      *)
TakeUp ==
    /\ actor # None /\ actor.todo = <<>>
    /\ \/ \E steps \in actor.rest :
             actor' = [actor EXCEPT !.todo = steps, !.rest = @ \ {steps}]
       \/ /\ actor.rest = {} /\ actor.then # <<>>
          /\ actor' = [actor EXCEPT !.todo = actor.then, !.then = <<>>]
    /\ UNCHANGED <<kernel, loggers, queue, alive, call, daemon, history>>

(* The command is over: its answer.  After Shutdown the thread ends and  *)
(* drops the channel with every command in it, whose calls are cancelled.  *)
Reply ==
    /\ actor # None /\ actor.todo = <<>> /\ actor.rest = {} /\ actor.then = <<>>
    /\ LET cmd  == actor.cmd
           ok   == ~actor.failed
           last == cmd.op = "shutdown"
           lost == IF last THEN {queue[i].who : i \in DOMAIN queue} ELSE {}
           new  == {ep \in cmd.eps : /\ cmd.op = "add" /\ ok
                                     /\ ep.link \in Containers \ deleted
                                     /\ known[ep.link] = ep
                                     /\ veth[ep.link] = ep.mac}
       IN  /\ call' = [c \in Callers |-> CASE c = cmd.who -> Answer(c, ok)
                                           [] c # cmd.who /\ c \in lost -> Answer(c, FALSE)
                                           [] OTHER -> call[c]]
           /\ alive' = ~last
           /\ queue' = IF last THEN <<>> ELSE queue
           /\ owner' = [ip \in Ips |->
                          IF \E ep \in new : ep.ip = ip
                          THEN CHOOSE ep \in new : ep.ip = ip ELSE owner[ip]]
           /\ request' = [l \in Containers |->
                            IF request[l] = "served" /\ l \in lost \cup {cmd.who}
                            THEN "none" ELSE request[l]]
    /\ actor' = None
    /\ UNCHANGED <<kernel, loggers, phase, step, known, deleted, faults, crashes>>

-----------------------------------------------------------------------------
(* The calls of the backend, by the actor's thread. *)

At(do) == actor # None /\ actor.todo # <<>> /\ Head(actor.todo).do = do
Ep == Head(actor.todo).ep

Advance == actor' = [actor EXCEPT !.todo = Tail(@)]

(* An error ends the operation on its endpoint; one on a list, or on an    *)
(* entry of lxc_map that is removed, ends the command.                     *)
Abandon ==
    actor' = IF Head(actor.todo).do \in {"list", "infos", "forget"}
             THEN [actor EXCEPT !.failed = TRUE, !.todo = <<>>, !.rest = {}, !.then = <<>>]
             ELSE [actor EXCEPT !.failed = TRUE, !.todo = <<>>]

(* A required hook that fails to attach is reported in the end. *)
NoteFailure == actor' = [actor EXCEPT !.failed = TRUE, !.todo = Tail(@)]

Backend == UNCHANGED <<links, rpFilter, veth, made, queue, alive, call, daemon, history>>

LoadGlobalMaps ==
    /\ At("globals")
    /\ Advance
    /\ Backend /\ UNCHANGED <<lxc, config, pins, loggers>>

ResolveLink ==
    /\ At("resolve")
    /\ IF Device(Ep.link) = 0
       THEN Abandon
       ELSE actor' = [actor EXCEPT !.index = Device(Ep.link), !.todo = Tail(@)]
    /\ Backend /\ UNCHANGED <<lxc, config, pins, loggers>>

Zero == [host_mac |-> 0, ipv4 |-> None]

(* Pinned maps are opened, missing ones made and pinned. *)
LoadInstance ==
    /\ At("load")
    /\ config' = [config EXCEPT ![Ep.link] = IF @ = None THEN Zero ELSE @]
    /\ loggers' = loggers \cup {Ep.link}
    /\ Advance
    /\ Backend /\ UNCHANGED <<lxc, pins>>

SetEndpointConfig ==
    /\ At("config")
    /\ config' = [config EXCEPT ![Ep.link] = [host_mac |-> Ep.mac, ipv4 |-> Ep.ip]]
    /\ Advance
    /\ Backend /\ UNCHANGED <<lxc, pins, loggers>>

UpsertEndpointInfo ==
    /\ At("lxc")
    /\ lxc' = [lxc EXCEPT ![Ep.ip] = [if_index |-> actor.index,
                                      container_mac |-> Ep.mac, host_mac |-> Ep.mac]]
    /\ Advance
    /\ Backend /\ UNCHANGED <<config, pins, loggers>>

(* Faulty variant: a pin is taken for an attached program. *)
UpsertTcxTrustsPin(l, h) == IF pins[l][h] # 0 THEN pins[l][h] ELSE Device(l)

(* upsert_tcx: the program of a pinned link is replaced where it is; the   *)
(* pin of a defunct one is removed, and the program attached to the device *)
(* that has the name now, if there is one (0: none).                       *)
UpsertTcx(l, h) == IF Exists(pins[l][h]) THEN pins[l][h] ELSE Device(l)

EnsureAttached(h) ==
    /\ At(h)
    /\ pins' = [pins EXCEPT ![Ep.link][h] = UpsertTcx(Ep.link, h)]
    /\ IF UpsertTcx(Ep.link, h) = 0 THEN NoteFailure ELSE Advance
    /\ Backend /\ UNCHANGED <<lxc, config, loggers>>

RemoveEndpointInfo ==
    /\ At("forget")
    /\ lxc' = [lxc EXCEPT ![Ep.ip] = None]
    /\ Advance
    /\ Backend /\ UNCHANGED <<config, pins, loggers>>

StopLogging ==
    /\ At("stop_logging")
    /\ loggers' = loggers \ {Ep.link}
    /\ Advance
    /\ Backend /\ UNCHANGED <<lxc, config, pins>>

RemovePinDir ==
    /\ At("unpin_links")
    /\ pins' = [pins EXCEPT ![Ep.link] = [h \in Hooks |-> 0]]
    /\ Advance
    /\ Backend /\ UNCHANGED <<lxc, config, loggers>>

UnpinMap ==
    /\ At("unpin_maps")
    /\ config' = [config EXCEPT ![Ep.link] = None]
    /\ Advance
    /\ Backend /\ UNCHANGED <<lxc, pins, loggers>>

Links(eps) == {ep.link : ep \in eps}

(* reconcile: what is attached and not wanted. *)
Stale(wanted) == Listed \ Links(wanted)

(* In a reconcile, what is attached and not wanted is detached next. *)
ListPins ==
    /\ At("list")
    /\ IF actor.cmd.op = "list" THEN Advance
       ELSE actor' = [actor EXCEPT !.todo = <<>>, !.then = <<Do("infos", None)>>,
                        !.rest = {DetachSteps(Endpoint(l, None, 0)) :
                                    l \in Stale(actor.cmd.eps)}]
    /\ Backend /\ UNCHANGED <<lxc, config, pins, loggers>>

(* And then the entries of addresses that no wanted endpoint has. *)
ListEndpointInfos ==
    /\ At("infos")
    /\ LET stale == {ip \in Ips : lxc[ip] # None} \ {ep.ip : ep \in actor.cmd.eps}
       IN  actor' = [actor EXCEPT !.todo = <<>>,
                       !.rest = {<<Do("forget", Endpoint(None, ip, 0))>> : ip \in stale}]
    /\ Backend /\ UNCHANGED <<lxc, config, pins, loggers>>

TeardownAll ==
    /\ At("teardown")
    /\ loggers' = {}
    /\ Advance
    /\ Backend /\ UNCHANGED <<lxc, config, pins>>

(* Any call of the backend but the two that stop threads may fail. *)
BackendFails ==
    /\ actor # None /\ actor.todo # <<>> /\ faults < MaxFaults
    /\ Head(actor.todo).do \notin {"stop_logging", "teardown"}
    /\ IF Head(actor.todo).do \in Hooks THEN NoteFailure ELSE Abandon
    /\ faults' = faults + 1
    /\ UNCHANGED <<kernel, loggers, queue, alive, call, daemon, owner, crashes>>

Work ==
    \/ Receive \/ TakeUp \/ Reply
    \/ LoadGlobalMaps \/ ResolveLink \/ LoadInstance \/ SetEndpointConfig
    \/ UpsertEndpointInfo \/ (\E h \in Hooks : EnsureAttached(h)) \/ RemoveEndpointInfo
    \/ StopLogging \/ RemovePinDir \/ UnpinMap \/ ListPins \/ ListEndpointInfos
    \/ TeardownAll

-----------------------------------------------------------------------------
(* Starting the daemon (start_control_plane, setup_host_device,            *)
(* setup_link, set_endpoint_config, restore_old_endpoints).                *)

StartSteps == <<"load", "all_rp_filter", "host", "attach", "host_config", "restore">>

SubnetRoute == Route(Subnet, 24, InternalIp, Mtu)

(* The requests of setup_link. *)
SetupLink(L, h, k) ==
    CASE k = 1 -> SetUp(L, h)
      [] k = 2 -> SetIpv4Forwarding(L, h, "1")
      [] k = 3 -> SetRpFilter(L, h, "0")
      [] k = 4 -> SetAcceptLocal(L, h, "1")
      [] k = 5 -> SetSendRedirects(L, h, "0")
      [] k = 6 -> SetArp(L, h, FALSE)
      [] k = 7 -> SetMtu(L, h, Mtu)

(* The requests of setup_host_device, and the last, for the route to the   *)
(* subnet: the possible tables of links, none when the request fails.      *)
Requests == 17
SetupHostDevice(L, k) ==
    LET On(l, f(_)) == UNION {f(h) : h \in GetLinkByName(L, l)}
    IN  CASE k = 1       -> IF GetLinkByName(L, SARENA_HOST) = {}
                            THEN CreateVethPair(L, 1, 2, SARENA_HOST, SARENA_NET)
                            ELSE {L}
          [] k \in 2 .. 8  -> On(SARENA_HOST, LAMBDA h : SetupLink(L, h, k - 1))
          [] k \in 9 .. 15 -> On(SARENA_NET, LAMBDA h : SetupLink(L, h, k - 8))
          [] k = 16      -> On(SARENA_HOST, LAMBDA h : ReplaceAddr(L, h, InternalIp))
          [] k = 17      -> On(SARENA_HOST, LAMBDA h : AddRoute(L, h, SubnetRoute))

(* The tables after the first n requests; none when one fails. *)
After(n) ==
    LET after[k \in 0 .. Requests] ==
          IF k = 0 THEN {links} ELSE UNION {SetupHostDevice(L, k) : L \in after[k - 1]}
    IN  after[n]

Starting(names) == phase = "starting" /\ StartSteps[step] \in names

Start ==
    /\ phase = "down"
    /\ phase' = "starting" /\ step' = 1
    /\ alive' = TRUE
    /\ UNCHANGED <<kernel, loggers, queue, actor, call, known, deleted, request, history>>

(* The process ends, whatever it was doing. *)
Exit ==
    /\ phase' = "down" /\ step' = 1
    /\ known' = [l \in Containers |-> None] /\ deleted' = {}
    /\ request' = [l \in Containers |-> "none"]
    /\ queue' = <<>> /\ actor' = None /\ alive' = FALSE /\ loggers' = {}
    /\ call' = [c \in Callers |-> "idle"]

SetAllRpFilter ==
    /\ Starting({"all_rp_filter"})
    /\ rpFilter' = "0"
    /\ step' = step + 1
    /\ UNCHANGED <<links, veth, made, lxc, config, pins, loader,
                   phase, known, deleted, request, history>>

(* All the requests, or those up to one that fails (which ends the daemon) *)
(* or that is the last before a crash.                                     *)
ConfigureHost ==
    /\ Starting({"host"})
    /\ \/ /\ links' \in After(Requests)
          /\ step' = step + 1
          /\ UNCHANGED <<loader, phase, known, deleted, request, faults, crashes>>
       \/ /\ \E n \in 0 .. Requests - 1 :
               /\ links' \in After(n)
               /\ \/ faults < MaxFaults /\ faults' = faults + 1 /\ UNCHANGED crashes
                  \/ crashes < MaxCrashes /\ crashes' = crashes + 1 /\ UNCHANGED faults
          /\ Exit
    /\ UNCHANGED <<rpFilter, veth, made, lxc, config, pins, owner>>

(* set_endpoint_config, after the host's programs were attached. *)
WriteHostConfig ==
    /\ Starting({"host_config"})
    /\ config' = [config EXCEPT ![SARENA_HOST] =
                    [host_mac |-> Device(SARENA_HOST), ipv4 |-> InternalIp]]
    /\ step' = step + 1
    /\ UNCHANGED <<links, rpFilter, veth, made, lxc, pins, loader,
                   phase, known, deleted, request, history>>

(* The three steps that call the loader; without state directories there   *)
(* is nothing to restore and no call.                                      *)
AskLoader ==
    /\ Starting({"load", "attach", "restore"})
    /\ call["daemon"] = "idle"
    /\ LET do == StartSteps[step]
       IN  \/ /\ CASE do = "load"    -> Send("daemon", "load", {})
                   [] do = "attach"  -> Send("daemon", "add", {HostEndpoint})
                   [] do = "restore" -> Send("daemon", "list", {})
              /\ UNCHANGED phase
           \/ do = "restore" /\ phase' = "running" /\ UNCHANGED loader
    /\ UNCHANGED <<kernel, step, known, deleted, request, history>>

LoaderAnswered ==
    /\ Starting({"load", "attach", "restore"})
    /\ \/ /\ call["daemon"] = "ok"
          /\ call' = [call EXCEPT !["daemon"] = "idle"]
          /\ IF StartSteps[step] = "restore"
             THEN phase' = "running" /\ UNCHANGED step
             ELSE step' = step + 1 /\ UNCHANGED phase
          /\ UNCHANGED <<loggers, queue, actor, alive, known, deleted, request>>
       \/ call["daemon"] = "err" /\ Exit
    /\ UNCHANGED <<kernel, history>>

-----------------------------------------------------------------------------
(* Stopping it (init_daemon, shutdown_step, spawn_signal_handler). *)

(* A signal, or a task that ended. *)
Stop ==
    /\ phase = "running" /\ crashes < MaxCrashes
    /\ crashes' = crashes + 1
    /\ phase' = "stopping"
    /\ UNCHANGED <<kernel, loader, step, known, deleted, request, owner, faults>>

(* Faulty variant: the listeners do not wait for their connections. *)
DrainedAtOnce ==
    /\ phase = "stopping"
    /\ phase' = "drained"
    /\ UNCHANGED <<kernel, loader, step, known, deleted, request, history>>

(* The daemon's tasks have ended: the listeners accept no more and wait    *)
(* for the connections they have, which finish the request they are at.    *)
Drained ==
    /\ phase = "stopping"
    /\ \A l \in Containers : request[l] = "none"
    /\ phase' = "drained"
    /\ UNCHANGED <<kernel, loader, step, known, deleted, request, history>>

(* The time for it is up: the tasks are aborted, and their connections.    *)
AbortTasks ==
    /\ phase = "stopping"
    /\ phase' = "drained"
    /\ request' = [l \in Containers |-> "none"]
    /\ UNCHANGED <<kernel, loader, step, known, deleted, history>>

ShutdownLoader ==
    /\ phase = "drained"
    /\ Send("daemon", "shutdown", {})
    /\ phase' = "joining"
    /\ UNCHANGED <<kernel, step, known, deleted, request, history>>

(* The loader has answered and its thread was joined. *)
Finish ==
    /\ phase = "joining"
    /\ call["daemon"] # "waiting"
    /\ Exit
    /\ UNCHANGED <<kernel, history>>

(* The time for it is up, also while the command still waits for room in   *)
(* the channel.                                                            *)
ShutdownStepTimeout ==
    /\ phase \in {"drained", "joining"}
    /\ Exit
    /\ UNCHANGED <<kernel, history>>

(* A crash, or a second signal. *)
Crash ==
    /\ phase # "down" /\ crashes < MaxCrashes
    /\ crashes' = crashes + 1
    /\ Exit
    /\ UNCHANGED <<kernel, owner, faults>>

-----------------------------------------------------------------------------
(* Endpoints (EndpointManager), the CNI plugin's devices, and frames. *)

Up == phase \in {"running", "stopping", "drained", "joining"}

(* The API server accepts a connection and reads a create request.         *)
Accept(l) ==
    /\ phase = "running" /\ request[l] = "none" /\ known[l] = None /\ veth[l] # 0
    /\ request' = [request EXCEPT ![l] = "accepted"]
    /\ UNCHANGED <<kernel, loader, phase, step, known, deleted, history>>

(* The request is refused, or the plugin closes the connection, which      *)
(* drops the handler; a worker that was asked goes on.                     *)
Hangup(l) ==
    /\ request[l] # "none"
    /\ request' = [request EXCEPT ![l] = "none"]
    /\ UNCHANGED <<kernel, loader, phase, step, known, deleted, history>>

(* The service refuses a container or an address it knows, also one of a  *)
(* deleted endpoint; otherwise the endpoint is registered and its worker   *)
(* asked to attach it.                                                     *)
CreateEndpoint(l, ip) ==
    /\ request[l] = "accepted" /\ known[l] = None /\ veth[l] # 0
    /\ \A k \in Containers : known[k] # None => known[k].ip # ip
    /\ known' = [known EXCEPT ![l] = Endpoint(l, ip, veth[l])]
    /\ owner' = [owner EXCEPT ![ip] = None]
    /\ Send(l, "add", {known'[l]})
    /\ request' = [request EXCEPT ![l] = IF call'[l] = "waiting" THEN "served" ELSE "none"]
    /\ UNCHANGED <<kernel, phase, step, deleted, faults, crashes>>

Regenerate(l) ==
    /\ Up /\ known[l] # None /\ l \notin deleted
    /\ Send(l, "add", {known[l]})
    /\ UNCHANGED <<kernel, daemon, history>>

(* The worker is drained or aborted; what it sent is in the queue. *)
DeleteEndpoint(l) ==
    /\ Up /\ known[l] # None /\ l \notin deleted
    /\ Send("manager", "remove", {known[l]})
    /\ deleted' = deleted \cup {l}
    /\ owner' = [ip \in Ips |-> IF owner[ip] # None /\ owner[ip].link = l
                                THEN None ELSE owner[ip]]
    /\ UNCHANGED <<kernel, phase, step, known, request, faults, crashes>>

(* The complete set: what runs on the node, of this life or an earlier one. *)
Desired == {HostEndpoint}
           \cup {known[l] : l \in {k \in Containers \ deleted : known[k] # None}}
           \cup {owner[ip] : ip \in {a \in Ips : owner[a] # None}}

Reconcile ==
    /\ phase = "running"
    /\ Send("manager", "reconcile", Desired)
    /\ UNCHANGED <<kernel, daemon, history>>

PlugIn(l) ==
    /\ veth[l] = 0 /\ made < MaxVeth
    /\ made' = made + 1
    /\ veth' = [veth EXCEPT ![l] = made' + 2]
    /\ UNCHANGED <<links, rpFilter, lxc, config, pins, loader, daemon, history>>

Unplug(l) ==
    /\ veth[l] # 0
    /\ veth' = [veth EXCEPT ![l] = 0]
    /\ owner' = [ip \in Ips |-> IF owner[ip] # None /\ owner[ip].link = l
                                THEN None ELSE owner[ip]]
    /\ UNCHANGED <<links, rpFilter, made, lxc, config, pins, loader, daemon,
                   faults, crashes>>

Frame(type, to, size, ttl) ==
    [size |-> size, type |-> type, frag |-> FALSE, request |-> TRUE, src |-> -2,
     dst |-> Broadcast, from |-> "sender", to |-> to, ttl |-> ttl, csum |-> 0]

(* What the program on a link does with a frame that comes from the        *)
(* container, or from the host's stack.                                    *)
Judge(l, f) ==
    IF l = SARENA_HOST THEN TryFromHost(f, lxc)
    ELSE TryFromContainer(f, config[l], lxc, veth[l])

-----------------------------------------------------------------------------
Init ==
    /\ links = <<>> /\ rpFilter = "default"
    /\ veth = [l \in Containers |-> 0] /\ made = 0
    /\ lxc = [ip \in Ips |-> None]
    /\ config = [l \in AllLinks |-> None]
    /\ pins = [l \in AllLinks |-> [h \in Hooks |-> 0]]
    /\ loggers = {}
    /\ queue = <<>> /\ actor = None /\ alive = FALSE
    /\ call = [c \in Callers |-> "idle"]
    /\ phase = "down" /\ step = 1
    /\ known = [l \in Containers |-> None] /\ deleted = {}
    /\ request = [l \in Containers |-> "none"]
    /\ owner = [ip \in Ips |-> None]
    /\ faults = 0 /\ crashes = 0

Daemon ==
    \/ Start \/ SetAllRpFilter \/ ConfigureHost \/ WriteHostConfig
    \/ AskLoader \/ LoaderAnswered \/ Drained \/ AbortTasks
    \/ ShutdownLoader \/ Finish \/ ShutdownStepTimeout

Environment ==
    \/ Stop \/ Crash \/ BackendFails \/ Reconcile
    \/ \E l \in Containers : \/ PlugIn(l) \/ Unplug(l) \/ Regenerate(l) \/ DeleteEndpoint(l)
                             \/ Accept(l) \/ Hangup(l)
                             \/ \E ip \in Ips : CreateEndpoint(l, ip)

Next == Work \/ Daemon \/ Environment

(* The thread and the daemon's own task run; nobody is obliged to signal,  *)
(* to ask for an endpoint or to send a frame.                              *)
Spec == Init /\ [][Next]_vars /\ WF_vars(Work) /\ WF_vars(Daemon)

-----------------------------------------------------------------------------
(* Once the daemon runs the host's device is as setup.rs wants it, however *)
(* far earlier starts came before they failed or crashed: both ends up and *)
(* configured, the address and the subnet's route there, the programs      *)
(* attached to it, their configuration written (start_control_plane,       *)
(* setup_host_device, setup_link).                                         *)
HostIsReady ==
    phase = "running" =>
      /\ rpFilter = "0"
      /\ \A i \in {1, 2} :
            /\ links[i].up /\ ~links[i].arp /\ links[i].mtu = Mtu
            /\ links[i].sysctl = [forwarding |-> "1", rp_filter |-> "0",
                                  accept_local |-> "1", send_redirects |-> "0"]
      /\ InternalIp \in links[1].addrs /\ SubnetRoute \in links[1].routes
      /\ \A h \in Hooks : pins[SARENA_HOST][h] = 1
      /\ config[SARENA_HOST] = [host_mac |-> 1, ipv4 |-> InternalIp]

(* The endpoint that was last added with an address gets its frames, until *)
(* it is deleted or its device goes: the host's program sends an IPv4      *)
(* frame for the address to its device, with its MACs, both its hooks are  *)
(* attached to that device, and its ARP requests are answered with its     *)
(* host MAC.  Other endpoints' commands, reconcile, failures of them, a    *)
(* daemon that stops or crashes between any two calls of the backend, and  *)
(* devices that are replaced do not matter (add_loader_endpoint,           *)
(* remove_loader_endpoint, reconcile, upsert_tcx, try_from_host,           *)
(* process_arp).                                                           *)
AddedIsReachable ==
    \A ip \in {a \in Ips : owner[a] # None} :
       LET e   == owner[ip]
           ip4 == Judge(SARENA_HOST, Frame("ipv4", ip, "all", 2))
           arp == Judge(e.link, Frame("arp", InternalIp, "all", 2))
       IN  /\ ip4.verdict = Redirect(veth[e.link])
           /\ ip4.frame.dst = e.mac /\ ip4.frame.src = e.mac
           /\ \A h \in Hooks : pins[e.link][h] = veth[e.link]
           /\ arp.verdict = RedirectPeer(veth[e.link]) /\ arp.frame.src = e.mac

(* A container's program never runs against an empty configuration, as the *)
(* comment of add_loader_endpoint promises: wherever its hook is attached, *)
(* the link's map is there and written (add_loader_endpoint,               *)
(* detach_loader_endpoint).                                                *)
NeverEmptyConfig ==
    \A l \in Containers :
       Exists(pins[l]["ingress"]) => config[l] \notin {None, Zero}

(* A request that the API server still serves is never cancelled by the    *)
(* shutdown of the loader: its command is not queued behind the one that   *)
(* ends the thread.  The listeners drain their connections first, and a    *)
(* request that takes too long is aborted before (init_daemon, start,      *)
(* unix_listener, serve_connection).                                       *)
RequestsAreServed ==
    \A j \in {k \in DOMAIN queue : queue[k].who \in Containers} :
        request[queue[j].who] = "served" =>
            /\ actor # None => actor.cmd.op # "shutdown"
            /\ \A i \in 1 .. j - 1 : queue[i].op # "shutdown"

(* A command that was queued is answered, cancelled or lost with the       *)
(* daemon: no caller waits for ever, also when the thread is stopped with  *)
(* commands queued behind the shutdown (actor.rs call, spawn, shutdown).   *)
CallsAreAnswered == \A c \in Callers : []<>(call[c] # "waiting")

(* However starts fail, stop or crash, once they cease to the daemon runs: *)
(* no state they leave behind makes a later start fail (setup_host_device  *)
(* finds its device, replaces its address and its route).                  *)
DaemonComesUp == <>[](phase = "running")
=============================================================================
