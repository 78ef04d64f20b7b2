# Sarena in TLA+

TLA+ modules for Sarena: the daemon and its services, the CNI plugin, the
loader and what the data planes do with a frame. They concentrate on the parts
of the code that keep state, run concurrently and have to survive failures. Every module is a
translation of the Rust source; `PROJECT.json` says, definition by definition,
which lines it stands for.

- Model-check a run: `tlc -config MCController.cfg MCController`
- Check the proofs: `tlapm ControllerProofs.tla`, and likewise `IpamProofs`,
  `StateDirProofs`, `EndpointManagerProofs`, `PacketProofs`,
  `SoftDataplaneProofs`, `CniPluginProofs` and `NodeProofs`

## The system

| component | state | operations | interacts with |
|---|---|---|---|
| controller manager (`sarena-data-plane/src/controller`) | map name -> entry, registry of status cells, per controller a watch channel with the newest spec, a cancellation token, a `terminated` token; per task the spec it holds and its failures in a row | `update`, `remove`, `remove_all`, `drop`; runner: run the job, record, wait, stop hook | callers from any thread; one task per controller |
| backoff (`controller/backoff.rs`) | - | `delay`, `jittered` | the runner |
| IPAM service (`sarena-services/src/ipam`) | bitmap and count per family, owner table per pool, exclusions | `allocate` (one family or both), `allocate_ip`, `release`, `exclude_ip`, `dump` | API handlers, concurrently; the CNI plugin behind them |
| endpoint service, endpoint manager, workers (`sarena-services/src/endpoint`, `sarena-data-plane/src/endpoint`) | map id -> handle, secondary indices, pool of ids; per worker a command queue, a stop token, a published status | `create`, `delete_endpoint`, `remove_all`, `restore_old_endpoints`, `regenerate`, the worker loop | the loader's queue; holders of handles |
| state directories (`endpoint/directory.rs`, `persist.rs`) | `<id>`, `<id>_next`, `<id>_stale`, `<id>_next_fail` | write, commit with backup and rollback, restore | the worker; the next start of the process |
| loader (`sarena-data-plane/src/loader`, `setup.rs`, `maps`) | attached hooks, pinned maps | add, remove, list, reconcile, teardown, one command at a time on a thread of its own | workers, deletions, start and shutdown |
| soft data plane (`soft_dataplane.rs`) | routes, backends, connection tracking with a reply index | frames, route and service updates, flush | tests and tools |
| eBPF programs | counters | verdict per packet | the maps the loader writes |
| CNI plugin, API client and server | a lease during `add`; per request the attempt | `add`, `del`, `check`; requests with retries; accept, drain, abort | IPAM and endpoint service, netlink |
| daemon | tasks, shutdown budget | start, signals, ordered shutdown | everything above |
| infra (`sarena-infra`) | handles to links; the kernel's links, namespaces, pinned tcx links | create, rename, move, configure and delete links; namespaces; attach | plugin, daemon, loader |
| Kubernetes operator, CLI, test and build tools | - | logging reconcilers, output | - |

What is hard here: callers and tasks that share a channel, a token and a map but
only hold a lock for a part of an operation (controller, endpoint manager); a
request in two halves with a rollback (IPAM); queues that must be drained before
something is removed, with a timeout that aborts (endpoint deletion); a commit
of four directories by single renames (state directories); retries of requests
that may have been carried out (client); a set-up of links and programs that may
fail or crash between any two system calls, while the kernel keeps what was done
(plugin, loader, daemon). `PROJECT.json` lists each hazard at its
line with the properties that cover it.

## Modules

| module | models | checked by |
|---|---|---|
| `Backoff`, `HostScope`, `Packet` | the pure algorithms: delays; offsets and addresses; prefixes, weighted routes, checksums | `MCAlgorithms` |
| `Programs` (extends `Packet`) | the eBPF programs, as functions of a frame and two maps | `MCAlgorithms`, `MCNode` |
| `Controller` (extends `Backoff`) | controller manager and runner tasks | `MCController` |
| `Ipam` | IPAM service | `MCIpam` |
| `AddressPool` | what the IPAM service promises: the abstract specification of `Ipam` | `MCIpam` (refinement) |
| `EndpointManager` | endpoint service, manager, workers, the loader's queue | `MCEndpointManager` |
| `StateDir` | the directories of one endpoint id | `MCStateDir` |
| `SoftDataplane` (extends `Packet`) | the software data plane | `MCSoftDataplane` |
| `Network` | the kernel's links as `sarena-infra` drives them | `MCCniPlugin`, `MCNode` |
| `CniPlugin` (extends `Network`) | plugin processes, API client, API handlers | `MCCniPlugin` |
| `Node` (extends `Network`, `Programs`) | daemon, API server's requests, loader, maps and hooks, programs | `MCNode` |
| `ControllerProofs`, `IpamProofs`, `StateDirProofs`, `EndpointManagerProofs`, `PacketProofs`, `SoftDataplaneProofs` (extends `PacketProofs`), `CniPluginProofs`, `NodeProofs` (extends `PacketProofs`) | theorems about the module each is named after; `ControllerProofs` also about `Backoff`, `IpamProofs` also about `HostScope`, `NodeProofs` also about the header of `Programs` | tlapm |

`CniPlugin` composes the plugin, the client, the handlers and the network; `Node`
composes the daemon, the loader, the network and the programs. Each keeps of the
other side only what it needs: the daemon of `CniPlugin` is a set of allocated
addresses and a table of endpoints, and the plugin of `Node` plugs a container's
device in and out. The endpoint manager's own races are in `EndpointManager`,
where the loader's commands are one step each; `Node` splits these commands into
the calls of the backend.

A definition whose comment begins with "Faulty variant" is not part of a
specification: it is the definition after it with a plausible mistake, kept to
show that the properties notice it (`mutants` in `PROJECT.json`).

### Controller

`entries`, `registry`, `nextId` are the manager's; `channel` and `seen` the
watch channel; `stop` says how far the call that removes a controller has come
(`detached`: out of the map; `cancelled`: the token fired; `done`: out of the
registry), because the lock on the map is released before the cancellation.
`update` is one step: it holds that lock throughout, and readers of the status
take it. `task`, `held`, `armed`, `errors` are the runner's locals; `hookRuns`
is a history variable. A spec carries the number of the update that sent it, so
that two specs with equal settings are told apart. Time is left out: a timer that
is armed may fire at any moment. A poll of the biased `select!` is one step; the
comment at `WakeStopped` says why that loses nothing. The contents of a job are
its result. A panic counts as an error, as in `guard.rs`. `failure_count`,
`success_count` and time stamps are not kept.

The drop of the whole runtime, which ends tasks without the stop hook, is not
modelled.

### Ipam

An address is its family and its offset in the family's bitmap. The loop of
`allocate_next_family` picks free offsets from a random start until it finds one
that is not excluded; the model chooses the offset and the set of excluded
offsets met on the way (`skipped`), which the code leaves allocated. A request
for both families is two or three steps, one per visit to the lock. A client
releases what it holds with the pool it was told. `ReleaseUnheld` is a release of
an address nobody has, for instance one that is repeated. A repeated release that
comes after the address was given to somebody else frees it under its new holder,
since the service does not ask who calls; that is an assumption on clients here,
and `CniPlugin` shows how a lost answer breaks it. All pools share the bitmaps, as
in the code. A response names the default pool whatever the pool asked for
(`service.rs:346`, though `service.rs:14` calls it the pool "the above IP was
allocated from"), so a release leaves the owner of another pool registered; the
model keeps that.

`AddressPool` is the service as its clients see it: an address has one holder,
and a request for both families is granted both addresses in one step or nothing.
The mapping forgets pools, owners, bits and the address that is between the two
halves of a request: it belongs to nobody yet, although its bit is set.

### EndpointManager

A create request stands for its endpoint and the endpoint's worker. `ids` is the
pool of free ids, `restored` the ids reserved at start, `index` the secondary
indices: a deletion does not clear them (`manager.rs:78`), so a container that
was deleted is refused later. `worker` follows `EndpointWorker::run` and
`regenerate`: `preparing` is the blocking work up to the send to the loader, in
one poll, which an abort cannot interrupt; `adding` waits for the answer. The
loader takes commands one at a time; one that fails may have done part of its
work. The queues' capacities (32 and 16) are not reached by these instances.

`Deletable` is an assumption on callers, who do not exist yet outside tests: an
id is deleted by one call at a time, and only if it is in use. Without it a second
deletion releases an id that may have been given to another endpoint
(`manager.rs:208` does not check). `remove_all` stops the workers and never
releases their ids; the model keeps that.

### StateDir

One id, its four directories, every file operation a step that may fail, and a
crash before any of them. Removing a directory is two operations. A restore lists
and reads in one step (`RestoreChoose`), which changes no file, but any entry of
the listing (`entries`) and any read (`unread`) may fail, and so may the whole
listing, which ends the start; the removals that follow are steps of their own.
`listed` is what it has still to remove; the history variables `taken` and
`missed` hold what the last restore took and whether a restore passed over a state
it prefers because it could not list it or read it. State files
appear by a rename and are complete. A crash is one of the process, not of the
machine: what was written stays. An endpoint's state never changes, but ids are
reused, and the directories of a deleted endpoint are never removed
(`remove_directories` has no caller), so a directory may hold the state of an
earlier endpoint.

One failure is fatal in the code, and the model has it: a single failed read of an
intact `<id>` makes `read_endpoints` take the next directory it can read, for
instance the `_next_fail` of an earlier endpoint, and then remove `<id>`
(`directory.rs:111-152`). The committed state is lost, and if the process crashes
before that removal, the restore after it takes `<id>` after all. The properties
except this case by name (`missed`), and no document of the code speaks of it.

### SoftDataplane

The tables of `soft_dataplane.rs` are partial functions. A frame takes two steps:
it is decided on under the lock (one action per outcome of `decide`:
`DropUnknown`, `TranslateReply`, `TranslateService`, `ForwardOnly`) and sent
without it. The hash of a flow is a constant operator, so nothing depends on its
value. Connections never expire in the code; `FlushConntrack` is the only removal.
A flow that is tracked again with another backend leaves its old reply tuple in
the index; that entry outlives the flow's flush, and a frame that meets it then is
forwarded untranslated (`TranslateReply` models it). Networks that
differ only in host bits are distinct keys, as in the code. Nothing sets the
socket of an encapsulated frame, so such a frame is never sent.

### Network, CniPlugin

`Network` gives for each operation on a link the set of tables that may follow;
the empty set is the operation's error. Netlink requests go by a handle's index,
sysctls by the name the handle was looked up with, both inside its namespace: a
handle of a link that is gone or was moved reaches nothing.

A plugin process is a program counter `pc`, its handles and its lease (`proc`).
Every netlink request and every request to the daemon is a step that may fail; a
request may be lost, and so may its answer after it was carried out. A process may
be killed at any step, and one that failed may exit before the task its lease
spawned has released the address (`ExitEarly`). `create` at the daemon is two
steps (the service's checks and the registration). Errors are retried as
`is_retryable` says, from the status the server gives them: a full range and a
known container are answered with 500 and retried. The daemon may restart, and
then knows neither addresses nor endpoints; the connection of a request it was
serving breaks (`ConnectionLost`), which counts as an attempt. An endpoint that is
registered but cannot be regenerated is answered with 500 and stays registered
(`service.rs:88-91`): the retry is told that the container is known, and the plugin
gives up and releases the address. `reliable` is a history variable that says that
no answer to a release was lost and the daemon did not restart. With either, the
code does give the address of a running pod to another: a release that is made
again frees whoever has the address by then, and a daemon that was restarted knows
no address as taken. Lost requests and lost answers to allocations and creations
are within what `AddressesAreKept` claims. The look-ups at the end of `create_veth`
are part of its step: one that fails leaves what a refused move leaves. The runtime's part
(`CreateNetns`, `DeleteNetns`) follows `netns.rs` with its rollback. The daemon's
delete does nothing, so DEL gives no address back, and DEL fails before it deletes
the interface when the daemon does not answer (its comment says "best effort").

### Programs, Node

`Programs` says what `from_container` and `from_host` do with a frame: the verdict,
the frame as it leaves, the observation points and the error counted.

In `Node` the kernel's state (`links`, `lxc`, `config`, `pins`) outlives the daemon,
whose state (`queue`, `actor`, `call`, `known`, `request`) does not. The loader's
thread takes a command, turns it into operations, one per endpoint, each a list of
calls of the backend (`StepsOf`), takes the operations up in any order (`TakeUp`;
the code walks sets and directories) and makes the calls one at a time; each may
fail (`BackendFails`), with what the code
does then: the operation on that endpoint ends, a hook that does not attach is
reported after the others were tried, and reconcile goes on with the next endpoint. A pinned tcx link is the index of the device it was attached to; when the
device is deleted the pin stays, defunct, and `UpsertTcx` must notice. The daemon's
start is the list `StartSteps`; the host's device is set up by one request of
netlink at a time (`SetupHostDevice`), resumed from whatever an earlier start left.
Shutdown drains the API server's requests, aborts what is left when the time is
up, then shuts the loader down; each step's time limit may expire. Reconcile has
no caller outside tests: the model gives it the complete set it asks for, the
endpoints of earlier lives of the daemon included.

## Runs

| run | result | shows |
|---|---|---|
| `controller` | passes, 86,808 states | map, registry, status and tasks agree; each run of a job begins with the newest spec; no update is lost; a stop always ends, with the stop hook called once |
| `ipam` | passes, 69,268 states | counts are exact, no address is given twice or leaks, owners are true, exclusions hold; the service implements `AddressPool` |
| `endpoint` | passes, 114,492 states | ids are exclusive, a deletion that succeeded is final, queued commands run and are answered, deletions end, Ready means attached |
| `endpoint_abort` | violated | an aborted worker in the middle of a poll still sends its add, after the remove |
| `endpoint_duplicate` | violated | two concurrent creates for one container both succeed |
| `statedir` | passes, 39,600 states | committed state survives crashes and failures, restores converge |
| `statedir_backup` | violated | a restart after a failed rollback takes the uncommitted directory, not the backup |
| `algorithms` | passes, 167,424 states | the backoff loop is its closed form, jitter only shortens (to within a rounding), offsets are exactly the usable addresses, routes are chosen in proportion to their weights, the checksum is the ones' complement sum, and decrementing the TTL keeps it right |
| `dataplane` | passes, 1,699,183 states | an answer to a tracked flow is found and is translated for no other client; routes stay keyed by network and next hop |
| `cni` | passes, 344,943 states | a pod whose ADD succeeded keeps its interface and its address whatever the others do; commands end |
| `cni_repeat` | violated | an ADD that ended between `create_veth` and the rename makes the next ADD of the container fail |
| `node` | passes, 689,031 states | the daemon comes up and sets the host up from whatever was left; an endpoint that was added stays reachable; no program runs against an empty configuration; shutdown cancels no request it still serves; calls are answered |

The four violated runs are findings: each states what a comment, a doc or an
error message of the code says, and `PROJECT.json` quotes it. Other disagreements
that the models show, without a run of their own:

- a remove right after an update runs the stop hook of the replaced spec
  (`runner.rs:96`), though a new spec "replaces the old one" (`spec.rs:8`);
- the pool a response names (see Ipam);
- a frame that meets an index entry whose flow was flushed is forwarded as it is,
  also one that is addressed to a service (see SoftDataplane);
- a jittered delay is "shortened" (`backoff.rs:62`), but `mul_f64` rounds: from about
  2^20 seconds on the result may be longer than the delay by that rounding, and a
  delay at or next to `Duration::MAX` ends in a panic even if nothing is cut;
- reconcile detaches "every attached endpoint not in `desired`"
  (`data_plane_loader.rs:173`), but does not see one that is attached in part.

Bounds:

- `controller`: two names, two kinds of spec that differ in interval and backoff,
  and three updates, so that an update changes the configuration while the job runs,
  and a name is removed and created again while the old task still runs; two
  controllers are made in a behaviour (`MaxIds`), one after the other under one name
  or side by side under two; two failures in a row. The delays themselves are in
  `algorithms`.
- `ipam`: two clients, two pools, one IPv4 and two IPv6 addresses: enough for a
  request to be overtaken between its halves, to fail for one family and to meet
  an excluded address. The clients are symmetric, and no liveness is checked.
- `endpoint`: one id and two requests for two containers, so the second
  request depends on the release of the first one's id; one user with one call
  beside each request's own; one deletion, whose timeout may expire. The two
  violations use two ids and two deletions.
- `algorithms`: addresses of 4 and 5 bits, a cap of 3 host bits, durations up to 7
  with saturation, jitter in halves from -1/2 to 3/2 and NaN; groups of up to three
  routes; bytes of two bits and headers of up to five bytes, where a sum carries
  twice. The product of a delay and a factor is every number that the rounding of
  f64 seconds may give, exact to a unit up to `FloatMax` (here 5, in the code about
  2^20 seconds), and a panic where it may reach `DurationMax`.
- `dataplane`: one client and two frontends that share two backends, so that two
  flows can have one reply tuple; five calls that change a table and three frames.
- `cni`: two containers with one temporary link name (a prefix of the container's
  id), three commands and one fault, which may be a failed request, a lost request
  or answer, a regeneration that fails, a kill or a restart of the daemon.
- `node`: two containers that want one address, a channel with one place (16 in
  the code), so that it is full; two devices, so that one can be replaced; one
  failing call and one crash, each at any point, besides any number of ordered
  shutdowns.
- `statedir`: three endpoints use the id one after the other; two failures, of a
  regeneration or a restore, and two crashes. `CommittedSurvives` needs the bound on failures: with a third failed
  rename (rename and rollback of one commit, then the rename of the next) and
  one more regeneration the last copy is removed (`regenerate.rs:21`).

Deadlock is checked for `ipam` only: the other systems stop when nobody calls.

Fairness: weak fairness of each runner, each worker, the loader, the daemon's main
task, each plugin process that was not killed, and the deletions that have begun, because the runtime polls a task that can go on and
the loader's thread waits for commands. A job ends (it is given the token), a
stop hook is bounded by its timeout, the loader answers each command. Callers
have no fairness, and a timeout need not expire. `DaemonComesUp` assumes that the
daemon is started again whenever it is down, by its supervisor.

## Proofs

Every theorem holds for every value of the constants that satisfies the named
assumptions of its module; TLC evaluates those on every run. An invariant is proved
from an inductive one, which is given here with the reason for each part.

`ControllerProofs` proves for every set of names and specs, every maximal interval
and every bound, of any number of controllers: `TypeOK`, `EntryIsLive`, `StopHookOnce`, `StatusAgrees`, and the
action property `JobUsesNewestSpec`. The assumptions are those of the modules
`Backoff` and `Controller` about the constants' types.

The inductive invariant `Inv` is the conjunction of `TypeOK`, `EntryIsLive`,
`StopHookOnce` and `StatusAgrees` with two facts that are needed to make it
inductive:

- `FreshIds`: an id that has not been given out has no task, was not stopped and
  has no failures, and the map holds only ids that were given out. Without it,
  `Create` could take the id of a running controller.
- `SeenIsHeld`: if the runner has seen the channel's spec, it holds it. From it
  follows `JobUsesNewestSpec`: the timer starts a run only when the channel is
  seen.

`InitInv` and one lemma per action show that `Inv` holds and is kept;
`Invariance` combines them with PTL.

`IpamProofs` proves for every set of clients and pools, every size of the bitmaps
and every set of exclusions: `TypeOK`, `CountIsExact`, `NoDoubleAllocation` and
`NoLeak`. The assumptions are those of `Ipam` about the constants. The inductive
invariant adds `TransitIsOne`: a request for both families has exactly one address
between its halves, and none before and after. Without it the rollback could
forget an address, or an answer could overwrite one. The argument goes through
three lemmas about what a visit to the lock does (`GrantInv`, `RangeFullInv`,
`ReleaseIpInv`) that the lemma of each action cites; two below them,
`SetBitsCounts` and `ClearBitCounts`, relate the count to the cardinality of the
set of bits. `NoDoubleAllocation` and `NoLeak` need each other's tables: a free bit
is held by nobody (`FreeIsUnheld`), and a cleared bit was taken from its only
holder. That a release names an address its caller has, or one nobody has, is the
model's assumption on clients (see Ipam above).

`OwnersTrue` adds `OtherPoolsLeaseIsUnowned`: an address that is held under a pool
other than the default one is not in the default pool's table. Without it a release
with the other pool would clear the bit and leave an owner behind. It rests on
`OwnerAssumption`: the markers for no owner and for an exclusion are no client's name. `ExcludedStaysOut` proves the action property
`ExcludedIsNotHandedOut` from the same invariant.

`Refinement`: `Ipam` implements `AddressPool`. It needs the invariant above, for what
is granted is free because of `NoDoubleAllocation`, and one more, `TransitIsIpv6`:
what a request has between its halves is an IPv6 address, so the IPv4 address it gets
next is of the other family. `HeldGains` and `HeldLoses` say what a change of the
leases is through the mapping; then every action is shown to be one of the pool's, or
none.

`StateDirProofs` proves `TypeOK`, `CommittedSurvives` as long as at most two file
operations have failed (`CommittedSurvivesTwoFaults`; a third failure really can lose
the state, see the bounds above), and `RestoreIsStable` (`RestoreConverges`), with any
number of crashes, endpoints and regenerations. `NextIsWritten` says what is
in the directories at each step of a commit; `CommittedIsKept` says where the committed
state is when it is not in `current`, and how many failures it took to get there. That
budget is what makes it inductive: after one failure the backup is removed only once
`current` is there again. `CleanupSpares` says that what a restore still has to remove
comes after what it took, so that a removal, a failure of one or a crash between two
changes nothing for the next restore; `RestoreChooseInv` shows it for every listing and
every set of failing reads. All of it is about restores that could read what they
prefer (see StateDir above); the step of one that could not is part of the proof, and
sets `missed`.

`EndpointManagerProofs` proves `TypeOK`, `IdsAreExclusive`, `DeletedStaysDetached`,
`ReadyIsAttached` and `QueuedStillRuns`, for every number of requests, ids, users,
deletions and calls. The invariant is built in layers, each proved with the ones
before it:

- `StageInv`: how far requests, workers and deletions have come with one another.
  What is in the map has a worker that was not told to stop; past its wait a deletion's
  worker has ended or was aborted.
- `IdInv`: whoever uses an id (a lease, or a worker that was not aborted) has it to
  itself, and it is neither free nor about to be released by another's deletion.
- `CommandInv`: a command to attach is at the loader for a worker that waits for it,
  or was left by an aborted one, and there is one per worker. This is why no attach
  comes after the detach of a deletion that succeeded.
- `AttachInv`: what was detached for a deletion stays so, and what was added stays
  until its worker is told to stop.
- `QueuedInv`, for `QueuedStillRuns`.

`Deletable`, the assumption on callers described above, is part of the model.

`PacketProofs`: `SelectsByShare` says which route `select_route` takes for which hash,
for a group of any length and any weights, and `SharesFollowWeights` that the hashes 0
to 2 * total - 1, two full turns, choose each next hop twice as often as its weight
says (a weight of 0 counts as 1). This is what `WeightsAreShares` checks for groups of three. The
partial sums are a recursive function; that it exists and grows is shown by induction
over the naturals, which `LeastNat`, `Counting` and `Recursion` derive from the
library's well-foundedness of `<` for sets and functions, without operator parameters.

The properties of the `algorithms` run have a parametrised form each (`IsClosedForm` and
`OnlyShortens` of `Backoff`, `OffsetsAreExact` of `HostScope`, `IsOnesComplement` and
`SharesAreWeights` of `Packet`, `StaysRight` of `Programs`), which is proved for every input:

- `OffsetsExact` (`IpamProofs`): any network whose address is a multiple of its size ends
  within its family (`NetworkFits`), so the addresses to serve are an interval
  (`ServedIs`) and none wraps around. `Pow2` is a recursive function because `2 ^ n` has
  no meaning for the provers; `Pow2Is`, `Pow2Adds` and `Pow2Grows` say what it computes.
- `ChecksumIs` (`PacketProofs`): `FoldIsOnes` shows that the loop that folds the carries
  ends with the sum modulo the largest word, for `FoldingKeepsOnes`: a turn takes away a
  multiple of the largest word and leaves a smaller number that is not 0.
- `TtlStaysRight` (`NodeProofs`): a header is right if its sum and its checksum add up to
  a multiple of the largest word, other than 0 (`RightIsMultiple`). The TTL is one less,
  so the sum is (`FirstCounts`), and the new checksum is one more modulo the largest word.
- `DelayIs` (`ControllerProofs`): `TurnIs` is one turn of the doubling loop. The powers of
  two are any function that starts with 1 and doubles (`PowersExist`: there is one).
  `Backoffs` are all values of the type; that a `max` is a duration is what makes the
  saturating multiplication harmless.
- `JitterShortens` (`ControllerProofs`): `CutIs` bounds every outcome of `Scaled`, the
  product as `mul_f64` may round it, and `SlackIs` the rounding itself. Up to `FloatMax`
  the result is at most the delay; beyond, it is less than a rounding longer, and only
  there, next to `DurationMax`, may it be the panic.

`SoftDataplaneProofs` proves `AnswersAreFound` and `RoutesAreKeyed`. For the first,
`EntryInv` adds that an entry's reply is addressed to its client: entries that share a
reply tuple then have one client, so a flush drops them together and the index entry it
removes was no other client's. For the second, `RetainIs` says what `retain` leaves of
a group. `RoutesShared` joins both: any group that additions and removals can leave is
shared in proportion to its weights.

`CniPluginProofs` proves `AddressesAreKept`, for every number of containers, addresses,
attempts and faults. `LeasesAreOwn` (leases are of allocated addresses and disjoint)
and `ResultsAreOwn` (what was returned is allocated, registered for the pod, and in no
lease) hold as long as `reliable`, the history variable, does. A call that fails keeps
its lease or ends with it, whether or not the daemon carried it out (`CallFailsIs`), so
only a release that is made again can break them; no lease in
`ResultsAreOwn` includes the pod's own, or a repeated ADD that fails would release the
address of the first.

It also proves `AddedIsConfigured` (`InterfacesKept`), without `reliable`: what is said
of the links holds for every failure, kill and restart. The invariant `LinkInv` has
these parts:

- `KernelInv`, of every namespace: links are of the type, a peer's peer is the link
  itself, names are unique in a namespace, and every pair has an end in the host's that
  bears a container's name. So there are never more than two links per container and a
  new pair always finds two unused handles.
- `StepOf`: a process that has come to a step of ADD reaches the two ends of its pair by
  the handles it holds (`HasVeth`), and what the steps before it were to do they did
  (`EndsAre`: renamed, filter off, sized, up, addressed, and of the routes all but those
  still to be added). Every failed call leaves ADD, so nothing is skipped.
- `AddedOf`: what ADD left behind, of the pod's result and the two ends (`ConfiguredIs`).
  After the process ended nobody holds the handles, so the ends are found by their names.
- `VethsAreApart`: no handle of one process is of another's pair.

`Own` is what a step of one container may touch; `StepsAside` shows that such a step
disturbs no other container's part, and each call of the kernel is shown to be within
it. The proof assumes that `Containers` is finite (one node): with infinitely many, the
handles could run out. The routes are programmed narrowest first; `SortNarrowestFirst`
is defined as the one stable permutation, since the provers cannot expand `SortSeq`.

`NodeProofs` proves four invariants of the daemon and the loader, for every number
of containers, addresses and devices, every capacity of the channel and every number of
faults and crashes. Below all of them are the types (`TypeInv`) and `ListInv`, that only
list and reconcile read back what is attached.

- `Served` (`RequestsAreServed`): `ShutInv` says that no shutdown command exists before
  the phase in which the daemon joins the loader, and that then no request is left.
- `Configured` (`NeverEmptyConfig`): `NumberInv` says that devices are never numbered
  alike, so that a pin never comes to life again on a newer device; `ConfigInv` adds
  `InOrder`, that in what is left of the operation at hand a program is attached only
  after its configuration was written and a map is unpinned only after the program is
  gone, wherever failures cut the list.
- `HostReady` (`HostIsReady`): `FlightInv` and `PhaseInv` say that the daemon has one
  call in flight and in which steps of the start; `HostInv` what each step of the start
  has established, whatever an earlier start or a crash left; `AttachInv` that during
  the attachment each hook is pinned, still to be attached, or its failure is remembered.
- `Reached` (`AddedIsReachable`), the longest argument. `OwnersInv` says that the owner
  of an address is reachable now and that nothing the loader has to do (the operation at
  hand, the others of its command, every queued command) takes its address or its link
  away, and that a reconcile wants it. `AddsInv` says how an endpoint becomes an owner:
  each step of its add is left or has done its part, and what is queued behind fits it.
  That a new command fits the owners rests on `KnownInv`: the manager's endpoints and
  the owners never give one link two devices or one address two endpoints. `CommandInv`
  ties a queued add to the manager's endpoint, so that a device plugged in later, whose
  number is greater (`NumberInv`), is not taken for its own. `PinInv` says that no two
  containers' devices or pins share a number, so `upsert_tcx` leaves a program where it
  belongs; `IndexInv`, that the index written to `lxc_map` was resolved by the same
  operation, and is still the endpoint's. `ReachableIs` is the last step, from the maps
  to what the programs do with a frame.

`NodeAssumption` says that the marker of a missing entry is no endpoint, entry or
address, and that the host's own address is no container's: init.rs takes 10.0.0.7 for
the one, and IPAM gives the others from 10.0.10.0/24.

Only model-checked:

- liveness (`UpdateIsRun`, `StopTerminates`, `CallIsAnswered`, `DeletionEnds`,
  `CommandsEnd`, `CallsAreAnswered`, `DaemonComesUp`): TLAPS has no rule for fairness
  and `ENABLED`;
- that the states of the `algorithms` run satisfy its six properties. The parametrised
  forms given above are proved instead, of every input.

## Not modelled

See `components` in `PROJECT.json`.

- The Kubernetes operator's reconcilers only log; its webhook and certificates
  keep no state. The CLI, utilities, build and test tools only read, print or test.
- The listeners' sockets: a second daemon that starts while the first still drains
  takes its socket away (`api_server.rs:64`); one daemon at a time is modelled.
- IPv6 on links, the mounts of the namespace directory (`ensure_netns_dir`), link
  operations nobody calls, the mocks.
- The metrics map (counters that are only read; note that a frame is counted before
  its TTL is checked) and the calls map (no program makes a tail call).
- The texts of `dump`; note that `count_ips_in_cidr` does not count what the bitmap
  holds for the smallest networks.
- What a restart loses is modelled where it shows (`DaemonRestart`, `Start`):
  `restore_old_endpoints` takes ids again but adds no endpoint to the manager, and
  the IPAM service starts empty, so addresses of running pods are given out again.

## Plan

What is left:

1. `EndpointManager`'s loader, whose commands are one step, as the abstraction of
   the loader of `Node`.
2. The listeners' sockets, with two daemons that overlap.
