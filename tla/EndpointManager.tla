--------------------------- MODULE EndpointManager ---------------------------
(***************************************************************************)
(* The endpoint manager of the data plane (sarena-data-plane, endpoint/):  *)
(* the map of endpoints, the pool of endpoint ids, the worker task of each *)
(* endpoint and the queue to the loader, which attaches and detaches       *)
(* programs one command at a time.                                         *)
(*                                                                         *)
(* Create requests (sarena-services, endpoint/service.rs), deletions and   *)
(* holders of handles run concurrently with the workers and the loader.    *)
(* The manager's lock covers single visits to the map only.  A create      *)
(* request adds at most one endpoint, so the request stands for its        *)
(* endpoint and for that endpoint's worker.  The container of a request    *)
(* stands for the container id, the addresses, the pod name and the host   *)
(* interface it carries.  Neither queue's capacity (32 and 16) is reached  *)
(* by the few callers of an instance.                                      *)
(***************************************************************************)
EXTENDS Integers, Sequences, FiniteSets

CONSTANTS
    Requests,       \* create requests
    Containers,
    Container,      \* per request: the container it is for
    EndpointIds,    \* MIN_ID .. MAX_ID
    Users,          \* callers that look an endpoint up and regenerate it
    Deletions,      \* calls of delete_endpoint
    Timeouts,       \* delete_endpoint is given a timeout
    MaxCalls        \* bound: how often a user calls regenerate

NoId == 0
NoEndpoint == "none"

ASSUME EndpointManagerAssumption ==
    /\ Container \in [Requests -> Containers]
    /\ EndpointIds \subseteq Nat \ {0}
    /\ Timeouts \in BOOLEAN
    /\ MaxCalls \in Nat
    /\ Requests \cap Users = {}
    /\ NoEndpoint \notin Requests

Callers == Requests \cup Users

VARIABLES
    booted,       \* restore_old_endpoints has run
    restored,     \* ids it reserved, not in the map
    ids,          \* the ids available (IdCache)
    endpoints,    \* per id: its endpoint, or NoEndpoint
    index,        \* per container: the id it was last added under, or NoId
    create,       \* per request: how far it has come
    idOf,         \* per request: the id of its lease, later of its endpoint
    worker,       \* per endpoint: what its worker is doing
    stop,         \* per endpoint: its token is cancelled
    closed,       \* per endpoint: its queue refuses commands
    aborted,      \* per endpoint: abort was called on its worker
    queue,        \* per endpoint: the callers whose command is queued
    running,      \* per endpoint: the caller whose command runs, at most one
    status,       \* per endpoint: the published phase
    call,         \* per caller: its call of regenerate
    target,       \* per caller: the endpoint its handle is for
    calls,        \* per user: calls of regenerate so far
    deletion,     \* per deletion: how far it has come
    delId,        \* per deletion: its id
    delEndpoint,  \* per deletion: the endpoint it took out of the map
    loaderQueue,  \* commands sent to the loader
    attached      \* per container: the endpoint attached, or NoEndpoint

mapVars == <<booted, restored, endpoints, index>>
createVars == <<create, idOf>>
workerVars == <<worker, closed, running, status>>
stopVars == <<stop, aborted>>
callVars == <<target, calls>>
delVars == <<deletion, delId, delEndpoint>>
loaderVars == <<loaderQueue, attached>>

vars == <<mapVars, ids, createVars, workerVars, stopVars, queue, call, callVars,
          delVars, loaderVars>>

Add(i) == [op |-> "add", endpoint |-> i]
Remove(d, i) == [op |-> "remove", endpoint |-> i, by |-> d]
Commands == {Add(i) : i \in Requests} \cup {Remove(d, i) : d \in Deletions, i \in Requests}

-----------------------------------------------------------------------------
Init ==
    /\ booted = FALSE
    /\ restored = {}
    /\ ids = EndpointIds
    /\ endpoints = [id \in EndpointIds |-> NoEndpoint]
    /\ index = [k \in Containers |-> NoId]
    /\ create = [r \in Requests |-> "idle"]
    /\ idOf = [r \in Requests |-> NoId]
    /\ worker = [r \in Requests |-> "none"]
    /\ stop = [r \in Requests |-> FALSE]
    /\ closed = [r \in Requests |-> FALSE]
    /\ aborted = [r \in Requests |-> FALSE]
    /\ queue = [r \in Requests |-> <<>>]
    /\ running = [r \in Requests |-> {}]
    /\ status = [r \in Requests |-> "created"]
    /\ call = [c \in Callers |-> "none"]
    /\ target = [c \in Callers |-> IF c \in Requests THEN c ELSE NoEndpoint]
    /\ calls = [u \in Users |-> 0]
    /\ deletion = [d \in Deletions |-> "idle"]
    /\ delId = [d \in Deletions |-> NoId]
    /\ delEndpoint = [d \in Deletions |-> NoEndpoint]
    /\ loaderQueue = <<>>
    /\ attached = [k \in Containers |-> NoEndpoint]

(* restore_old_endpoints: reuse and commit the id of every endpoint found   *)
(* in the state directory, before the service takes requests.               *)
Restore(found) ==
    /\ ~booted
    /\ booted' = TRUE
    /\ restored' = found
    /\ ids' = ids \ found
    /\ UNCHANGED <<endpoints, index, createVars, workerVars, stopVars, queue,
                   call, callVars, delVars, loaderVars>>

-----------------------------------------------------------------------------
(* The pool of ids and the indices of the manager. *)

TakeId(id) == ids' = ids \ {id}

GiveId(id) == ids' = ids \cup {id}

UpdateReferences(k, id) == index' = [index EXCEPT ![k] = id]

(* The lookups by container id, address and pod name. *)
Known(k) == index[k] # NoId

-----------------------------------------------------------------------------
(* The create request (DefaultEndpointService::create). *)

(* The lookups: a container or an address that is known is refused. *)
Lookup(r) ==
    /\ booted
    /\ create[r] = "idle"
    /\ create' = [create EXCEPT ![r] =
                    IF Known(Container[r]) THEN "refused" ELSE "checked"]
    /\ UNCHANGED <<mapVars, ids, idOf, workerVars, stopVars, queue, call, callVars,
                   delVars, loaderVars>>

(* allocate_new_id: any available id (the order of a hash set). *)
AllocateNewId(r) ==
    /\ create[r] = "checked"
    /\ \/ \E id \in ids :
             /\ TakeId(id)
             /\ idOf' = [idOf EXCEPT ![r] = id]
             /\ create' = [create EXCEPT ![r] = "leased"]
       \/ /\ ids = {}
          /\ create' = [create EXCEPT ![r] = "refused"]
          /\ UNCHANGED <<ids, idOf>>
    /\ UNCHANGED <<mapVars, workerVars, stopVars, queue, call, callVars, delVars, loaderVars>>

(* add_endpoint and the commit of the lease.  If the id is in the map the   *)
(* lease is dropped, which releases it.                                     *)
AddEndpoint(r) ==
    /\ create[r] = "leased"
    /\ IF endpoints[idOf[r]] # NoEndpoint
       THEN /\ create' = [create EXCEPT ![r] = "refused"]
            /\ GiveId(idOf[r])
            /\ UNCHANGED <<endpoints, index, worker, call>>
       ELSE /\ create' = [create EXCEPT ![r] = "added"]
            /\ endpoints' = [endpoints EXCEPT ![idOf[r]] = r]
            /\ UpdateReferences(Container[r], idOf[r])
            /\ worker' = [worker EXCEPT ![r] = "idle"]
            /\ call' = [call EXCEPT ![r] = "ready"]
            /\ UNCHANGED ids
    /\ UNCHANGED <<booted, restored, idOf, closed, running, status, stopVars, queue,
                   callVars, delVars, loaderVars>>

-----------------------------------------------------------------------------
(* Handles (Endpoint). *)

(* endpoint(id): a user gets a handle, to be used at any later time. *)
GetHandle(u) ==
    /\ call[u] \in {"none", "ok", "failed", "gone", "cancelled"}
    /\ calls[u] < MaxCalls
    /\ \E id \in EndpointIds :
          /\ endpoints[id] # NoEndpoint
          /\ target' = [target EXCEPT ![u] = endpoints[id]]
    /\ calls' = [calls EXCEPT ![u] = @ + 1]
    /\ call' = [call EXCEPT ![u] = "ready"]
    /\ UNCHANGED <<mapVars, ids, createVars, workerVars, stopVars, queue, delVars, loaderVars>>

(* Faulty variant: a worker that is draining or gone accepts the command. *)
RegenerateUnrefused(c) ==
    /\ call[c] = "ready"
    /\ call' = [call EXCEPT ![c] = "queued"]
    /\ queue' = [queue EXCEPT ![target[c]] = Append(@, c)]
    /\ UNCHANGED <<mapVars, ids, createVars, workerVars, stopVars, callVars, delVars, loaderVars>>

(* regenerate: the command is queued, or refused by a worker that is        *)
(* draining or gone.                                                        *)
Regenerate(c) ==
    /\ call[c] = "ready"
    /\ LET i == target[c]
       IN  IF closed[i] \/ worker[i] = "exited"
           THEN call' = [call EXCEPT ![c] = "gone"] /\ UNCHANGED queue
           ELSE /\ call' = [call EXCEPT ![c] = "queued"]
                /\ queue' = [queue EXCEPT ![i] = Append(@, c)]
    /\ UNCHANGED <<mapVars, ids, createVars, workerVars, stopVars, callVars, delVars, loaderVars>>

-----------------------------------------------------------------------------
(* The worker (EndpointWorker::run). *)

(* The select is biased: a stop is seen first, and closes the queue. *)
WorkerClose(i) ==
    /\ worker[i] = "idle"
    /\ stop[i]
    /\ ~closed[i]
    /\ closed' = [closed EXCEPT ![i] = TRUE]
    /\ UNCHANGED <<mapVars, ids, createVars, worker, running, status, stopVars, queue,
                   call, callVars, delVars, loaderVars>>

WorkerTake(i) ==
    /\ worker[i] = "idle"
    /\ stop[i] => closed[i]
    /\ queue[i] # <<>>
    /\ worker' = [worker EXCEPT ![i] = "preparing"]
    /\ running' = [running EXCEPT ![i] = {Head(queue[i])}]
    /\ queue' = [queue EXCEPT ![i] = Tail(@)]
    /\ UNCHANGED <<mapVars, ids, createVars, closed, status, stopVars, call, callVars,
                   delVars, loaderVars>>

(* Faulty variant: the worker leaves without draining its queue. *)
WorkerExitUndrained(i) ==
    /\ worker[i] = "idle"
    /\ closed[i]
    /\ worker' = [worker EXCEPT ![i] = "exited"]
    /\ queue' = [queue EXCEPT ![i] = <<>>]
    /\ call' = [c \in Callers |->
                  IF call[c] = "queued" /\ target[c] = i THEN "cancelled" ELSE call[c]]
    /\ UNCHANGED <<mapVars, ids, createVars, closed, running, status, stopVars,
                   callVars, delVars, loaderVars>>

WorkerExit(i) ==
    /\ worker[i] = "idle"
    /\ closed[i]
    /\ queue[i] = <<>>
    /\ worker' = [worker EXCEPT ![i] = "exited"]
    /\ UNCHANGED <<mapVars, ids, createVars, closed, running, status, stopVars, queue,
                   call, callVars, delVars, loaderVars>>

(* The command ends with an answer, and the worker goes back to its loop. *)
Answer(i, result) ==
    /\ worker' = [worker EXCEPT ![i] = "idle"]
    /\ running' = [running EXCEPT ![i] = {}]
    /\ call' = [c \in Callers |-> IF c \in running[i] THEN result ELSE call[c]]

(* regenerate, up to the loader: the directory and the state file.  A       *)
(* failure to make the directory ends the command; a failure to write the   *)
(* state is like one of the loader: it is published and answered with Ok.   *)
PrepareFails(i) ==
    /\ worker[i] = "preparing"
    /\ \/ Answer(i, "failed") /\ UNCHANGED status
       \/ Answer(i, "ok") /\ status' = [status EXCEPT ![i] = "failed"]
    /\ UNCHANGED <<mapVars, ids, createVars, closed, stopVars, queue, callVars, delVars,
                   loaderVars>>

(* All of it happens in one poll of the task, up to the send. *)
SendAdd(i) ==
    /\ worker[i] = "preparing"
    /\ worker' = [worker EXCEPT ![i] = "adding"]
    /\ loaderQueue' = Append(loaderQueue, Add(i))
    /\ UNCHANGED <<mapVars, ids, createVars, closed, running, status, stopVars, queue,
                   call, callVars, delVars, attached>>

(* Faulty variant: the endpoint is published as Ready whatever the loader    *)
(* answered.                                                                 *)
FinishRegenerateReady(i) ==
    /\ worker[i] \in {"added", "notAdded"}
    /\ Answer(i, "ok")
    /\ status' = [status EXCEPT ![i] = "ready"]
    /\ UNCHANGED <<mapVars, ids, createVars, closed, stopVars, queue, callVars, delVars,
                   loaderVars>>

(* The loader's answer: the directories are swapped (or kept for a look at   *)
(* the failure) and the status is published; an error of the file system    *)
(* leaves it as it was.                                                      *)
FinishRegenerate(i) ==
    /\ worker[i] \in {"added", "notAdded"}
    /\ \/ /\ Answer(i, "ok")
          /\ status' = [status EXCEPT ![i] = IF worker[i] = "added" THEN "ready" ELSE "failed"]
       \/ Answer(i, "failed") /\ UNCHANGED status
    /\ UNCHANGED <<mapVars, ids, createVars, closed, stopVars, queue, callVars, delVars,
                   loaderVars>>

(* An abort takes effect where the task awaits, not in the middle of a poll. *)
WorkerAborted(i) ==
    /\ aborted[i]
    /\ worker[i] \in {"idle", "adding", "added", "notAdded"}
    /\ worker' = [worker EXCEPT ![i] = "exited"]
    /\ queue' = [queue EXCEPT ![i] = <<>>]
    /\ running' = [running EXCEPT ![i] = {}]
    /\ call' = [c \in Callers |->
                  IF call[c] = "queued" /\ target[c] = i THEN "cancelled" ELSE call[c]]
    /\ UNCHANGED <<mapVars, ids, createVars, closed, status, stopVars, callVars, delVars,
                   loaderVars>>

-----------------------------------------------------------------------------
(* delete_endpoint and remove_all. *)

(* An id is deleted by one call at a time, and only if it is in use. *)
Deletable(id) ==
    /\ endpoints[id] # NoEndpoint \/ id \in restored
    /\ \A d \in Deletions : delId[d] = id => deletion[d] \in {"idle", "ok", "failed"}

(* Faulty variant: the worker is not told to stop. *)
DeleteBeginUnstopped(d, id) ==
    /\ booted
    /\ deletion[d] = "idle"
    /\ Deletable(id)
    /\ delId' = [delId EXCEPT ![d] = id]
    /\ delEndpoint' = [delEndpoint EXCEPT ![d] = endpoints[id]]
    /\ endpoints' = [endpoints EXCEPT ![id] = NoEndpoint]
    /\ deletion' = [deletion EXCEPT ![d] =
                      IF endpoints[id] = NoEndpoint THEN "releasing" ELSE "draining"]
    /\ UNCHANGED <<booted, restored, index, ids, createVars, workerVars, stopVars, queue,
                   call, callVars, loaderVars>>

(* The endpoint leaves the map (and the index of container names, which     *)
(* the service leaves empty; the other indices keep it) and is told to      *)
(* stop.  An id without an endpoint is only released.                       *)
DeleteBegin(d, id) ==
    /\ booted
    /\ deletion[d] = "idle"
    /\ Deletable(id)
    /\ delId' = [delId EXCEPT ![d] = id]
    /\ delEndpoint' = [delEndpoint EXCEPT ![d] = endpoints[id]]
    /\ endpoints' = [endpoints EXCEPT ![id] = NoEndpoint]
    /\ IF endpoints[id] = NoEndpoint
       THEN deletion' = [deletion EXCEPT ![d] = "releasing"] /\ UNCHANGED stop
       ELSE /\ deletion' = [deletion EXCEPT ![d] = "draining"]
            /\ stop' = [stop EXCEPT ![endpoints[id]] = TRUE]
    /\ UNCHANGED <<booted, restored, index, ids, createVars, workerVars, aborted, queue,
                   call, callVars, loaderVars>>

(* wait_for_shutdown: the worker has exited ... *)
Drained(d) ==
    /\ deletion[d] = "draining"
    /\ worker[delEndpoint[d]] = "exited"
    /\ deletion' = [deletion EXCEPT ![d] = "drained"]
    /\ UNCHANGED <<mapVars, ids, createVars, workerVars, stopVars, queue, call, callVars,
                   delId, delEndpoint, loaderVars>>

(* ... or the timeout expires and the worker is aborted. *)
DrainTimeout(d) ==
    /\ Timeouts
    /\ deletion[d] = "draining"
    /\ deletion' = [deletion EXCEPT ![d] = "timedOut"]
    /\ aborted' = [aborted EXCEPT ![delEndpoint[d]] = TRUE]
    /\ UNCHANGED <<mapVars, ids, createVars, workerVars, stop, queue, call, callVars,
                   delId, delEndpoint, loaderVars>>

(* Faulty variant: the deletion does not wait for the worker. *)
SendRemoveEarly(d) ==
    /\ deletion[d] \in {"draining", "drained", "timedOut"}
    /\ deletion' = [deletion EXCEPT ![d] = "removing"]
    /\ loaderQueue' = Append(loaderQueue, Remove(d, delEndpoint[d]))
    /\ UNCHANGED <<mapVars, ids, createVars, workerVars, stopVars, queue, call, callVars,
                   delId, delEndpoint, attached>>

SendRemove(d) ==
    /\ deletion[d] \in {"drained", "timedOut"}
    /\ deletion' = [deletion EXCEPT ![d] = "removing"]
    /\ loaderQueue' = Append(loaderQueue, Remove(d, delEndpoint[d]))
    /\ UNCHANGED <<mapVars, ids, createVars, workerVars, stopVars, queue, call, callVars,
                   delId, delEndpoint, attached>>

(* Faulty variant: the id is released as soon as the endpoint has left the   *)
(* map.                                                                      *)
ReleaseIdEarly(d) ==
    /\ deletion[d] \in {"releasing", "draining", "removed", "notRemoved"}
    /\ deletion' = [deletion EXCEPT ![d] = IF @ = "notRemoved" THEN "failed" ELSE "ok"]
    /\ GiveId(delId[d])
    /\ restored' = restored \ {delId[d]}
    /\ UNCHANGED <<booted, endpoints, index, createVars, workerVars, stopVars, queue, call,
                   callVars, delId, delEndpoint, loaderVars>>

(* release_id, whatever the results were, then drained.and(removed). *)
ReleaseId(d) ==
    /\ deletion[d] \in {"releasing", "removed", "notRemoved"}
    /\ deletion' = [deletion EXCEPT ![d] =
                      IF @ = "notRemoved"
                         \/ (delEndpoint[d] # NoEndpoint /\ aborted[delEndpoint[d]])
                      THEN "failed" ELSE "ok"]
    /\ GiveId(delId[d])
    /\ restored' = restored \ {delId[d]}
    /\ UNCHANGED <<booted, endpoints, index, createVars, workerVars, stopVars, queue, call,
                   callVars, delId, delEndpoint, loaderVars>>

(* remove_all: every endpoint is told to stop and the map is emptied; the    *)
(* ids stay allocated and nobody waits.                                      *)
RemoveAll ==
    /\ booted
    /\ \E id \in EndpointIds : endpoints[id] # NoEndpoint
    /\ stop' = [i \in Requests |-> stop[i] \/ \E id \in EndpointIds : endpoints[id] = i]
    /\ endpoints' = [id \in EndpointIds |-> NoEndpoint]
    /\ UNCHANGED <<booted, restored, index, ids, createVars, workerVars, aborted, queue,
                   call, callVars, delVars, loaderVars>>

-----------------------------------------------------------------------------
(* The loader's thread takes one command at a time and answers it.  A       *)
(* command that fails may have done part of its work.                       *)

LoaderAdd(succeeds) ==
    /\ loaderQueue # <<>>
    /\ Head(loaderQueue).op = "add"
    /\ LET i == Head(loaderQueue).endpoint
       IN  /\ \/ attached' = [attached EXCEPT ![Container[i]] = i]
              \/ ~succeeds /\ UNCHANGED attached
           /\ worker' = [worker EXCEPT ![i] =
                IF @ # "adding" THEN @ ELSE IF succeeds THEN "added" ELSE "notAdded"]
    /\ loaderQueue' = Tail(loaderQueue)
    /\ UNCHANGED <<mapVars, ids, createVars, closed, running, status, stopVars, queue,
                   call, callVars, delVars>>

LoaderRemove(succeeds) ==
    /\ loaderQueue # <<>>
    /\ Head(loaderQueue).op = "remove"
    /\ LET command == Head(loaderQueue)
       IN  /\ \/ attached' = [attached EXCEPT ![Container[command.endpoint]] = NoEndpoint]
              \/ ~succeeds /\ UNCHANGED attached
           /\ deletion' = [deletion EXCEPT ![command.by] =
                IF succeeds THEN "removed" ELSE "notRemoved"]
    /\ loaderQueue' = Tail(loaderQueue)
    /\ UNCHANGED <<mapVars, ids, createVars, workerVars, stopVars, queue, call, callVars,
                   delId, delEndpoint>>

-----------------------------------------------------------------------------
Create(r) == Lookup(r) \/ AllocateNewId(r) \/ AddEndpoint(r)

Worker(i) ==
    \/ WorkerClose(i) \/ WorkerTake(i) \/ WorkerExit(i) \/ WorkerAborted(i)
    \/ PrepareFails(i) \/ SendAdd(i) \/ FinishRegenerate(i)

Loader == \E succeeds \in BOOLEAN : LoaderAdd(succeeds) \/ LoaderRemove(succeeds)

Delete(d) == Drained(d) \/ DrainTimeout(d) \/ SendRemove(d) \/ ReleaseId(d)

Next ==
    \/ \E found \in SUBSET EndpointIds : Restore(found)
    \/ \E r \in Requests : Create(r)
    \/ \E u \in Users : GetHandle(u)
    \/ \E c \in Callers : Regenerate(c)
    \/ \E i \in Requests : Worker(i)
    \/ \E d \in Deletions, id \in EndpointIds : DeleteBegin(d, id)
    \/ \E d \in Deletions : Delete(d)
    \/ RemoveAll
    \/ Loader

(* The runtime polls a task that can go on, the loader's thread takes what   *)
(* is sent to it, and a deletion that has begun goes on.  Nobody is obliged  *)
(* to make a call, and a timeout need not expire.                            *)
Fairness ==
    /\ WF_vars(Loader)
    /\ \A i \in Requests : WF_vars(Worker(i))
    /\ \A d \in Deletions : WF_vars(Drained(d) \/ SendRemove(d) \/ ReleaseId(d))

Spec == Init /\ [][Next]_vars /\ Fairness

-----------------------------------------------------------------------------
(* Properties. *)

WorkerStates == {"none", "idle", "preparing", "adding", "added", "notAdded", "exited"}

(* The variables have their types: what is released to the pool of ids is an *)
(* id (manager.rs delete_endpoint), and every command at the loader names an *)
(* endpoint, and a removal the deletion that waits for it.                   *)
TypeOK ==
    /\ booted \in BOOLEAN
    /\ restored \subseteq EndpointIds
    /\ ids \subseteq EndpointIds
    /\ endpoints \in [EndpointIds -> Requests \cup {NoEndpoint}]
    /\ index \in [Containers -> EndpointIds \cup {NoId}]
    /\ create \in [Requests -> {"idle", "checked", "leased", "added", "refused"}]
    /\ idOf \in [Requests -> EndpointIds \cup {NoId}]
    /\ worker \in [Requests -> WorkerStates]
    /\ stop \in [Requests -> BOOLEAN]
    /\ closed \in [Requests -> BOOLEAN]
    /\ aborted \in [Requests -> BOOLEAN]
    /\ queue \in [Requests -> Seq(Callers)]
    /\ running \in [Requests -> SUBSET Callers]
    /\ status \in [Requests -> {"created", "ready", "failed"}]
    /\ call \in [Callers -> {"none", "ready", "queued", "ok", "failed", "gone", "cancelled"}]
    /\ target \in [Callers -> Requests \cup {NoEndpoint}]
    /\ calls \in [Users -> 0 .. MaxCalls]
    /\ deletion \in [Deletions -> {"idle", "draining", "drained", "timedOut", "removing",
                                   "removed", "notRemoved", "releasing", "ok", "failed"}]
    /\ delId \in [Deletions -> EndpointIds \cup {NoId}]
    /\ delEndpoint \in [Deletions -> Requests \cup {NoEndpoint}]
    /\ loaderQueue \in Seq(Commands)
    /\ attached \in [Containers -> Requests \cup {NoEndpoint}]

Live(i) == worker[i] \notin {"none", "exited"}

(* An id belongs to one endpoint at a time: an id that is leased, in the    *)
(* map, or still used by a worker that drains its queue is not available,   *)
(* and no two workers share an id, and with it a state directory            *)
(* (manager.rs add_endpoint, delete_endpoint; id_allocator.rs).  A worker   *)
(* that was aborted is not counted: see NothingSentAfterRemove.             *)
IdsAreExclusive ==
    LET uses(i) == create[i] = "leased" \/ (Live(i) /\ ~aborted[i])
    IN  /\ \A i \in Requests : uses(i) => idOf[i] \notin ids \cup restored
        /\ \A id \in EndpointIds : endpoints[id] # NoEndpoint => id \notin ids
        /\ \A i, j \in Requests : i # j /\ uses(i) /\ uses(j) => idOf[i] # idOf[j]

(* A deletion that succeeded is final: the endpoint's programs are detached *)
(* and nothing it left behind, neither a worker nor a command queued at the *)
(* loader, will attach them again (the comment in delete_endpoint).         *)
DeletedStaysDetached ==
    \A d \in Deletions : deletion[d] = "ok" /\ delEndpoint[d] # NoEndpoint =>
        LET i == delEndpoint[d]
        IN  /\ ~Live(i)
            /\ attached[Container[i]] # i
            /\ \A k \in 1 .. Len(loaderQueue) : loaderQueue[k].endpoint # i

(* A command accepted by the queue is never thrown away: without an abort   *)
(* no caller sees ActorCancelled, though endpoints are stopped while        *)
(* commands are queued ("the ones already queued still run", handle.rs).    *)
QueuedStillRuns ==
    \A c \in Callers : call[c] = "cancelled" => aborted[target[c]]

(* An endpoint in the map whose published status is Ready has its programs  *)
(* attached, unless a regeneration is under way or the container has been   *)
(* given a second endpoint.                                                 *)
ReadyIsAttached ==
    \A id \in EndpointIds : endpoints[id] # NoEndpoint =>
        LET i == endpoints[id]
        IN  status[i] = "ready" /\ worker[i] = "idle"
            /\ (\A j \in Requests \ {i} : Container[j] = Container[i] => worker[j] = "none")
               => attached[Container[i]] = i

(* Every call of regenerate that is queued is answered, also when the       *)
(* endpoint is deleted meanwhile: nobody waits for a reply forever.         *)
CallIsAnswered ==
    \A c \in Callers : []<>(call[c] # "queued")

(* A deletion comes to its end, without a timeout too: the worker drains    *)
(* its queue and exits, the loader answers, and the id is available again.  *)
DeletionEnds ==
    \A d \in Deletions :
        deletion[d] # "idle" ~> deletion[d] \in {"ok", "failed"}

(* The comment in delete_endpoint: "A worker aborted on timeout sends       *)
(* nothing more, and anything it already sent to the loader is serialized   *)
(* before the remove."                                                      *)
NothingSentAfterRemove ==
    \A d \in Deletions : deletion[d] \in {"removed", "ok", "failed"} =>
        \A k \in 1 .. Len(loaderQueue) :
            loaderQueue[k].op = "add" => loaderQueue[k].endpoint # delEndpoint[d]

(* create refuses a container that has an endpoint ("endpoint for container *)
(* {} already exists"): no two endpoints in the map are for one container.  *)
OneEndpointPerContainer ==
    \A id, other \in EndpointIds :
        id # other /\ endpoints[id] # NoEndpoint /\ endpoints[other] # NoEndpoint =>
            Container[endpoints[id]] # Container[endpoints[other]]
=============================================================================
