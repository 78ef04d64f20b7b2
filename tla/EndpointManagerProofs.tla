------------------------ MODULE EndpointManagerProofs ------------------------
(***************************************************************************)
(* Proofs about the endpoint manager, for any number of create requests,   *)
(* containers, ids, users and deletions.  The inductive invariant is built *)
(* in layers, each proved from the ones before it:                         *)
(*                                                                         *)
(*    TypeOK      the types, and what the loader's queue holds;            *)
(*    StageInv    how far a request, its worker and a deletion have come,  *)
(*                one relative to the other;                               *)
(*    IdInv       who has an id;                                           *)
(*    CommandInv  which endpoints are about to be attached;                *)
(*    AttachInv   what is attached.                                        *)
(***************************************************************************)
EXTENDS EndpointManager, SequenceTheorems, TLAPS

(* A deletion that has begun and still has its id. *)
Active ==
    {"draining", "drained", "timedOut", "removing", "removed", "notRemoved", "releasing"}

(* Before the restore nothing has happened. *)
BootFirst ==
    ~booted => /\ restored = {}
               /\ \A r \in Requests : create[r] = "idle"
               /\ \A d \in Deletions : deletion[d] = "idle"

(* A worker is there once its endpoint is in the map; it closes its queue,   *)
(* ends or is aborted only when it was told to stop.                         *)
WorkerStage ==
    \A r \in Requests :
        /\ create[r] = "added" <=> worker[r] # "none"
        /\ create[r] \in {"leased", "added"} => idOf[r] \in EndpointIds
        /\ worker[r] = "none" => status[r] = "created" /\ ~stop[r]
        /\ closed[r] \/ aborted[r] \/ worker[r] = "exited" => stop[r]

(* What is in the map has a worker that was not told to stop. *)
MapStage ==
    \A id \in EndpointIds : endpoints[id] # NoEndpoint =>
        /\ worker[endpoints[id]] # "none"
        /\ idOf[endpoints[id]] = id
        /\ ~stop[endpoints[id]]

(* A deletion's endpoint is its own, and was told to stop; past the wait its *)
(* worker has ended or was aborted, and was aborted only if it timed out.    *)
DeletionStage ==
    /\ \A d \in Deletions :
          /\ deletion[d] # "idle" => delId[d] \in EndpointIds
          /\ deletion[d] \in {"idle", "releasing"} => delEndpoint[d] = NoEndpoint
          /\ deletion[d] \in Active \ {"releasing"} => delEndpoint[d] # NoEndpoint
          /\ delEndpoint[d] # NoEndpoint =>
                /\ stop[delEndpoint[d]]
                /\ deletion[d] \in {"draining", "drained", "ok"} => ~aborted[delEndpoint[d]]
                /\ deletion[d] # "draining" =>
                      worker[delEndpoint[d]] = "exited" \/ aborted[delEndpoint[d]]
    /\ \A d, e \in Deletions :
          delEndpoint[d] = delEndpoint[e] /\ delEndpoint[d] # NoEndpoint => d = e

(* A command to detach is at the loader for a deletion that waits for it,    *)
(* and there is one of it.                                                   *)
RemoveStage ==
    /\ \A k \in 1 .. Len(loaderQueue) : loaderQueue[k].op = "remove" =>
          /\ deletion[loaderQueue[k].by] = "removing"
          /\ delEndpoint[loaderQueue[k].by] = loaderQueue[k].endpoint
    /\ \A k, l \in 1 .. Len(loaderQueue) :
          /\ loaderQueue[k].op = "remove" /\ loaderQueue[l].op = "remove"
          /\ loaderQueue[k].by = loaderQueue[l].by
          => k = l

StageInv == BootFirst /\ WorkerStage /\ MapStage /\ DeletionStage /\ RemoveStage

(* A request has the id of its lease, and of its endpoint while the worker  *)
(* may use it.                                                              *)
Uses(i) == create[i] = "leased" \/ (Live(i) /\ ~aborted[i])

(* An id that a request uses is neither available nor restored, and one      *)
(* request uses it.                                                          *)
UsedIsTaken ==
    /\ ids \cap restored = {}
    /\ \A i \in Requests : Uses(i) => idOf[i] \notin ids \cup restored

UsedOnce == \A i, j \in Requests : i # j /\ Uses(i) /\ Uses(j) => idOf[i] # idOf[j]

(* An id that a deletion will release is not available, and is used by no    *)
(* request but the one that is deleted; it is restored if there is none.     *)
DeletionHasId ==
    /\ \A d \in Deletions : deletion[d] \in Active =>
          /\ delId[d] \notin ids
          /\ deletion[d] = "releasing" <=> delId[d] \in restored
          /\ \A i \in Requests : Uses(i) /\ idOf[i] = delId[d] => i = delEndpoint[d]
    /\ \A d, e \in Deletions :
          d # e /\ deletion[d] \in Active /\ deletion[e] \in Active => delId[d] # delId[e]

IdInv == UsedIsTaken /\ UsedOnce /\ DeletionHasId

(* A command to attach is at the loader for a worker that waits for it, or   *)
(* was left by a worker that was aborted; there is one per worker.           *)
CommandInv ==
    /\ \A k \in 1 .. Len(loaderQueue) : loaderQueue[k].op = "add" =>
          \/ worker[loaderQueue[k].endpoint] = "adding"
          \/ worker[loaderQueue[k].endpoint] = "exited" /\ aborted[loaderQueue[k].endpoint]
    /\ \A k, l \in 1 .. Len(loaderQueue) :
          /\ loaderQueue[k].op = "add" /\ loaderQueue[l].op = "add"
          /\ loaderQueue[k].endpoint = loaderQueue[l].endpoint
          => k = l

(* No other request for the container of i has had a worker. *)
Alone(i) == \A j \in Requests \ {i} : Container[j] = Container[i] => worker[j] = "none"

(* What was removed for a deletion is not attached again, unless its worker  *)
(* was aborted.                                                              *)
RemovedIsDetached ==
    \A d \in Deletions :
        /\ deletion[d] \in {"removed", "ok"}
        /\ delEndpoint[d] # NoEndpoint
        /\ ~aborted[delEndpoint[d]]
        => attached[Container[delEndpoint[d]]] # delEndpoint[d]

(* What was added for an endpoint stays attached until it is told to stop.   *)
AddedIsAttached ==
    \A i \in Requests :
        (status[i] = "ready" \/ worker[i] = "added") /\ ~stop[i] /\ Alone(i)
        => attached[Container[i]] = i

AttachInv == RemovedIsDetached /\ AddedIsAttached

-----------------------------------------------------------------------------
(* The commands. *)
LEMMA CommandsAre ==
    /\ \A i \in Requests :
          Add(i) \in Commands /\ Add(i).op = "add" /\ Add(i).endpoint = i
    /\ \A d \in Deletions, i \in Requests :
          /\ Remove(d, i) \in Commands /\ Remove(d, i).op = "remove"
          /\ Remove(d, i).endpoint = i /\ Remove(d, i).by = d
    /\ \A m \in Commands :
          /\ m.op \in {"add", "remove"}
          /\ m.endpoint \in Requests
          /\ m.op = "remove" => m.by \in Deletions
<1>1. \A i \in Requests :
          Add(i) \in Commands /\ Add(i).op = "add" /\ Add(i).endpoint = i
  BY DEF Add, Commands
<1>2. \A d \in Deletions, i \in Requests :
          /\ Remove(d, i) \in Commands /\ Remove(d, i).op = "remove"
          /\ Remove(d, i).endpoint = i /\ Remove(d, i).by = d
  BY DEF Remove, Commands
<1>3. ASSUME NEW m \in Commands
      PROVE  /\ m.op \in {"add", "remove"}
             /\ m.endpoint \in Requests
             /\ m.op = "remove" => m.by \in Deletions
  <2>1. CASE \E i \in Requests : m = Add(i)
    BY <1>1, <2>1
  <2>2. CASE \E d \in Deletions, i \in Requests : m = Remove(d, i)
    BY <1>2, <2>2
  <2> QED
    BY <2>1, <2>2 DEF Commands
<1> QED
  BY <1>1, <1>2, <1>3

(* A queue of commands, with one more or without its first. *)
LEMMA QueueSteps ==
    ASSUME NEW S, NEW q \in Seq(S)
    PROVE  /\ Len(q) \in Nat /\ \A k \in 1 .. Len(q) : q[k] \in S
           /\ \A m \in S :
                 /\ Append(q, m) \in Seq(S)
                 /\ Len(Append(q, m)) = Len(q) + 1
                 /\ Append(q, m)[Len(q) + 1] = m
                 /\ \A k \in 1 .. Len(q) : Append(q, m)[k] = q[k]
           /\ q # <<>> =>
                 /\ Len(q) >= 1
                 /\ Head(q) = q[1]
                 /\ Tail(q) \in Seq(S)
                 /\ Len(Tail(q)) = Len(q) - 1
                 /\ \A k \in 1 .. Len(q) - 1 : Tail(q)[k] = q[k + 1]
OBVIOUS

-----------------------------------------------------------------------------
(* TypeOK.  What is given back to the pool is an id because a lease and a    *)
(* deletion that has begun have one (StageInv).                              *)

LEMMA InitType == Init => TypeOK
<1> SUFFICES ASSUME Init PROVE TypeOK
  OBVIOUS
<1>1. /\ stop \in [Requests -> BOOLEAN]
      /\ closed \in [Requests -> BOOLEAN]
      /\ aborted \in [Requests -> BOOLEAN]
      /\ booted \in BOOLEAN
  BY Zenon DEF Init
<1>2. loaderQueue \in Seq(Commands) /\ queue \in [Requests -> Seq(Callers)]
  BY DEF Init
<1>3. target \in [Callers -> Requests \cup {NoEndpoint}] /\ calls \in [Users -> 0 .. MaxCalls]
  BY EndpointManagerAssumption DEF EndpointManagerAssumption, Init, Callers
<1> QED
  BY <1>1, <1>2, <1>3 DEF Init, TypeOK, WorkerStates

LEMMA CreateType ==
    ASSUME TypeOK, StageInv, NEW r \in Requests, Create(r)
    PROVE  TypeOK'
<1> USE DEF TypeOK, mapVars, createVars, workerVars, stopVars, callVars, delVars, loaderVars
<1>1. CASE Lookup(r)
  BY <1>1 DEF Lookup
<1>2. CASE AllocateNewId(r)
  BY <1>2 DEF AllocateNewId, TakeId
<1>3. CASE AddEndpoint(r)
  <2>1. idOf[r] \in EndpointIds
    BY <1>3 DEF AddEndpoint, StageInv, WorkerStage
  <2>2. Container[r] \in Containers /\ r \in Callers
    BY EndpointManagerAssumption DEF EndpointManagerAssumption, Callers
  <2>3. CASE endpoints[idOf[r]] # NoEndpoint
    BY <1>3, <2>1, <2>3 DEF AddEndpoint, GiveId
  <2>4. CASE endpoints[idOf[r]] = NoEndpoint
    <3>1. /\ create' = [create EXCEPT ![r] = "added"]
          /\ endpoints' = [endpoints EXCEPT ![idOf[r]] = r]
          /\ index' = [index EXCEPT ![Container[r]] = idOf[r]]
          /\ worker' = [worker EXCEPT ![r] = "idle"]
          /\ call' = [call EXCEPT ![r] = "ready"]
          /\ ids' = ids
      BY <1>3, <2>4, Zenon DEF AddEndpoint, UpdateReferences
    <3>2. /\ endpoints' \in [EndpointIds -> Requests \cup {NoEndpoint}]
          /\ index' \in [Containers -> EndpointIds \cup {NoId}]
          /\ worker' \in [Requests -> WorkerStates]
      BY <2>1, <2>2, <3>1 DEF WorkerStates
    <3> QED
      BY <1>3, <3>1, <3>2 DEF AddEndpoint
  <2> QED
    BY <2>3, <2>4
<1> QED
  BY <1>1, <1>2, <1>3 DEF Create

LEMMA CallType ==
    ASSUME TypeOK, (\E u \in Users : GetHandle(u)) \/ (\E c \in Callers : Regenerate(c))
    PROVE  TypeOK'
<1> USE DEF TypeOK, mapVars, createVars, workerVars, stopVars, callVars, delVars, loaderVars
<1>1. ASSUME NEW u \in Users, GetHandle(u)
      PROVE  TypeOK'
  BY <1>1, EndpointManagerAssumption DEF EndpointManagerAssumption, GetHandle, Callers
<1>2. ASSUME NEW c \in Callers, Regenerate(c)
      PROVE  TypeOK'
  <2>1. queue' \in [Requests -> Seq(Callers)]
    <3>1. ASSUME NEW i \in Requests
          PROVE  Append(queue[i], c) \in Seq(Callers)
      OBVIOUS
    <3>2. queue' = queue \/ queue' = [queue EXCEPT ![target[c]] = Append(@, c)]
      BY <1>2, Zenon DEF Regenerate
    <3> DEFINE longer == Append(queue[target[c]], c)
    <3>3. queue \in [Requests -> Seq(Callers)] /\ target[c] \in Requests => longer \in Seq(Callers)
      BY <3>1
    <3>4. queue' = queue \/ queue' = [queue EXCEPT ![target[c]] = longer]
      BY <3>2
    <3> HIDE DEF longer, TypeOK
    <3>5. queue \in [Requests -> Seq(Callers)]
      BY DEF TypeOK
    <3> QED
      BY <3>3, <3>4, <3>5
  <2>2. call' \in [Callers -> {"none", "ready", "queued", "ok", "failed", "gone", "cancelled"}]
    <3>1. \/ call' = [call EXCEPT ![c] = "gone"]
          \/ call' = [call EXCEPT ![c] = "queued"]
      BY <1>2, Zenon DEF Regenerate
    <3> QED
      BY <3>1
  <2> QED
    BY <1>2, <2>1, <2>2 DEF Regenerate
<1> QED
  BY <1>1, <1>2

LEMMA AnswerType ==
    ASSUME TypeOK, NEW i \in Requests, NEW result \in {"ok", "failed"}, Answer(i, result)
    PROVE  /\ worker' \in [Requests -> WorkerStates]
           /\ running' \in [Requests -> SUBSET Callers]
           /\ call' \in [Callers -> {"none", "ready", "queued", "ok", "failed", "gone",
                                     "cancelled"}]
BY DEF TypeOK, Answer, WorkerStates

LEMMA WorkerType ==
    ASSUME TypeOK, NEW i \in Requests, Worker(i)
    PROVE  TypeOK'
<1> USE DEF TypeOK, mapVars, createVars, workerVars, stopVars, callVars, delVars, loaderVars
<1>1. CASE WorkerClose(i)
  <2>1. closed' \in [Requests -> BOOLEAN]
    BY <1>1, Zenon DEF WorkerClose
  <2> QED
    BY <1>1, <2>1 DEF WorkerClose
<1>2. CASE WorkerTake(i)
  <2>1. queue[i] \in Seq(Callers) /\ queue[i] # <<>>
    BY <1>2 DEF WorkerTake
  <2>2. Head(queue[i]) \in Callers /\ Tail(queue[i]) \in Seq(Callers)
    BY <2>1
  <2> QED
    BY <1>2, <2>2 DEF WorkerTake, WorkerStates
<1>3. CASE WorkerExit(i)
  BY <1>3 DEF WorkerExit, WorkerStates
<1>4. CASE WorkerAborted(i)
  BY <1>4 DEF WorkerAborted, WorkerStates
<1>5. CASE PrepareFails(i)
  BY <1>5, AnswerType DEF PrepareFails
<1>6. CASE SendAdd(i)
  <2>1. loaderQueue' \in Seq(Commands)
    BY <1>6, CommandsAre DEF SendAdd
  <2> QED
    BY <1>6, <2>1 DEF SendAdd, WorkerStates
<1>7. CASE FinishRegenerate(i)
  BY <1>7, AnswerType DEF FinishRegenerate
<1> QED
  BY <1>1, <1>2, <1>3, <1>4, <1>5, <1>6, <1>7 DEF Worker

LEMMA DeleteType ==
    ASSUME TypeOK, StageInv, NEW d \in Deletions,
           (\E id \in EndpointIds : DeleteBegin(d, id)) \/ Delete(d)
    PROVE  TypeOK'
<1> USE DEF TypeOK, mapVars, createVars, workerVars, stopVars, callVars, delVars, loaderVars
<1>1. ASSUME NEW id \in EndpointIds, DeleteBegin(d, id)
      PROVE  TypeOK'
  <2>1. stop' \in [Requests -> BOOLEAN]
    <3>1. \/ stop' = stop
          \/ stop' = [stop EXCEPT ![endpoints[id]] = TRUE]
      BY <1>1, Zenon DEF DeleteBegin
    <3> QED
      BY <3>1, Zenon
  <2>2. endpoints' \in [EndpointIds -> Requests \cup {NoEndpoint}]
    BY <1>1 DEF DeleteBegin
  <2> QED
    BY <1>1, <2>1, <2>2 DEF DeleteBegin
<1>2. CASE Drained(d)
  BY <1>2 DEF Drained
<1>3. CASE DrainTimeout(d)
  <2>1. aborted' \in [Requests -> BOOLEAN]
    BY <1>3, Zenon DEF DrainTimeout
  <2> QED
    BY <1>3, <2>1 DEF DrainTimeout
<1>4. CASE SendRemove(d)
  <2>1. delEndpoint[d] \in Requests
    BY <1>4 DEF SendRemove, StageInv, DeletionStage, Active
  <2>2. loaderQueue' \in Seq(Commands)
    BY <1>4, <2>1, CommandsAre DEF SendRemove
  <2> QED
    BY <1>4, <2>2 DEF SendRemove
<1>5. CASE ReleaseId(d)
  <2>1. delId[d] \in EndpointIds
    BY <1>5 DEF ReleaseId, StageInv, DeletionStage
  <2> QED
    BY <1>5, <2>1 DEF ReleaseId, GiveId
<1> QED
  BY <1>1, <1>2, <1>3, <1>4, <1>5 DEF Delete

LEMMA RestType ==
    ASSUME TypeOK, (\E found \in SUBSET EndpointIds : Restore(found)) \/ RemoveAll
    PROVE  TypeOK'
<1> USE DEF TypeOK, mapVars, createVars, workerVars, stopVars, callVars, delVars, loaderVars
<1>1. ASSUME NEW found \in SUBSET EndpointIds, Restore(found)
      PROVE  TypeOK'
  <2>1. booted' \in BOOLEAN
    BY <1>1, Zenon DEF Restore
  <2> QED
    BY <1>1, <2>1 DEF Restore
<1>2. CASE RemoveAll
  <2>1. stop' \in [Requests -> BOOLEAN]
    BY <1>2, Zenon DEF RemoveAll
  <2>2. endpoints' \in [EndpointIds -> Requests \cup {NoEndpoint}]
    BY <1>2 DEF RemoveAll
  <2> QED
    BY <1>2, <2>1, <2>2 DEF RemoveAll
<1> QED
  BY <1>1, <1>2

LEMMA LoaderType ==
    ASSUME TypeOK, Loader
    PROVE  TypeOK'
<1> USE DEF TypeOK, mapVars, createVars, workerVars, stopVars, callVars, delVars, loaderVars
<1>1. ASSUME NEW succeeds \in BOOLEAN, LoaderAdd(succeeds)
      PROVE  TypeOK'
  <2>1. Head(loaderQueue) \in Commands /\ Tail(loaderQueue) \in Seq(Commands)
    BY <1>1 DEF LoaderAdd
  <2>2. Head(loaderQueue).endpoint \in Requests
    BY <2>1, CommandsAre
  <2>3. worker' \in [Requests -> WorkerStates]
    BY <1>1 DEF LoaderAdd, WorkerStates
  <2> QED
    BY <1>1, <2>1, <2>2, <2>3 DEF LoaderAdd
<1>2. ASSUME NEW succeeds \in BOOLEAN, LoaderRemove(succeeds)
      PROVE  TypeOK'
  <2>1. Tail(loaderQueue) \in Seq(Commands)
    BY <1>2 DEF LoaderRemove
  <2> QED
    BY <1>2, <2>1 DEF LoaderRemove
<1> QED
  BY <1>1, <1>2 DEF Loader

LEMMA NextType ==
    ASSUME TypeOK, StageInv, [Next]_vars
    PROVE  TypeOK'
<1>1. CASE UNCHANGED vars
  BY <1>1 DEF TypeOK, vars, mapVars, createVars, workerVars, stopVars, callVars, delVars, loaderVars
<1> QED
  BY <1>1, CreateType, CallType, WorkerType, DeleteType, RestType, LoaderType DEF Next

-----------------------------------------------------------------------------
(* StageInv. *)

LEMMA CreateStage ==
    ASSUME TypeOK, StageInv, NEW r \in Requests, Create(r)
    PROVE  StageInv'
<1> USE DEF StageInv, mapVars, createVars, workerVars, stopVars, callVars, delVars, loaderVars
<1>1. CASE Lookup(r)
  <2>1. BootFirst'
    BY <1>1 DEF Lookup, BootFirst
  <2>2. WorkerStage'
    BY <1>1 DEF Lookup, WorkerStage
  <2>3. MapStage'
    BY <1>1 DEF Lookup, MapStage
  <2>4. DeletionStage'
    BY <1>1 DEF Lookup, DeletionStage
  <2>5. RemoveStage'
    BY <1>1 DEF Lookup, RemoveStage
  <2> QED
    BY <2>1, <2>2, <2>3, <2>4, <2>5
<1>2. CASE AllocateNewId(r)
  <2>1. BootFirst'
    BY <1>2 DEF AllocateNewId, BootFirst
  <2>2. WorkerStage'
    BY <1>2 DEF AllocateNewId, WorkerStage, TypeOK
  <2>3. MapStage'
    BY <1>2 DEF AllocateNewId, MapStage, TypeOK, WorkerStage
  <2>4. DeletionStage'
    BY <1>2 DEF AllocateNewId, DeletionStage
  <2>5. RemoveStage'
    BY <1>2 DEF AllocateNewId, RemoveStage
  <2> QED
    BY <2>1, <2>2, <2>3, <2>4, <2>5
<1>3. CASE AddEndpoint(r)
  <2>1. BootFirst'
    BY <1>3 DEF AddEndpoint, BootFirst
  <2>2. WorkerStage'
    BY <1>3 DEF AddEndpoint, WorkerStage, TypeOK
  <2>3. MapStage'
    BY <1>3 DEF AddEndpoint, MapStage, TypeOK, WorkerStage
  <2>4. DeletionStage'
    BY <1>3 DEF AddEndpoint, DeletionStage, TypeOK, WorkerStage
  <2>5. RemoveStage'
    BY <1>3 DEF AddEndpoint, RemoveStage
  <2> QED
    BY <2>1, <2>2, <2>3, <2>4, <2>5
<1> QED
  BY <1>1, <1>2, <1>3 DEF Create

LEMMA WorkerStageKept ==
    ASSUME TypeOK, StageInv, NEW i \in Requests, Worker(i)
    PROVE  StageInv'
<1> USE DEF StageInv, mapVars, createVars, workerVars, stopVars, callVars, delVars, loaderVars
<1>1. CASE WorkerClose(i)
  <2>1. BootFirst'
    BY <1>1 DEF WorkerClose, BootFirst
  <2>2. WorkerStage'
    BY <1>1 DEF WorkerClose, WorkerStage
  <2>3. MapStage'
    BY <1>1 DEF WorkerClose, MapStage
  <2>4. DeletionStage'
    BY <1>1 DEF WorkerClose, DeletionStage
  <2>5. RemoveStage'
    BY <1>1 DEF WorkerClose, RemoveStage
  <2> QED
    BY <2>1, <2>2, <2>3, <2>4, <2>5
<1>2. CASE WorkerTake(i)
  <2>1. BootFirst'
    BY <1>2 DEF WorkerTake, BootFirst
  <2>2. WorkerStage'
    BY <1>2 DEF WorkerTake, WorkerStage
  <2>3. MapStage'
    BY <1>2 DEF WorkerTake, MapStage
  <2>4. DeletionStage'
    BY <1>2 DEF WorkerTake, DeletionStage
  <2>5. RemoveStage'
    BY <1>2 DEF WorkerTake, RemoveStage
  <2> QED
    BY <2>1, <2>2, <2>3, <2>4, <2>5
<1>3. CASE WorkerExit(i)
  <2>1. BootFirst'
    BY <1>3 DEF WorkerExit, BootFirst
  <2>2. WorkerStage'
    BY <1>3 DEF WorkerExit, WorkerStage
  <2>3. MapStage'
    BY <1>3 DEF WorkerExit, MapStage
  <2>4. DeletionStage'
    BY <1>3 DEF WorkerExit, DeletionStage
  <2>5. RemoveStage'
    BY <1>3 DEF WorkerExit, RemoveStage
  <2> QED
    BY <2>1, <2>2, <2>3, <2>4, <2>5
<1>4. CASE WorkerAborted(i)
  <2>1. BootFirst'
    BY <1>4 DEF WorkerAborted, BootFirst
  <2>2. WorkerStage'
    BY <1>4 DEF WorkerAborted, WorkerStage
  <2>3. MapStage'
    BY <1>4 DEF WorkerAborted, MapStage
  <2>4. DeletionStage'
    BY <1>4 DEF WorkerAborted, DeletionStage
  <2>5. RemoveStage'
    BY <1>4 DEF WorkerAborted, RemoveStage
  <2> QED
    BY <2>1, <2>2, <2>3, <2>4, <2>5
<1>5. CASE PrepareFails(i)
  <2>1. BootFirst'
    BY <1>5 DEF PrepareFails, BootFirst
  <2>2. WorkerStage'
    BY <1>5 DEF PrepareFails, WorkerStage, TypeOK, Answer
  <2>3. MapStage'
    BY <1>5 DEF PrepareFails, MapStage, TypeOK, Answer
  <2>4. DeletionStage'
    BY <1>5 DEF PrepareFails, DeletionStage, TypeOK, Answer
  <2>5. RemoveStage'
    BY <1>5 DEF PrepareFails, RemoveStage
  <2> QED
    BY <2>1, <2>2, <2>3, <2>4, <2>5
<1>6. CASE SendAdd(i)
  <2>1. BootFirst'
    BY <1>6 DEF SendAdd, BootFirst
  <2>2. WorkerStage'
    BY <1>6 DEF SendAdd, WorkerStage
  <2>3. MapStage'
    BY <1>6 DEF SendAdd, MapStage
  <2>4. DeletionStage'
    BY <1>6 DEF SendAdd, DeletionStage
  <2>5. RemoveStage'
    <3>1. /\ Len(loaderQueue) \in Nat /\ Len(loaderQueue') = Len(loaderQueue) + 1
          /\ loaderQueue'[Len(loaderQueue) + 1].op = "add"
          /\ \A k \in 1 .. Len(loaderQueue) : loaderQueue'[k] = loaderQueue[k]
      BY <1>6, CommandsAre, QueueSteps DEF SendAdd, TypeOK
    <3>2. deletion' = deletion /\ delEndpoint' = delEndpoint
      BY <1>6 DEF SendAdd
    <3>3. \A k \in 1 .. Len(loaderQueue') : loaderQueue'[k].op = "remove" =>
             k \in 1 .. Len(loaderQueue)
      BY <3>1
    <3> QED
      BY <3>1, <3>2, <3>3 DEF RemoveStage
  <2> QED
    BY <2>1, <2>2, <2>3, <2>4, <2>5
<1>7. CASE FinishRegenerate(i)
  <2>1. BootFirst'
    BY <1>7 DEF FinishRegenerate, BootFirst
  <2>2. WorkerStage'
    BY <1>7 DEF FinishRegenerate, WorkerStage, TypeOK, Answer
  <2>3. MapStage'
    BY <1>7 DEF FinishRegenerate, MapStage, TypeOK, Answer
  <2>4. DeletionStage'
    BY <1>7 DEF FinishRegenerate, DeletionStage, TypeOK, Answer
  <2>5. RemoveStage'
    BY <1>7 DEF FinishRegenerate, RemoveStage
  <2> QED
    BY <2>1, <2>2, <2>3, <2>4, <2>5
<1> QED
  BY <1>1, <1>2, <1>3, <1>4, <1>5, <1>6, <1>7 DEF Worker

LEMMA DeleteStage ==
    ASSUME TypeOK, StageInv, NEW d \in Deletions,
           (\E id \in EndpointIds : DeleteBegin(d, id)) \/ Delete(d)
    PROVE  StageInv'
<1> USE DEF StageInv, mapVars, createVars, workerVars, stopVars, callVars, delVars, loaderVars
<1>1. ASSUME NEW id \in EndpointIds, DeleteBegin(d, id)
      PROVE  StageInv'
  <2>1. BootFirst'
    BY <1>1 DEF DeleteBegin, BootFirst
  <2>0. /\ create' = create /\ idOf' = idOf /\ worker' = worker /\ status' = status
        /\ closed' = closed /\ aborted' = aborted
        /\ endpoints' = [endpoints EXCEPT ![id] = NoEndpoint]
        /\ delId' = [delId EXCEPT ![d] = id]
        /\ delEndpoint' = [delEndpoint EXCEPT ![d] = endpoints[id]]
    BY <1>1 DEF DeleteBegin
  <2>a. \A r \in Requests : stop'[r] <=> stop[r] \/ r = endpoints[id]
    <3>1. CASE endpoints[id] = NoEndpoint
      BY <1>1, <3>1, EndpointManagerAssumption DEF DeleteBegin, EndpointManagerAssumption
    <3>2. CASE endpoints[id] # NoEndpoint
      <4>1. stop' = [stop EXCEPT ![endpoints[id]] = TRUE]
        BY <1>1, <3>2, Zenon DEF DeleteBegin
      <4> QED
        BY <4>1 DEF TypeOK
    <3> QED
      BY <3>1, <3>2
  <2>2. WorkerStage'
    <3>1. endpoints[id] \in Requests => worker[endpoints[id]] # "none"
      BY EndpointManagerAssumption DEF EndpointManagerAssumption, MapStage
    <3> QED
      BY <2>0, <2>a, <3>1 DEF WorkerStage
  <2>3. MapStage'
    <3> SUFFICES ASSUME NEW k \in EndpointIds, endpoints'[k] # NoEndpoint
                 PROVE  /\ worker'[endpoints'[k]] # "none"
                        /\ idOf'[endpoints'[k]] = k
                        /\ ~stop'[endpoints'[k]]
      BY DEF MapStage
    <3>1. k # id /\ endpoints'[k] = endpoints[k] /\ endpoints[k] \in Requests
      BY <2>0 DEF TypeOK
    <3>2. worker[endpoints[k]] # "none" /\ idOf[endpoints[k]] = k /\ ~stop[endpoints[k]]
      BY <3>1 DEF MapStage
    <3>3. endpoints[k] # endpoints[id]
      <4>1. endpoints[id] # NoEndpoint => idOf[endpoints[id]] = id
        BY DEF MapStage
      <4> QED
        BY <3>1, <3>2, <4>1
    <3> QED
      BY <2>0, <2>a, <3>1, <3>2, <3>3
  <2>4. DeletionStage'
    <3>1. deletion[d] = "idle" /\ delEndpoint[d] = NoEndpoint
      BY <1>1 DEF DeleteBegin, DeletionStage
    <3>2. /\ endpoints[id] = NoEndpoint => deletion' = [deletion EXCEPT ![d] = "releasing"]
          /\ endpoints[id] # NoEndpoint => deletion' = [deletion EXCEPT ![d] = "draining"]
      BY <1>1 DEF DeleteBegin
    <3>3. /\ endpoints[id] # NoEndpoint => endpoints[id] \in Requests /\ ~stop[endpoints[id]]
          /\ \A e \in Deletions : delEndpoint[e] # NoEndpoint =>
                delEndpoint[e] \in Requests /\ stop[delEndpoint[e]]
      BY DEF TypeOK, MapStage, DeletionStage
    <3>4. endpoints[id] # NoEndpoint => ~aborted[endpoints[id]]
      BY <3>3 DEF WorkerStage
    <3>5. /\ \A e \in Deletions : e # d =>
                /\ deletion'[e] = deletion[e] /\ delId'[e] = delId[e]
                /\ delEndpoint'[e] = delEndpoint[e]
          /\ delId'[d] = id /\ delEndpoint'[d] = endpoints[id]
          /\ deletion'[d] = IF endpoints[id] = NoEndpoint THEN "releasing" ELSE "draining"
      BY <2>0, <3>2 DEF TypeOK
    <3>6. \A e \in Deletions : e # d /\ delEndpoint[e] # NoEndpoint => delEndpoint[e] # endpoints[id]
      BY <3>3
    <3> QED
      BY <2>0, <2>a, <3>3, <3>4, <3>5, <3>6 DEF DeletionStage, Active
  <2>5. RemoveStage'
    BY <1>1, CommandsAre DEF DeleteBegin, RemoveStage, TypeOK
  <2> QED
    BY <2>1, <2>2, <2>3, <2>4, <2>5
<1>2. CASE Drained(d)
  <2>1. BootFirst'
    BY <1>2 DEF Drained, BootFirst
  <2>2. WorkerStage'
    BY <1>2 DEF Drained, WorkerStage
  <2>3. MapStage'
    BY <1>2 DEF Drained, MapStage
  <2>4. DeletionStage'
    BY <1>2 DEF Drained, DeletionStage, Active
  <2>5. RemoveStage'
    BY <1>2 DEF Drained, RemoveStage
  <2> QED
    BY <2>1, <2>2, <2>3, <2>4, <2>5
<1>3. CASE DrainTimeout(d)
  <2>1. BootFirst'
    BY <1>3 DEF DrainTimeout, BootFirst
  <2>2. WorkerStage'
    BY <1>3 DEF DrainTimeout, WorkerStage, DeletionStage, Active
  <2>3. MapStage'
    BY <1>3 DEF DrainTimeout, MapStage
  <2>4. DeletionStage'
    BY <1>3 DEF DrainTimeout, DeletionStage, TypeOK, Active
  <2>5. RemoveStage'
    BY <1>3 DEF DrainTimeout, RemoveStage
  <2> QED
    BY <2>1, <2>2, <2>3, <2>4, <2>5
<1>4. CASE SendRemove(d)
  <2>1. BootFirst'
    BY <1>4 DEF SendRemove, BootFirst
  <2>2. WorkerStage'
    BY <1>4 DEF SendRemove, WorkerStage
  <2>3. MapStage'
    BY <1>4 DEF SendRemove, MapStage
  <2>4. DeletionStage'
    BY <1>4 DEF SendRemove, DeletionStage, Active
  <2>5. RemoveStage'
    BY <1>4, CommandsAre DEF SendRemove, RemoveStage, TypeOK, DeletionStage, Active
  <2> QED
    BY <2>1, <2>2, <2>3, <2>4, <2>5
<1>5. CASE ReleaseId(d)
  <2>1. BootFirst'
    BY <1>5 DEF ReleaseId, BootFirst
  <2>2. WorkerStage'
    BY <1>5 DEF ReleaseId, WorkerStage
  <2>3. MapStage'
    BY <1>5 DEF ReleaseId, MapStage
  <2>4. DeletionStage'
    BY <1>5 DEF ReleaseId, DeletionStage, Active
  <2>5. RemoveStage'
    BY <1>5 DEF ReleaseId, RemoveStage
  <2> QED
    BY <2>1, <2>2, <2>3, <2>4, <2>5
<1> QED
  BY <1>1, <1>2, <1>3, <1>4, <1>5 DEF Delete

LEMMA RestStage ==
    ASSUME TypeOK, StageInv, (\E found \in SUBSET EndpointIds : Restore(found)) \/ RemoveAll
    PROVE  StageInv'
<1> USE DEF StageInv, mapVars, createVars, workerVars, stopVars, callVars, delVars, loaderVars
<1>1. ASSUME NEW found \in SUBSET EndpointIds, Restore(found)
      PROVE  StageInv'
  <2>1. BootFirst'
    BY <1>1 DEF Restore, BootFirst
  <2>2. WorkerStage'
    BY <1>1 DEF Restore, WorkerStage
  <2>3. MapStage'
    BY <1>1 DEF Restore, MapStage
  <2>4. DeletionStage'
    BY <1>1 DEF Restore, DeletionStage
  <2>5. RemoveStage'
    BY <1>1 DEF Restore, RemoveStage
  <2> QED
    BY <2>1, <2>2, <2>3, <2>4, <2>5
<1>2. CASE RemoveAll
  <2>1. BootFirst'
    BY <1>2 DEF RemoveAll, BootFirst
  <2>2. WorkerStage'
    BY <1>2, EndpointManagerAssumption DEF EndpointManagerAssumption, RemoveAll, WorkerStage,
       TypeOK, MapStage
  <2>3. MapStage'
    BY <1>2 DEF RemoveAll, MapStage
  <2>4. DeletionStage'
    BY <1>2 DEF RemoveAll, DeletionStage, TypeOK
  <2>5. RemoveStage'
    BY <1>2 DEF RemoveAll, RemoveStage
  <2> QED
    BY <2>1, <2>2, <2>3, <2>4, <2>5
<1> QED
  BY <1>1, <1>2

LEMMA LoaderStage ==
    ASSUME TypeOK, StageInv, Loader
    PROVE  StageInv'
<1> USE DEF StageInv, mapVars, createVars, workerVars, stopVars, callVars, delVars, loaderVars
<1>1. ASSUME NEW succeeds \in BOOLEAN, LoaderAdd(succeeds)
      PROVE  StageInv'
  <2>1. BootFirst'
    BY <1>1 DEF LoaderAdd, BootFirst
  <2>2. WorkerStage'
    BY <1>1 DEF LoaderAdd, WorkerStage
  <2>3. MapStage'
    BY <1>1 DEF LoaderAdd, MapStage
  <2>4. DeletionStage'
    BY <1>1 DEF LoaderAdd, DeletionStage
  <2>5. RemoveStage'
    BY <1>1 DEF LoaderAdd, RemoveStage, TypeOK
  <2> QED
    BY <2>1, <2>2, <2>3, <2>4, <2>5
<1>2. ASSUME NEW succeeds \in BOOLEAN, LoaderRemove(succeeds)
      PROVE  StageInv'
  <2>1. BootFirst'
    BY <1>2, QueueSteps DEF LoaderRemove, BootFirst, RemoveStage
  <2>2. WorkerStage'
    BY <1>2 DEF LoaderRemove, WorkerStage
  <2>3. MapStage'
    BY <1>2 DEF LoaderRemove, MapStage
  <2>4. DeletionStage'
    BY <1>2, EndpointManagerAssumption DEF EndpointManagerAssumption, LoaderRemove,
       DeletionStage, RemoveStage, Active
  <2>5. RemoveStage'
    BY <1>2, QueueSteps DEF LoaderRemove, RemoveStage
  <2> QED
    BY <2>1, <2>2, <2>3, <2>4, <2>5
<1> QED
  BY <1>1, <1>2 DEF Loader

LEMMA NextStage ==
    ASSUME TypeOK, StageInv, [Next]_vars
    PROVE  StageInv'
<1> USE DEF mapVars, createVars, workerVars, stopVars, callVars, delVars, loaderVars
<1>1. CASE UNCHANGED <<mapVars, createVars, workerVars, stopVars, delVars, loaderVars>>
  BY <1>1 DEF StageInv, BootFirst, WorkerStage, MapStage, DeletionStage, RemoveStage
<1>2. CASE UNCHANGED vars
  BY <1>1, <1>2 DEF vars
<1>3. ASSUME NEW u \in Users, GetHandle(u)
      PROVE  StageInv'
  BY <1>1, <1>3 DEF GetHandle
<1>4. ASSUME NEW c \in Callers, Regenerate(c)
      PROVE  StageInv'
  BY <1>1, <1>4 DEF Regenerate
<1> QED
  BY <1>2, <1>3, <1>4, CreateStage, WorkerStageKept, DeleteStage, RestStage, LoaderStage DEF Next

-----------------------------------------------------------------------------
(* IdInv. *)

(* What is in the map is used. *)
LEMMA MapIsUsed ==
    ASSUME TypeOK, StageInv, NEW id \in EndpointIds, endpoints[id] # NoEndpoint
    PROVE  /\ endpoints[id] \in Requests
           /\ Uses(endpoints[id])
           /\ idOf[endpoints[id]] = id
BY DEF TypeOK, StageInv, WorkerStage, MapStage, Uses, Live, WorkerStates

(* A step that uses no more ids and moves no deletion to or from the release *)
(* of an id.                                                                 *)
LEMMA IdFrame ==
    ASSUME IdInv, UNCHANGED <<ids, restored, idOf, delId, delEndpoint>>,
           \A i \in Requests : Uses(i)' => Uses(i),
           \A d \in Deletions : deletion'[d] \in Active =>
               deletion[d] \in Active /\ (deletion'[d] = "releasing" <=> deletion[d] = "releasing")
    PROVE  IdInv'
<1>1. UsedIsTaken'
  BY DEF IdInv, UsedIsTaken
<1>2. UsedOnce'
  BY DEF IdInv, UsedOnce
<1>3. DeletionHasId'
  BY DEF IdInv, DeletionHasId
<1> QED
  BY <1>1, <1>2, <1>3 DEF IdInv

LEMMA CreateId ==
    ASSUME TypeOK, StageInv, IdInv, NEW r \in Requests, Create(r)
    PROVE  IdInv'
<1> USE DEF mapVars, createVars, workerVars, stopVars, callVars, delVars, loaderVars
<1>1. CASE Lookup(r)
  <2>1. \A i \in Requests : Uses(i)' => Uses(i)
    BY <1>1 DEF Lookup, TypeOK, Uses, Live
  <2> QED
    BY <1>1, <2>1, IdFrame DEF Lookup
<1>2. CASE AllocateNewId(r)
  <2>1. CASE ids = {}
    <3>1. \A i \in Requests : Uses(i)' => Uses(i)
      BY <1>2, <2>1 DEF AllocateNewId, TypeOK, Uses, Live
    <3> QED
      BY <1>2, <2>1, <3>1, IdFrame DEF AllocateNewId
  <2>2. ASSUME NEW id \in ids,
               TakeId(id),
               idOf' = [idOf EXCEPT ![r] = id],
               create' = [create EXCEPT ![r] = "leased"]
        PROVE  IdInv'
    <3>1. \A i \in Requests : i # r => idOf'[i] = idOf[i] /\ (Uses(i)' => Uses(i))
      BY <1>2, <2>2 DEF AllocateNewId, TypeOK, Uses, Live
    <3>2. idOf'[r] = id /\ ids' = ids \ {id}
      BY <2>2 DEF TakeId, TypeOK
    <3>3. UNCHANGED <<restored, deletion, delId, delEndpoint>>
      BY <1>2 DEF AllocateNewId
    <3>4. UsedIsTaken'
      BY <3>1, <3>2, <3>3 DEF IdInv, UsedIsTaken
    <3>5. UsedOnce'
      BY <3>1, <3>2 DEF IdInv, UsedOnce, UsedIsTaken
    <3>6. DeletionHasId'
      BY <3>1, <3>2, <3>3 DEF IdInv, DeletionHasId
    <3> QED
      BY <3>4, <3>5, <3>6 DEF IdInv
  <2> QED
    BY <1>2, <2>1, <2>2 DEF AllocateNewId
<1>3. CASE AddEndpoint(r)
  <2>1. create[r] = "leased" /\ worker[r] = "none" /\ idOf[r] \in EndpointIds
    BY <1>3 DEF AddEndpoint, StageInv, WorkerStage
  <2>2. endpoints[idOf[r]] = NoEndpoint
    <3>1. Uses(r) /\ \A i \in Requests : create[i] = "added" => i # r
      BY <2>1 DEF Uses
    <3>2. endpoints[idOf[r]] # NoEndpoint => create[endpoints[idOf[r]]] = "added"
      BY <2>1 DEF TypeOK, StageInv, MapStage, WorkerStage
    <3> QED
      BY <2>1, <3>1, <3>2, MapIsUsed DEF IdInv, UsedOnce
  <2>3. \A i \in Requests : Uses(i)' => Uses(i)
    BY <1>3, <2>1, <2>2 DEF AddEndpoint, TypeOK, Uses, Live
  <2> QED
    BY <1>3, <2>2, <2>3, IdFrame DEF AddEndpoint
<1> QED
  BY <1>1, <1>2, <1>3 DEF Create

LEMMA WorkerId ==
    ASSUME TypeOK, StageInv, IdInv, NEW i \in Requests, Worker(i)
    PROVE  IdInv'
<1> USE DEF mapVars, createVars, workerVars, stopVars, callVars, delVars, loaderVars
<1>1. UNCHANGED <<ids, restored, idOf, create, aborted, deletion, delId, delEndpoint>>
  BY DEF Worker, WorkerClose, WorkerTake, WorkerExit, WorkerAborted, PrepareFails, SendAdd,
         FinishRegenerate
<1>2. \A j \in Requests : worker'[j] \notin {"none", "exited"} => worker[j] \notin {"none", "exited"}
  BY DEF TypeOK, Worker, WorkerClose, WorkerTake, WorkerExit, WorkerAborted, PrepareFails, SendAdd,
         FinishRegenerate, Answer
<1>3. \A j \in Requests : Uses(j)' => Uses(j)
  BY <1>1, <1>2 DEF Uses, Live
<1> QED
  BY <1>1, <1>3, IdFrame

(* The id of a deletion is released when its worker has ended or was aborted. *)
LEMMA DeleteId ==
    ASSUME TypeOK, StageInv, IdInv, NEW d \in Deletions,
           (\E id \in EndpointIds : DeleteBegin(d, id)) \/ Delete(d)
    PROVE  IdInv'
<1> USE DEF mapVars, createVars, workerVars, stopVars, callVars, delVars, loaderVars
<1>1. ASSUME NEW id \in EndpointIds, DeleteBegin(d, id)
      PROVE  IdInv'
  <2>1. /\ UNCHANGED <<ids, restored, idOf, create, worker, aborted>>
        /\ delId'[d] = id /\ delEndpoint'[d] = endpoints[id]
        /\ \A e \in Deletions : e # d =>
              delId'[e] = delId[e] /\ delEndpoint'[e] = delEndpoint[e] /\ deletion'[e] = deletion[e]
        /\ deletion'[d] = IF endpoints[id] = NoEndpoint THEN "releasing" ELSE "draining"
    BY <1>1 DEF DeleteBegin, TypeOK
  <2>2. \A i \in Requests : Uses(i)' = Uses(i)
    BY <2>1 DEF Uses, Live
  <2>3. \A e \in Deletions : e # d /\ deletion[e] \in Active => delId[e] # id
    BY <1>1 DEF DeleteBegin, Deletable, Active
  <2>4. CASE endpoints[id] # NoEndpoint
    <3>1. endpoints[id] \in Requests /\ Uses(endpoints[id]) /\ idOf[endpoints[id]] = id
      BY <2>4, MapIsUsed
    <3>2. id \notin ids \cup restored
      BY <3>1 DEF IdInv, UsedIsTaken
    <3>3. \A i \in Requests : Uses(i) /\ idOf[i] = id => i = endpoints[id]
      BY <3>1 DEF IdInv, UsedOnce
    <3>4. DeletionHasId'
      BY <2>1, <2>2, <2>3, <2>4, <3>2, <3>3 DEF IdInv, DeletionHasId
    <3> QED
      BY <2>1, <2>2, <3>4 DEF IdInv, UsedIsTaken, UsedOnce
  <2>5. CASE endpoints[id] = NoEndpoint
    <3>1. id \in restored /\ id \notin ids
      BY <1>1, <2>5 DEF DeleteBegin, Deletable, IdInv, UsedIsTaken
    <3>2. \A i \in Requests : Uses(i) => idOf[i] # id
      BY <3>1 DEF IdInv, UsedIsTaken
    <3>3. DeletionHasId'
      BY <2>1, <2>2, <2>3, <2>5, <3>1, <3>2 DEF IdInv, DeletionHasId
    <3> QED
      BY <2>1, <2>2, <3>3 DEF IdInv, UsedIsTaken, UsedOnce
  <2> QED
    BY <2>4, <2>5
<1>2. CASE Drained(d) \/ DrainTimeout(d) \/ SendRemove(d)
  <2>1. UNCHANGED <<ids, restored, idOf, create, worker, delId, delEndpoint>>
    BY <1>2 DEF Drained, DrainTimeout, SendRemove
  <2>2. \A i \in Requests : aborted[i] => aborted'[i]
    BY <1>2 DEF Drained, DrainTimeout, SendRemove, TypeOK
  <2>3. \A i \in Requests : Uses(i)' => Uses(i)
    BY <2>1, <2>2 DEF Uses, Live
  <2>4. \A e \in Deletions : deletion'[e] \in Active =>
            deletion[e] \in Active /\ (deletion'[e] = "releasing" <=> deletion[e] = "releasing")
    BY <1>2 DEF Drained, DrainTimeout, SendRemove, TypeOK, Active
  <2> QED
    BY <2>1, <2>3, <2>4, IdFrame
<1>3. CASE ReleaseId(d)
  <2>1. /\ UNCHANGED <<idOf, create, worker, aborted, delId, delEndpoint>>
        /\ ids' = ids \cup {delId[d]} /\ restored' = restored \ {delId[d]}
        /\ deletion[d] \in Active /\ deletion[d] \in {"releasing", "removed", "notRemoved"}
        /\ deletion'[d] \notin Active
        /\ \A e \in Deletions : e # d => deletion'[e] = deletion[e]
    BY <1>3 DEF ReleaseId, GiveId, TypeOK, Active
  <2>2. \A i \in Requests : Uses(i)' = Uses(i)
    BY <2>1 DEF Uses, Live
  <2>3. \A i \in Requests : Uses(i) => idOf[i] # delId[d]
    <3>1. CASE deletion[d] = "releasing"
      BY <2>1, <3>1 DEF IdInv, DeletionHasId, UsedIsTaken
    <3>2. CASE deletion[d] # "releasing"
      <4>1. delEndpoint[d] \in Requests /\ ~Uses(delEndpoint[d])
        BY <2>1, <3>2 DEF TypeOK, StageInv, DeletionStage, WorkerStage, Uses, Live, Active
      <4> QED
        BY <2>1, <4>1 DEF IdInv, DeletionHasId
    <3> QED
      BY <3>1, <3>2
  <2>4. UsedIsTaken'
    BY <2>1, <2>2, <2>3 DEF IdInv, UsedIsTaken
  <2>5. UsedOnce'
    BY <2>1, <2>2 DEF IdInv, UsedOnce
  <2>6. DeletionHasId'
    BY <2>1, <2>2 DEF IdInv, DeletionHasId
  <2> QED
    BY <2>4, <2>5, <2>6 DEF IdInv
<1> QED
  BY <1>1, <1>2, <1>3 DEF Delete

LEMMA RestId ==
    ASSUME TypeOK, StageInv, IdInv,
           (\E found \in SUBSET EndpointIds : Restore(found)) \/ RemoveAll
    PROVE  IdInv'
<1> USE DEF mapVars, createVars, workerVars, stopVars, callVars, delVars, loaderVars
<1>1. ASSUME NEW found \in SUBSET EndpointIds, Restore(found)
      PROVE  IdInv'
  <2>1. /\ restored' = found /\ ids' = ids \ found
        /\ UNCHANGED <<create, worker, aborted, deletion>>
        /\ \A i \in Requests : create[i] = "idle" /\ worker[i] = "none"
        /\ \A d \in Deletions : deletion[d] = "idle"
    BY <1>1 DEF Restore, StageInv, BootFirst, WorkerStage
  <2>2. \A i \in Requests : ~Uses(i)'
    BY <2>1 DEF Uses, Live
  <2> QED
    BY <2>1, <2>2 DEF IdInv, UsedIsTaken, UsedOnce, DeletionHasId, Active
<1>2. CASE RemoveAll
  <2>1. \A i \in Requests : Uses(i)' => Uses(i)
    BY <1>2 DEF RemoveAll, Uses, Live
  <2> QED
    BY <1>2, <2>1, IdFrame DEF RemoveAll
<1> QED
  BY <1>1, <1>2

LEMMA LoaderId ==
    ASSUME TypeOK, StageInv, IdInv, Loader
    PROVE  IdInv'
<1> USE DEF mapVars, createVars, workerVars, stopVars, callVars, delVars, loaderVars
<1>1. ASSUME NEW succeeds \in BOOLEAN, LoaderAdd(succeeds)
      PROVE  IdInv'
  <2>1. \A i \in Requests : Uses(i)' => Uses(i)
    BY <1>1 DEF LoaderAdd, TypeOK, Uses, Live
  <2> QED
    BY <1>1, <2>1, IdFrame DEF LoaderAdd
<1>2. ASSUME NEW succeeds \in BOOLEAN, LoaderRemove(succeeds)
      PROVE  IdInv'
  <2>1. \A i \in Requests : Uses(i)' => Uses(i)
    BY <1>2 DEF LoaderRemove, Uses, Live
  <2>2. /\ Head(loaderQueue) = loaderQueue[1] /\ 1 \in 1 .. Len(loaderQueue)
        /\ loaderQueue[1].by \in Deletions
    BY <1>2, CommandsAre, QueueSteps DEF LoaderRemove, TypeOK
  <2>3. deletion[loaderQueue[1].by] = "removing"
    BY <1>2, <2>2 DEF LoaderRemove, StageInv, RemoveStage
  <2>4. \A d \in Deletions : deletion'[d] \in Active =>
            deletion[d] \in Active /\ (deletion'[d] = "releasing" <=> deletion[d] = "releasing")
    BY <1>2, <2>2, <2>3 DEF LoaderRemove, TypeOK, Active
  <2> QED
    BY <1>2, <2>1, <2>4, IdFrame DEF LoaderRemove
<1> QED
  BY <1>1, <1>2 DEF Loader

LEMMA NextId ==
    ASSUME TypeOK, StageInv, IdInv, [Next]_vars
    PROVE  IdInv'
<1> USE DEF mapVars, createVars, workerVars, stopVars, callVars, delVars, loaderVars
<1>1. CASE UNCHANGED <<mapVars, ids, createVars, workerVars, stopVars, delVars>>
  <2>1. \A i \in Requests : Uses(i)' => Uses(i)
    BY <1>1 DEF Uses, Live
  <2> QED
    BY <1>1, <2>1, IdFrame
<1>2. CASE UNCHANGED vars
  BY <1>1, <1>2 DEF vars
<1>3. ASSUME NEW u \in Users, GetHandle(u)
      PROVE  IdInv'
  BY <1>1, <1>3 DEF GetHandle
<1>4. ASSUME NEW c \in Callers, Regenerate(c)
      PROVE  IdInv'
  BY <1>1, <1>4 DEF Regenerate
<1> QED
  BY <1>2, <1>3, <1>4, CreateId, WorkerId, DeleteId, RestId, LoaderId DEF Next

-----------------------------------------------------------------------------
(* CommandInv. *)

(* A step that leaves the commands and the workers that wait for one.        *)
LEMMA CommandFrame ==
    ASSUME CommandInv, TypeOK, loaderQueue' = loaderQueue,
           \A i \in Requests :
               /\ worker[i] = "adding" => worker'[i] = "adding" \/ (worker'[i] = "exited" /\ aborted'[i])
               /\ worker[i] = "exited" /\ aborted[i] => worker'[i] = "exited" /\ aborted'[i]
    PROVE  CommandInv'
<1>1. \A k \in 1 .. Len(loaderQueue) : loaderQueue[k].endpoint \in Requests
  BY CommandsAre, QueueSteps DEF TypeOK
<1> QED
  BY <1>1 DEF CommandInv

(* The command taken from the loader's queue was its worker's only one.      *)
LEMMA LoaderAddCommand ==
    ASSUME TypeOK, CommandInv, NEW succeeds \in BOOLEAN, LoaderAdd(succeeds)
    PROVE  CommandInv'
<1> DEFINE i == loaderQueue[1].endpoint
<1>1. /\ Len(loaderQueue) \in Nat /\ 1 \in 1 .. Len(loaderQueue)
      /\ Head(loaderQueue) = loaderQueue[1]
      /\ Len(loaderQueue') = Len(loaderQueue) - 1
      /\ \A k \in 1 .. Len(loaderQueue') : loaderQueue'[k] = loaderQueue[k + 1]
  BY QueueSteps DEF LoaderAdd, TypeOK
<1>2. \A k \in 1 .. Len(loaderQueue) : loaderQueue[k].endpoint \in Requests
  BY CommandsAre, QueueSteps DEF TypeOK
<1>3. loaderQueue[1].op = "add" /\ aborted' = aborted
  BY <1>1 DEF LoaderAdd, stopVars
<1>4. \A j \in Requests : j # i => worker'[j] = worker[j]
  BY <1>1, <1>2 DEF LoaderAdd, TypeOK
<1>5. \A k \in 1 .. Len(loaderQueue') :
          /\ k + 1 \in 1 .. Len(loaderQueue)
          /\ loaderQueue'[k] = loaderQueue[k + 1]
          /\ loaderQueue'[k].op = "add" => loaderQueue[k + 1].endpoint # i
  BY <1>1, <1>3 DEF CommandInv
<1> HIDE DEF i
<1>6. \A k \in 1 .. Len(loaderQueue') : loaderQueue'[k].op = "add" =>
          \/ worker'[loaderQueue'[k].endpoint] = "adding"
          \/ worker'[loaderQueue'[k].endpoint] = "exited" /\ aborted'[loaderQueue'[k].endpoint]
  BY <1>2, <1>3, <1>4, <1>5 DEF CommandInv
<1>7. \A k, l \in 1 .. Len(loaderQueue') :
          /\ loaderQueue'[k].op = "add" /\ loaderQueue'[l].op = "add"
          /\ loaderQueue'[k].endpoint = loaderQueue'[l].endpoint
          => k = l
  <2> SUFFICES ASSUME NEW k \in 1 .. Len(loaderQueue'), NEW l \in 1 .. Len(loaderQueue'),
                      loaderQueue'[k].op = "add", loaderQueue'[l].op = "add",
                      loaderQueue'[k].endpoint = loaderQueue'[l].endpoint
               PROVE  k = l
    OBVIOUS
  <2>1. k + 1 = l + 1
    BY <1>5 DEF CommandInv
  <2> QED
    BY <1>1, <2>1
<1> QED
  BY <1>6, <1>7 DEF CommandInv

LEMMA LoaderRemoveCommand ==
    ASSUME TypeOK, CommandInv, NEW succeeds \in BOOLEAN, LoaderRemove(succeeds)
    PROVE  CommandInv'
<1>1. /\ Len(loaderQueue) \in Nat
      /\ Len(loaderQueue') = Len(loaderQueue) - 1
      /\ \A k \in 1 .. Len(loaderQueue') : loaderQueue'[k] = loaderQueue[k + 1]
  BY QueueSteps DEF LoaderRemove, TypeOK
<1>2. worker' = worker /\ aborted' = aborted
  BY DEF LoaderRemove, workerVars, stopVars
<1>3. \A k \in 1 .. Len(loaderQueue') :
          k + 1 \in 1 .. Len(loaderQueue) /\ loaderQueue'[k] = loaderQueue[k + 1]
  BY <1>1
<1>4. \A k \in 1 .. Len(loaderQueue') : loaderQueue'[k].op = "add" =>
          \/ worker'[loaderQueue'[k].endpoint] = "adding"
          \/ worker'[loaderQueue'[k].endpoint] = "exited" /\ aborted'[loaderQueue'[k].endpoint]
  BY <1>2, <1>3 DEF CommandInv
<1>5. ASSUME NEW k \in 1 .. Len(loaderQueue'), NEW l \in 1 .. Len(loaderQueue'),
             loaderQueue'[k].op = "add", loaderQueue'[l].op = "add",
             loaderQueue'[k].endpoint = loaderQueue'[l].endpoint
      PROVE  k = l
  <2>1. k + 1 = l + 1
    BY <1>3, <1>5 DEF CommandInv
  <2> QED
    BY <1>1, <2>1
<1> QED
  BY <1>4, <1>5 DEF CommandInv

LEMMA NextCommand ==
    ASSUME TypeOK, StageInv, CommandInv, [Next]_vars
    PROVE  CommandInv'
<1> USE DEF mapVars, createVars, workerVars, stopVars, callVars, delVars, loaderVars
<1>1. CASE UNCHANGED <<worker, aborted, loaderQueue>>
  BY <1>1 DEF CommandInv
<1>2. CASE UNCHANGED vars
  BY <1>1, <1>2 DEF vars
<1>3. ASSUME NEW r \in Requests, Create(r)
      PROVE  CommandInv'
  <2>1. CASE Lookup(r) \/ AllocateNewId(r)
    BY <1>1, <2>1 DEF Lookup, AllocateNewId
  <2>2. CASE AddEndpoint(r)
    <3>1. worker[r] = "none" /\ UNCHANGED <<aborted, loaderQueue>>
      BY <2>2 DEF AddEndpoint, StageInv, WorkerStage
    <3>2. \A i \in Requests : i # r => worker'[i] = worker[i]
      BY <2>2 DEF AddEndpoint, TypeOK
    <3> QED
      BY <3>1, <3>2, CommandFrame
  <2> QED
    BY <1>3, <2>1, <2>2 DEF Create
<1>4. ASSUME NEW u \in Users, GetHandle(u)
      PROVE  CommandInv'
  BY <1>1, <1>4 DEF GetHandle
<1>5. ASSUME NEW c \in Callers, Regenerate(c)
      PROVE  CommandInv'
  BY <1>1, <1>5 DEF Regenerate
<1>6. ASSUME NEW i \in Requests, Worker(i)
      PROVE  CommandInv'
  <2>1. CASE WorkerClose(i)
    BY <1>1, <2>1 DEF WorkerClose
  <2>2. CASE WorkerTake(i) \/ WorkerExit(i) \/ PrepareFails(i) \/ FinishRegenerate(i)
    <3>1. /\ worker[i] \notin {"adding", "exited"}
          /\ UNCHANGED <<aborted, loaderQueue>>
          /\ \A j \in Requests : j # i => worker'[j] = worker[j]
      BY <2>2 DEF WorkerTake, WorkerExit, PrepareFails, FinishRegenerate, Answer, TypeOK
    <3> QED
      BY <3>1, CommandFrame
  <2>3. CASE WorkerAborted(i)
    <3>1. /\ aborted[i] /\ worker'[i] = "exited"
          /\ UNCHANGED <<aborted, loaderQueue>>
          /\ \A j \in Requests : j # i => worker'[j] = worker[j]
      BY <2>3 DEF WorkerAborted, TypeOK
    <3> QED
      BY <3>1, CommandFrame
  <2>4. CASE SendAdd(i)
    <3>1. /\ worker[i] = "preparing" /\ worker'[i] = "adding" /\ aborted' = aborted
          /\ \A j \in Requests : j # i => worker'[j] = worker[j]
          /\ loaderQueue' = Append(loaderQueue, Add(i))
      BY <2>4 DEF SendAdd, TypeOK
    <3>2. /\ Len(loaderQueue) \in Nat /\ Len(loaderQueue') = Len(loaderQueue) + 1
          /\ loaderQueue'[Len(loaderQueue) + 1].endpoint = i
          /\ \A k \in 1 .. Len(loaderQueue) : loaderQueue'[k] = loaderQueue[k]
      BY <3>1, CommandsAre, QueueSteps DEF TypeOK
    <3>3. \A k \in 1 .. Len(loaderQueue) :
              /\ loaderQueue[k].endpoint \in Requests
              /\ loaderQueue[k].op = "add" => loaderQueue[k].endpoint # i
      BY <3>1, CommandsAre, QueueSteps DEF TypeOK, CommandInv
    <3>4. \A k \in 1 .. Len(loaderQueue') : k \in 1 .. Len(loaderQueue) \/ k = Len(loaderQueue) + 1
      BY <3>2
    <3> QED
      BY <3>1, <3>2, <3>3, <3>4 DEF CommandInv
  <2> QED
    BY <1>6, <2>1, <2>2, <2>3, <2>4 DEF Worker
<1>7. ASSUME NEW d \in Deletions, NEW id \in EndpointIds, DeleteBegin(d, id)
      PROVE  CommandInv'
  BY <1>1, <1>7 DEF DeleteBegin
<1>8. ASSUME NEW d \in Deletions, Delete(d)
      PROVE  CommandInv'
  <2>1. CASE Drained(d) \/ ReleaseId(d)
    BY <1>1, <2>1 DEF Drained, ReleaseId
  <2>2. CASE DrainTimeout(d)
    <3>1. UNCHANGED <<worker, loaderQueue>> /\ \A i \in Requests : aborted[i] => aborted'[i]
      BY <2>2 DEF DrainTimeout, TypeOK
    <3> QED
      BY <3>1, CommandFrame
  <2>3. CASE SendRemove(d)
    <3>1. delEndpoint[d] \in Requests
      BY <2>3 DEF SendRemove, TypeOK, StageInv, DeletionStage, Active
    <3>2. /\ UNCHANGED <<worker, aborted>>
          /\ loaderQueue' = Append(loaderQueue, Remove(d, delEndpoint[d]))
      BY <2>3 DEF SendRemove
    <3>3. /\ Len(loaderQueue) \in Nat /\ Len(loaderQueue') = Len(loaderQueue) + 1
          /\ loaderQueue'[Len(loaderQueue) + 1].op = "remove"
          /\ \A k \in 1 .. Len(loaderQueue) : loaderQueue'[k] = loaderQueue[k]
      BY <3>1, <3>2, CommandsAre, QueueSteps DEF TypeOK
    <3>4. \A k \in 1 .. Len(loaderQueue') :
              loaderQueue'[k].op = "add" =>
                  k \in 1 .. Len(loaderQueue) /\ loaderQueue'[k] = loaderQueue[k]
      BY <3>3
    <3> QED
      BY <3>2, <3>4 DEF CommandInv
  <2> QED
    BY <1>8, <2>1, <2>2, <2>3 DEF Delete
<1>9. ASSUME NEW found \in SUBSET EndpointIds, Restore(found)
      PROVE  CommandInv'
  BY <1>1, <1>9 DEF Restore
<1>10. CASE RemoveAll
  BY <1>1, <1>10 DEF RemoveAll
<1>11. CASE Loader
  BY <1>11, LoaderAddCommand, LoaderRemoveCommand DEF Loader
<1> QED
  BY <1>2, <1>3, <1>4, <1>5, <1>6, <1>7, <1>8, <1>9, <1>10, <1>11 DEF Next

-----------------------------------------------------------------------------
(* AttachInv. *)

(* A step that attaches and detaches nothing, and makes no worker, no status *)
(* and no deletion one that the invariant speaks of.                         *)
LEMMA AttachFrame ==
    ASSUME AttachInv, attached' = attached,
           \A i \in Requests :
               /\ aborted[i] => aborted'[i]
               /\ stop[i] => stop'[i]
               /\ worker'[i] = "none" => worker[i] = "none"
               /\ status'[i] = "ready" \/ worker'[i] = "added" =>
                     status[i] = "ready" \/ worker[i] = "added",
           \A d \in Deletions : deletion'[d] \in {"removed", "ok"} /\ delEndpoint'[d] # NoEndpoint =>
               /\ deletion[d] \in {"removed", "ok"}
               /\ delEndpoint'[d] = delEndpoint[d]
               /\ delEndpoint[d] \in Requests
    PROVE  AttachInv'
<1>1. RemovedIsDetached'
  BY DEF AttachInv, RemovedIsDetached
<1>2. \A i \in Requests : Alone(i)' => Alone(i)
  BY DEF Alone
<1>3. AddedIsAttached'
  BY <1>2 DEF AttachInv, AddedIsAttached
<1> QED
  BY <1>1, <1>3 DEF AttachInv

(* The loader attaches an endpoint: its worker waits for that, or was        *)
(* aborted, so no deletion of it has succeeded.                              *)
LEMMA LoaderAddAttach ==
    ASSUME TypeOK, StageInv, CommandInv, AttachInv, NEW succeeds \in BOOLEAN, LoaderAdd(succeeds)
    PROVE  AttachInv'
<1> DEFINE i == loaderQueue[1].endpoint
<1>1. /\ 1 \in 1 .. Len(loaderQueue) /\ Head(loaderQueue) = loaderQueue[1]
      /\ i \in Requests
  BY CommandsAre, QueueSteps DEF LoaderAdd, TypeOK
<1>2. loaderQueue[1].op = "add"
  BY <1>1 DEF LoaderAdd
<1>3. worker[i] = "adding" \/ (worker[i] = "exited" /\ aborted[i])
  BY <1>1, <1>2 DEF CommandInv
<1>4. UNCHANGED <<aborted, stop, status, deletion, delEndpoint>>
  BY DEF LoaderAdd, stopVars, delVars
<1>5. /\ attached' = [attached EXCEPT ![Container[i]] = i] \/ (~succeeds /\ attached' = attached)
      /\ worker' = [worker EXCEPT ![i] =
           IF @ # "adding" THEN @ ELSE IF succeeds THEN "added" ELSE "notAdded"]
  BY <1>1, Zenon DEF LoaderAdd
<1> HIDE DEF i
<1>6. /\ \A j \in Requests : j # i => worker'[j] = worker[j]
      /\ worker'[i] # "none"
      /\ worker'[i] = "added" => succeeds
  BY <1>1, <1>3, <1>5 DEF TypeOK
<1>7. RemovedIsDetached'
  <2> SUFFICES ASSUME NEW d \in Deletions, deletion[d] \in {"removed", "ok"},
                      delEndpoint[d] # NoEndpoint, ~aborted[delEndpoint[d]]
               PROVE  attached'[Container[delEndpoint[d]]] # delEndpoint[d]
    BY <1>4 DEF RemovedIsDetached
  <2>1. delEndpoint[d] \in Requests /\ worker[delEndpoint[d]] = "exited"
    BY DEF TypeOK, StageInv, DeletionStage
  <2>2. delEndpoint[d] # i
    BY <1>3, <2>1
  <2>3. attached[Container[delEndpoint[d]]] # delEndpoint[d]
    BY DEF AttachInv, RemovedIsDetached
  <2>4. Container[delEndpoint[d]] \in Containers /\ attached \in [Containers -> Requests \cup {NoEndpoint}]
    BY <2>1, EndpointManagerAssumption DEF EndpointManagerAssumption, TypeOK
  <2>5. attached'[Container[delEndpoint[d]]] \in {attached[Container[delEndpoint[d]]], i}
    BY <1>5, <2>4
  <2> QED
    BY <2>2, <2>3, <2>5
<1>8. AddedIsAttached'
  <2> SUFFICES ASSUME NEW j \in Requests, status[j] = "ready" \/ worker'[j] = "added",
                      ~stop[j], Alone(j)'
               PROVE  attached'[Container[j]] = j
    BY <1>4 DEF AddedIsAttached
  <2>1. Alone(j)
    BY <1>3, <1>6 DEF Alone
  <2>2. Container[j] \in Containers /\ attached \in [Containers -> Requests \cup {NoEndpoint}]
    BY EndpointManagerAssumption DEF EndpointManagerAssumption, TypeOK
  <2>3. CASE j = i
    <3>1. CASE attached' = [attached EXCEPT ![Container[i]] = i]
      BY <2>2, <2>3, <3>1
    <3>2. CASE ~succeeds /\ attached' = attached
      BY <1>6, <2>1, <2>3, <3>2 DEF AttachInv, AddedIsAttached
    <3> QED
      BY <1>5, <3>1, <3>2
  <2>4. CASE j # i
    <3>1. Container[i] # Container[j]
      BY <1>1, <1>6, <2>4 DEF Alone
    <3>2. attached[Container[j]] = j
      BY <1>6, <2>1, <2>4 DEF AttachInv, AddedIsAttached
    <3> QED
      BY <1>5, <2>2, <3>1, <3>2
  <2> QED
    BY <2>3, <2>4
<1> QED
  BY <1>7, <1>8 DEF AttachInv

(* The loader detaches an endpoint: the deletion that waits for that has     *)
(* told it to stop.                                                          *)
LEMMA LoaderRemoveAttach ==
    ASSUME TypeOK, StageInv, AttachInv, NEW succeeds \in BOOLEAN, LoaderRemove(succeeds)
    PROVE  AttachInv'
<1> DEFINE i == loaderQueue[1].endpoint
           d0 == loaderQueue[1].by
<1>1. 1 \in 1 .. Len(loaderQueue) /\ Head(loaderQueue) = loaderQueue[1] /\ i \in Requests
  BY CommandsAre, QueueSteps DEF LoaderRemove, TypeOK
<1>2. loaderQueue[1].op = "remove"
  BY <1>1 DEF LoaderRemove
<1>3. d0 \in Deletions
  BY <1>1, <1>2, CommandsAre, QueueSteps DEF TypeOK
<1>4. delEndpoint[d0] = i
  BY <1>1, <1>2 DEF StageInv, RemoveStage
<1>5. UNCHANGED <<aborted, stop, status, worker, delEndpoint>>
  BY DEF LoaderRemove, stopVars, workerVars
<1>6. /\ \/ attached' = [attached EXCEPT ![Container[i]] = NoEndpoint]
         \/ ~succeeds /\ attached' = attached
      /\ deletion' = [deletion EXCEPT ![d0] = IF succeeds THEN "removed" ELSE "notRemoved"]
  BY <1>1, Zenon DEF LoaderRemove
<1> HIDE DEF i, d0
<1>7. i # NoEndpoint /\ stop[i] /\ worker[i] # "none"
  BY <1>1, <1>3, <1>4, EndpointManagerAssumption
  DEF EndpointManagerAssumption, StageInv, DeletionStage, WorkerStage
<1>8. Container \in [Requests -> Containers] /\ attached \in [Containers -> Requests \cup {NoEndpoint}]
  BY EndpointManagerAssumption DEF EndpointManagerAssumption, TypeOK
<1>9. RemovedIsDetached'
  <2> SUFFICES ASSUME NEW d \in Deletions, deletion'[d] \in {"removed", "ok"},
                      delEndpoint[d] # NoEndpoint, ~aborted[delEndpoint[d]]
               PROVE  attached'[Container[delEndpoint[d]]] # delEndpoint[d]
    BY <1>5 DEF RemovedIsDetached
  <2>1. delEndpoint[d] \in Requests
    BY DEF TypeOK
  <2>2. CASE d = d0
    <3>1. succeeds
      BY <1>3, <1>6, <2>2 DEF TypeOK
    <3>2. attached'[Container[i]] = NoEndpoint
      BY <1>1, <1>6, <1>8, <3>1
    <3> QED
      BY <1>4, <1>7, <2>2, <3>2
  <2>3. CASE d # d0
    <3>1. attached[Container[delEndpoint[d]]] # delEndpoint[d]
      BY <1>6, <2>3 DEF TypeOK, AttachInv, RemovedIsDetached
    <3> QED
      BY <1>6, <1>8, <2>1, <3>1
  <2> QED
    BY <2>2, <2>3
<1>10. AddedIsAttached'
  <2> SUFFICES ASSUME NEW j \in Requests, status[j] = "ready" \/ worker[j] = "added",
                      ~stop[j], Alone(j)
               PROVE  attached'[Container[j]] = j
    BY <1>5 DEF AddedIsAttached, Alone
  <2>1. Container[i] # Container[j]
    BY <1>1, <1>7 DEF Alone
  <2>2. attached[Container[j]] = j
    BY DEF AttachInv, AddedIsAttached
  <2> QED
    BY <1>6, <1>8, <2>1, <2>2
<1> QED
  BY <1>9, <1>10 DEF AttachInv

LEMMA NextAttach ==
    ASSUME TypeOK, StageInv, CommandInv, AttachInv, [Next]_vars
    PROVE  AttachInv'
<1> USE DEF mapVars, createVars, workerVars, stopVars, callVars, delVars, loaderVars
<1>1. \A d \in Deletions : delEndpoint[d] # NoEndpoint => delEndpoint[d] \in Requests
  BY DEF TypeOK
<1>2. CASE UNCHANGED <<workerVars, stopVars, delVars, attached>>
  BY <1>1, <1>2, AttachFrame
<1>3. CASE UNCHANGED vars
  BY <1>2, <1>3 DEF vars
<1>4. ASSUME NEW r \in Requests, Create(r)
      PROVE  AttachInv'
  <2>1. CASE Lookup(r) \/ AllocateNewId(r)
    BY <1>2, <2>1 DEF Lookup, AllocateNewId
  <2>2. CASE AddEndpoint(r)
    <3>1. /\ UNCHANGED <<status, stop, aborted, deletion, delEndpoint, attached>>
          /\ \A i \in Requests : worker'[i] = worker[i] \/ worker'[i] = "idle"
      BY <2>2 DEF AddEndpoint, TypeOK
    <3> QED
      BY <1>1, <3>1, AttachFrame
  <2> QED
    BY <1>4, <2>1, <2>2 DEF Create
<1>5. ASSUME NEW u \in Users, GetHandle(u)
      PROVE  AttachInv'
  BY <1>2, <1>5 DEF GetHandle
<1>6. ASSUME NEW c \in Callers, Regenerate(c)
      PROVE  AttachInv'
  BY <1>2, <1>6 DEF Regenerate
<1>7. ASSUME NEW i \in Requests, Worker(i)
      PROVE  AttachInv'
  <2>1. /\ UNCHANGED <<stop, aborted, deletion, delEndpoint, attached>>
        /\ \A j \in Requests : j # i => worker'[j] = worker[j] /\ status'[j] = status[j]
    BY <1>7 DEF TypeOK, Worker, WorkerClose, WorkerTake, WorkerExit, WorkerAborted, PrepareFails,
                SendAdd, FinishRegenerate, Answer
  <2>2. /\ worker'[i] = "none" => worker[i] = "none"
        /\ status'[i] = "ready" \/ worker'[i] = "added" => status[i] = "ready" \/ worker[i] = "added"
    BY <1>7 DEF TypeOK, Worker, WorkerClose, WorkerTake, WorkerExit, WorkerAborted, PrepareFails,
                SendAdd, FinishRegenerate, Answer
  <2> QED
    BY <1>1, <2>1, <2>2, AttachFrame
<1>8. ASSUME NEW d \in Deletions, NEW id \in EndpointIds, DeleteBegin(d, id)
      PROVE  AttachInv'
  <2>1. UNCHANGED <<worker, status, aborted, attached>> /\ \A i \in Requests : stop[i] => stop'[i]
    BY <1>8 DEF DeleteBegin, TypeOK
  <2>2. /\ deletion'[d] \notin {"removed", "ok"}
        /\ \A e \in Deletions : e # d => deletion'[e] = deletion[e] /\ delEndpoint'[e] = delEndpoint[e]
    BY <1>8 DEF DeleteBegin, TypeOK
  <2> QED
    BY <1>1, <2>1, <2>2, AttachFrame
<1>9. ASSUME NEW d \in Deletions, Delete(d)
      PROVE  AttachInv'
  <2>1. /\ UNCHANGED <<worker, status, stop, delEndpoint, attached>>
        /\ \A i \in Requests : aborted[i] => aborted'[i]
    BY <1>9 DEF Delete, Drained, DrainTimeout, SendRemove, ReleaseId, TypeOK
  <2>2. \A e \in Deletions : deletion'[e] \in {"removed", "ok"} /\ delEndpoint[e] # NoEndpoint =>
            deletion[e] \in {"removed", "ok"}
    BY <1>9 DEF Delete, Drained, DrainTimeout, SendRemove, ReleaseId, TypeOK, StageInv, DeletionStage
  <2> QED
    BY <1>1, <2>1, <2>2, AttachFrame
<1>10. ASSUME NEW found \in SUBSET EndpointIds, Restore(found)
       PROVE  AttachInv'
  BY <1>2, <1>10 DEF Restore
<1>11. CASE RemoveAll
  <2>1. UNCHANGED <<worker, status, aborted, deletion, delEndpoint, attached>>
    BY <1>11 DEF RemoveAll
  <2>2. \A i \in Requests : stop[i] => stop'[i]
    BY <1>11 DEF RemoveAll
  <2> QED
    BY <1>1, <2>1, <2>2, AttachFrame
<1>12. CASE Loader
  BY <1>12, LoaderAddAttach, LoaderRemoveAttach DEF Loader
<1> QED
  BY <1>3, <1>4, <1>5, <1>6, <1>7, <1>8, <1>9, <1>10, <1>11, <1>12 DEF Next

-----------------------------------------------------------------------------
(* The first state. *)
LEMMA InitInv == Init => StageInv /\ IdInv /\ CommandInv /\ AttachInv
<1> SUFFICES ASSUME Init PROVE StageInv /\ IdInv /\ CommandInv /\ AttachInv
  OBVIOUS
<1>1. /\ \A r \in Requests : /\ create[r] = "idle" /\ worker[r] = "none" /\ status[r] = "created"
                             /\ ~stop[r] /\ ~closed[r] /\ ~aborted[r]
      /\ \A d \in Deletions : deletion[d] = "idle" /\ delEndpoint[d] = NoEndpoint
      /\ \A id \in EndpointIds : endpoints[id] = NoEndpoint
  BY DEF Init
<1>2. restored = {} /\ loaderQueue = <<>> /\ Len(loaderQueue) = 0
  BY DEF Init
<1>3. StageInv
  BY <1>1, <1>2 DEF StageInv, BootFirst, WorkerStage, MapStage, DeletionStage, RemoveStage, Active
<1>4. IdInv
  BY <1>1, <1>2 DEF IdInv, UsedIsTaken, UsedOnce, DeletionHasId, Uses, Live, Active
<1>5. CommandInv
  BY <1>2 DEF CommandInv
<1>6. AttachInv
  BY <1>1 DEF AttachInv, RemovedIsDetached, AddedIsAttached
<1> QED
  BY <1>3, <1>4, <1>5, <1>6

Inv == TypeOK /\ StageInv /\ IdInv /\ CommandInv /\ AttachInv

(* The invariant holds in every state of the manager. *)
THEOREM Invariance == Spec => []Inv
<1>1. Init => Inv
  BY InitType, InitInv DEF Inv
<1>2. Inv /\ [Next]_vars => Inv'
  BY NextType, NextStage, NextId, NextCommand, NextAttach DEF Inv
<1> QED
  BY <1>1, <1>2, PTL DEF Spec

(* The variables keep their types: what is released to the pool of ids is an *)
(* id, and a command at the loader names an endpoint (manager.rs             *)
(* delete_endpoint, add_endpoint).                                           *)
THEOREM TypeCorrect == Spec => []TypeOK
<1>1. Inv => TypeOK
  BY DEF Inv
<1> QED
  BY <1>1, Invariance, PTL

(* An id, and with it a state directory, belongs to one endpoint at a time,  *)
(* however creations, deletions, timeouts and remove_all interleave: it is   *)
(* not available while it is leased, in the map, or used by a worker that    *)
(* still drains its queue (manager.rs, id_allocator.rs).                     *)
THEOREM IdsExclusive == Spec => []IdsAreExclusive
<1>1. Inv => IdsAreExclusive
  <2> SUFFICES ASSUME Inv PROVE IdsAreExclusive
    OBVIOUS
  <2>1. \A id \in EndpointIds : endpoints[id] # NoEndpoint => id \notin ids
    BY MapIsUsed DEF Inv, IdInv, UsedIsTaken
  <2>2. /\ \A i \in Requests : Uses(i) => idOf[i] \notin ids \cup restored
        /\ \A i, j \in Requests : i # j /\ Uses(i) /\ Uses(j) => idOf[i] # idOf[j]
    BY DEF Inv, IdInv, UsedIsTaken, UsedOnce
  <2> QED
    BY <2>1, <2>2 DEF IdsAreExclusive, Uses
<1> QED
  BY <1>1, Invariance, PTL

(* A deletion that succeeded is final: neither a worker nor a command at the *)
(* loader is left that could attach the endpoint's programs again (the       *)
(* comment in delete_endpoint).                                              *)
THEOREM DeletionIsFinal == Spec => []DeletedStaysDetached
<1>1. Inv => DeletedStaysDetached
  <2> SUFFICES ASSUME Inv, NEW d \in Deletions, deletion[d] = "ok", delEndpoint[d] # NoEndpoint
               PROVE  /\ ~Live(delEndpoint[d])
                      /\ attached[Container[delEndpoint[d]]] # delEndpoint[d]
                      /\ \A k \in 1 .. Len(loaderQueue) : loaderQueue[k].endpoint # delEndpoint[d]
    BY DEF DeletedStaysDetached
  <2>1. worker[delEndpoint[d]] = "exited" /\ ~aborted[delEndpoint[d]]
    BY DEF Inv, StageInv, DeletionStage
  <2>2. attached[Container[delEndpoint[d]]] # delEndpoint[d]
    BY <2>1 DEF Inv, AttachInv, RemovedIsDetached
  <2>3. ASSUME NEW k \in 1 .. Len(loaderQueue), loaderQueue[k].endpoint = delEndpoint[d]
        PROVE  FALSE
    <3>1. /\ loaderQueue[k].op \in {"add", "remove"}
          /\ loaderQueue[k].op = "remove" => loaderQueue[k].by \in Deletions
      BY CommandsAre, QueueSteps DEF Inv, TypeOK
    <3>2. CASE loaderQueue[k].op = "add"
      BY <2>1, <2>3, <3>2 DEF Inv, CommandInv
    <3>3. CASE loaderQueue[k].op = "remove"
      BY <2>3, <3>1, <3>3 DEF Inv, StageInv, RemoveStage, DeletionStage
    <3> QED
      BY <3>1, <3>2, <3>3
  <2> QED
    BY <2>1, <2>2, <2>3 DEF Live
<1> QED
  BY <1>1, Invariance, PTL

(* An endpoint that is published as Ready has its programs attached, however *)
(* its regenerations failed since, unless one is under way or its container  *)
(* was given a second endpoint (regenerate.rs, the loader's answers).        *)
THEOREM ReadyAttached == Spec => []ReadyIsAttached
<1>1. Inv => ReadyIsAttached
  <2> SUFFICES ASSUME Inv, NEW id \in EndpointIds, endpoints[id] # NoEndpoint,
                      status[endpoints[id]] = "ready", Alone(endpoints[id])
               PROVE  attached[Container[endpoints[id]]] = endpoints[id]
    BY DEF ReadyIsAttached, Alone
  <2>1. endpoints[id] \in Requests /\ ~stop[endpoints[id]]
    BY DEF Inv, TypeOK, StageInv, MapStage
  <2> QED
    BY <2>1 DEF Inv, AttachInv, AddedIsAttached
<1> QED
  BY <1>1, Invariance, PTL

-----------------------------------------------------------------------------
(* Only an abort cancels calls, those of its endpoint's handles, and no      *)
(* abort is taken back.                                                      *)
QueuedInv ==
    \A c \in Callers : call[c] = "cancelled" => target[c] \in Requests /\ aborted[target[c]]

LEMMA NextQueued ==
    ASSUME TypeOK, QueuedInv, [Next]_vars
    PROVE  QueuedInv'
<1> USE DEF mapVars, createVars, workerVars, stopVars, callVars, delVars, loaderVars
<1>1. CASE UNCHANGED <<call, target, aborted>>
  BY <1>1 DEF QueuedInv
<1>2. CASE UNCHANGED vars
  BY <1>1, <1>2 DEF vars
<1>3. ASSUME NEW r \in Requests, Create(r)
      PROVE  QueuedInv'
  <2>1. CASE Lookup(r) \/ AllocateNewId(r)
    BY <1>1, <2>1 DEF Lookup, AllocateNewId
  <2>2. CASE AddEndpoint(r)
    BY <2>2 DEF AddEndpoint, TypeOK, QueuedInv
  <2> QED
    BY <1>3, <2>1, <2>2 DEF Create
<1>4. ASSUME NEW u \in Users, GetHandle(u)
      PROVE  QueuedInv'
  BY <1>4 DEF GetHandle, TypeOK, QueuedInv, Callers
<1>5. ASSUME NEW c \in Callers, Regenerate(c)
      PROVE  QueuedInv'
  BY <1>5 DEF Regenerate, TypeOK, QueuedInv
<1>6. ASSUME NEW i \in Requests, Worker(i)
      PROVE  QueuedInv'
  <2>1. CASE WorkerClose(i) \/ WorkerTake(i) \/ WorkerExit(i) \/ SendAdd(i)
    BY <1>1, <2>1 DEF WorkerClose, WorkerTake, WorkerExit, SendAdd
  <2>2. CASE PrepareFails(i) \/ FinishRegenerate(i)
    BY <2>2 DEF PrepareFails, FinishRegenerate, Answer, QueuedInv
  <2>3. CASE WorkerAborted(i)
    BY <2>3 DEF WorkerAborted, QueuedInv
  <2> QED
    BY <1>6, <2>1, <2>2, <2>3 DEF Worker
<1>7. ASSUME NEW d \in Deletions, NEW id \in EndpointIds, DeleteBegin(d, id)
      PROVE  QueuedInv'
  BY <1>1, <1>7 DEF DeleteBegin
<1>8. ASSUME NEW d \in Deletions, Delete(d)
      PROVE  QueuedInv'
  <2>1. CASE Drained(d) \/ SendRemove(d) \/ ReleaseId(d)
    BY <1>1, <2>1 DEF Drained, SendRemove, ReleaseId
  <2>2. CASE DrainTimeout(d)
    <3>1. UNCHANGED <<call, target>> /\ aborted' = [aborted EXCEPT ![delEndpoint[d]] = TRUE]
      BY <2>2 DEF DrainTimeout
    <3>2. \A i \in Requests : aborted[i] => aborted'[i]
      BY <3>1 DEF TypeOK
    <3> QED
      BY <3>1, <3>2 DEF TypeOK, QueuedInv
  <2> QED
    BY <1>8, <2>1, <2>2 DEF Delete
<1>9. ASSUME NEW found \in SUBSET EndpointIds, Restore(found)
      PROVE  QueuedInv'
  BY <1>1, <1>9 DEF Restore
<1>10. CASE RemoveAll
  BY <1>1, <1>10 DEF RemoveAll
<1>11. CASE Loader
  BY <1>1, <1>11 DEF Loader, LoaderAdd, LoaderRemove
<1> QED
  BY <1>2, <1>3, <1>4, <1>5, <1>6, <1>7, <1>8, <1>9, <1>10, <1>11 DEF Next

(* A command that a worker's queue accepted is never thrown away unless the  *)
(* worker was aborted: "the ones already queued still run" (handle.rs).      *)
THEOREM AcceptedRuns == Spec => []QueuedStillRuns
<1>1. Init => QueuedInv
  BY DEF Init, QueuedInv
<1>2. TypeOK /\ QueuedInv /\ [Next]_vars => QueuedInv'
  BY NextQueued
<1>3. QueuedInv => QueuedStillRuns
  BY DEF QueuedInv, QueuedStillRuns
<1> QED
  BY <1>1, <1>2, <1>3, TypeCorrect, PTL DEF Spec
=============================================================================
