----------------------------- MODULE Controller -----------------------------
(***************************************************************************)
(* The controller manager of the data plane (sarena-data-plane,            *)
(* controller/): named background jobs that are run at an interval, again  *)
(* after an update, and after a backoff when they fail.                    *)
(*                                                                         *)
(* Callers of the manager (update, remove, remove_all, drop) run           *)
(* concurrently with one task per controller (runner.rs).  They share the  *)
(* watch channel that holds the newest spec, the cancellation token and    *)
(* the status cell.  The manager's lock on `entries` covers the body of    *)
(* `update` and the map operation of `remove`, but not the cancellation    *)
(* and the registry removal that follow it, so these are steps of their    *)
(* own.                                                                    *)
(*                                                                         *)
(* An Option is a set with at most one element, as in module Backoff.      *)
(***************************************************************************)
EXTENDS Backoff

CONSTANTS
    Names,           \* names of controllers
    RequestedSpecs,  \* the specs callers pass to update
    MaxInterval,     \* ManagerBuilder::max_interval, an option
    MaxUpdates,      \* bound: calls of update in one behaviour
    MaxIds,          \* bound: controllers made in one behaviour
    MaxErrors        \* bound: failures of one job in a row

ASSUME ControllerAssumption ==
    /\ MaxUpdates \in Nat
    /\ MaxIds \in Nat
    /\ MaxErrors \in Nat
    /\ MaxInterval \in SUBSET Nat /\ Cardinality(MaxInterval) <= 1
    /\ \A s \in RequestedSpecs :
          /\ DOMAIN s = {"interval", "backoff", "onStop"}
          /\ s.interval \in SUBSET Nat
          /\ s.onStop \in BOOLEAN

Ids == 1 .. MaxIds
NoId == 0

VARIABLES
    entries,    \* the manager's map: name -> id of its controller, or NoId
    nextId,     \* NEXT_ID
    updates,    \* number of calls of update; stamps each spec it stores
    dropped,    \* the manager has been dropped
    stop,       \* per id: how far the call that stops it has come
    registry,   \* ids in the registry
    channel,    \* per id: the newest spec (the watch channel)
    seen,       \* per id: the receiver has seen that spec
    task,       \* per id: what the controller's task is doing
    held,       \* per id: the spec the runner works with
    armed,      \* per id: the wait has a delay, not only an update to wait for
    errors,     \* per id: the runner's consecutive_errors
    status,     \* per id: the status cell
    hookRuns    \* per id: how often the stop hook was called (history)

vars == <<entries, nextId, updates, dropped, stop, registry, channel, seen,
          task, held, armed, errors, status, hookRuns>>

managerVars == <<entries, nextId, updates, dropped>>
runnerVars == <<task, held, armed, errors, hookRuns>>

-----------------------------------------------------------------------------
(* Specs. *)

(* A zero interval counts as none; a longer one is capped at MaxInterval. *)
Normalize(s) ==
    LET nonZero == s.interval \ {0}
    IN  [s EXCEPT !.interval =
            {IF MaxInterval # {} /\ i > Max(MaxInterval) THEN Max(MaxInterval) ELSE i :
                i \in nonZero}]

(* The spec as the channel stores it: stamped with the update that sent it. *)
Stamped(s, version) ==
    LET n == Normalize(s)
    IN  [interval |-> n.interval, backoff |-> n.backoff, onStop |-> n.onStop,
         version |-> version]

Specs == {Stamped(s, v) : s \in RequestedSpecs, v \in 1 .. MaxUpdates}

NoSpec == [interval |-> {}, backoff |-> NoBackoff, onStop |-> FALSE, version |-> 0]

StatusOf(s) ==
    [interval |-> s.interval, backoff |-> s.backoff,
     consecutiveFailures |-> 0, lastError |-> FALSE]

(* Faulty variant: an update leaves the cell as it is. *)
ConfigureNothing(cell, s) == cell

(* The operations on a status cell: a new configuration, the result of a    *)
(* run, and the failure of the stop hook.                                   *)
Configure(cell, s) ==
    [interval |-> s.interval, backoff |-> s.backoff,
     consecutiveFailures |-> cell.consecutiveFailures, lastError |-> cell.lastError]

(* Faulty variant: a success does not reset the count of failures. *)
RecordRunKeepsFailures(cell, failed) ==
    [interval |-> cell.interval, backoff |-> cell.backoff,
     consecutiveFailures |-> cell.consecutiveFailures + IF failed THEN 1 ELSE 0,
     lastError |-> failed]

RecordRun(cell, failed) ==
    [interval |-> cell.interval, backoff |-> cell.backoff,
     consecutiveFailures |-> IF failed THEN cell.consecutiveFailures + 1 ELSE 0,
     lastError |-> failed]

RecordStopError(cell) ==
    [interval |-> cell.interval, backoff |-> cell.backoff,
     consecutiveFailures |-> cell.consecutiveFailures, lastError |-> TRUE]

(* stop_entry has cancelled the controller's token. *)
Cancelled(id) == stop[id] \in {"cancelled", "done"}

-----------------------------------------------------------------------------
Init ==
    /\ entries = [n \in Names |-> NoId]
    /\ nextId = 1
    /\ updates = 0
    /\ dropped = FALSE
    /\ stop = [id \in Ids |-> "no"]
    /\ registry = {}
    /\ channel = [id \in Ids |-> NoSpec]
    /\ seen = [id \in Ids |-> FALSE]
    /\ task = [id \in Ids |-> "unborn"]
    /\ held = [id \in Ids |-> NoSpec]
    /\ armed = [id \in Ids |-> FALSE]
    /\ errors = [id \in Ids |-> 0]
    /\ status = [id \in Ids |-> StatusOf(NoSpec)]
    /\ hookRuns = [id \in Ids |-> 0]

-----------------------------------------------------------------------------
(* The manager's operations. *)

(* update for a name in the map: the status shows the new configuration    *)
(* and the channel holds the new spec, unseen by the runner.               *)
Replace(n, s) ==
    /\ entries[n] # NoId
    /\ status' = [status EXCEPT ![entries[n]] = Configure(@, s)]
    /\ channel' = [channel EXCEPT ![entries[n]] = s]
    /\ seen' = [seen EXCEPT ![entries[n]] = FALSE]
    /\ UNCHANGED <<entries, nextId, registry, task>>

(* update for a new name: a status cell, a channel and a token, the         *)
(* registry entry, the spawned task and, last, the map entry.  The model    *)
(* has MaxIds ids.                                                          *)
Create(n, s) ==
    /\ entries[n] = NoId
    /\ nextId \in Ids
    /\ nextId' = nextId + 1
    /\ status' = [status EXCEPT ![nextId] = StatusOf(s)]
    /\ channel' = [channel EXCEPT ![nextId] = s]
    /\ seen' = [seen EXCEPT ![nextId] = FALSE]
    /\ registry' = registry \cup {nextId}
    /\ task' = [task EXCEPT ![nextId] = "spawned"]
    /\ entries' = [entries EXCEPT ![n] = nextId]

Update(n, request) ==
    /\ ~dropped
    /\ updates < MaxUpdates
    /\ updates' = updates + 1
    /\ LET s == Stamped(request, updates + 1)
       IN  Replace(n, s) \/ Create(n, s)
    /\ UNCHANGED <<dropped, stop, held, armed, errors, hookRuns>>

(* Faulty variant: remove forgets to take the entry out of the map. *)
RemoveKeepsEntry(n) ==
    /\ ~dropped
    /\ entries[n] # NoId
    /\ stop[entries[n]] = "no"
    /\ stop' = [stop EXCEPT ![entries[n]] = "detached"]
    /\ UNCHANGED <<managerVars, registry, channel, seen, status, runnerVars>>

(* remove takes the entry out of the map and releases the lock; the call    *)
(* goes on with StopCancel and StopUnregister.                              *)
Remove(n) ==
    /\ ~dropped
    /\ entries[n] # NoId
    /\ entries' = [entries EXCEPT ![n] = NoId]
    /\ stop' = [stop EXCEPT ![entries[n]] = "detached"]
    /\ UNCHANGED <<nextId, updates, dropped, registry, channel, seen, status, runnerVars>>

(* The ids of the controllers in the map. *)
Entered == {entries[n] : n \in Names} \ {NoId}

(* remove_all drains the map, then stops every drained entry. *)
RemoveAll ==
    /\ ~dropped
    /\ Entered # {}
    /\ entries' = [n \in Names |-> NoId]
    /\ stop' = [id \in Ids |-> IF id \in Entered THEN "detached" ELSE stop[id]]
    /\ UNCHANGED <<nextId, updates, dropped, registry, channel, seen, status, runnerVars>>

(* stop_entry: cancel the token ... *)
StopCancel(id) ==
    /\ stop[id] = "detached"
    /\ stop' = [stop EXCEPT ![id] = "cancelled"]
    /\ UNCHANGED <<managerVars, registry, channel, seen, status, runnerVars>>

(* ... then leave the registry; also the loop at the end of drop. *)
StopUnregister(id) ==
    /\ stop[id] = "cancelled"
    /\ stop' = [stop EXCEPT ![id] = "done"]
    /\ registry' = registry \ {id}
    /\ UNCHANGED <<managerVars, channel, seen, status, runnerVars>>

(* drop has the manager to itself: no other call is under way.  Cancelling  *)
(* the root token cancels every entry's child token.                        *)
Drop ==
    /\ ~dropped
    /\ \A id \in Ids : stop[id] \in {"no", "done"}
    /\ dropped' = TRUE
    /\ entries' = [n \in Names |-> NoId]
    /\ stop' = [id \in Ids |-> IF id \in Entered THEN "cancelled" ELSE stop[id]]
    /\ UNCHANGED <<nextId, updates, registry, channel, seen, status, runnerVars>>

-----------------------------------------------------------------------------
(* The controller's task. *)

(* The task's first poll takes the newest spec and starts its job, even if  *)
(* the controller was stopped before.                                       *)
Start(id) ==
    /\ task[id] = "spawned"
    /\ task' = [task EXCEPT ![id] = "running"]
    /\ held' = [held EXCEPT ![id] = channel[id]]
    /\ seen' = [seen EXCEPT ![id] = TRUE]
    /\ UNCHANGED <<managerVars, stop, registry, channel, status, armed, errors, hookRuns>>

(* next_wait: the delay before the next run; {} waits for an update. *)
NextWait(s, result, consecutive) ==
    CASE result = "continue" -> s.interval
      [] result = "done" -> {}
      [] result = "error" ->
           IF Delay(s.backoff, consecutive) # {} THEN Delay(s.backoff, consecutive)
           ELSE s.interval

(* Faulty variant: a success does not reset the runner's own count. *)
RecordKeepsErrors(id, result) ==
    /\ status' = [status EXCEPT ![id] = RecordRun(@, result = "error")]
    /\ errors' = [errors EXCEPT ![id] = IF result = "error" THEN @ + 1 ELSE @]

(* record: the status cell and the runner's own count. *)
Record(id, result) ==
    /\ status' = [status EXCEPT ![id] = RecordRun(@, result = "error")]
    /\ errors' = [errors EXCEPT ![id] = IF result = "error" THEN @ + 1 ELSE 0]

(* Faulty variant: the channel is marked as seen when a run ends, so that   *)
(* an update made during the run is lost.                                   *)
FinishJobMarksSeen(id, result) ==
    /\ task[id] = "running"
    /\ result = "error" => errors[id] < MaxErrors
    /\ Record(id, result)
    /\ armed' = [armed EXCEPT ![id] = NextWait(held[id], result, errors'[id]) # {}]
    /\ task' = [task EXCEPT ![id] = "waiting"]
    /\ seen' = [seen EXCEPT ![id] = TRUE]
    /\ UNCHANGED <<managerVars, stop, registry, channel, held, hookRuns>>

(* The job returns, or panics, which is caught and counts as an error. *)
FinishJob(id, result) ==
    /\ task[id] = "running"
    /\ result = "error" => errors[id] < MaxErrors
    /\ Record(id, result)
    /\ armed' = [armed EXCEPT ![id] = NextWait(held[id], result, errors'[id]) # {}]
    /\ task' = [task EXCEPT ![id] = "waiting"]
    /\ UNCHANGED <<managerVars, stop, registry, channel, seen, held, hookRuns>>

(* Faulty variant: the stop hook is called whenever the runner is woken by  *)
(* a stop, and the runner goes back to waiting.                             *)
WakeStoppedKeepsWaiting(id) ==
    /\ task[id] = "waiting"
    /\ Cancelled(id)
    /\ hookRuns[id] < 2
    /\ \E next \in {"waiting", "stopping"} : task' = [task EXCEPT ![id] = next]
    /\ hookRuns' = [hookRuns EXCEPT ![id] = IF held[id].onStop THEN @ + 1 ELSE @]
    /\ armed' = [armed EXCEPT ![id] = FALSE]
    /\ UNCHANGED <<managerVars, stop, registry, channel, seen, status, held, errors>>

(* wait is a biased select: a stop comes first.  A poll looks at the token,  *)
(* the channel and the timer one after the other while callers go on; it is  *)
(* one step, that of the last instant at which the token was not cancelled   *)
(* (no update reaches a controller that has been cancelled, and only the     *)
(* runner marks the channel as seen, so the outcome fits that instant) ...   *)
WakeStopped(id) ==
    /\ task[id] = "waiting"
    /\ Cancelled(id)
    /\ task' = [task EXCEPT ![id] = "stopping"]
    /\ hookRuns' = [hookRuns EXCEPT ![id] = IF held[id].onStop THEN @ + 1 ELSE @]
    /\ armed' = [armed EXCEPT ![id] = FALSE]
    /\ UNCHANGED <<managerVars, stop, registry, channel, seen, status, held, errors>>

(* ... then a new spec, whose job runs at once ... *)
WakeSpecChanged(id) ==
    /\ task[id] = "waiting"
    /\ ~Cancelled(id)
    /\ ~seen[id]
    /\ seen' = [seen EXCEPT ![id] = TRUE]
    /\ held' = [held EXCEPT ![id] = channel[id]]
    /\ task' = [task EXCEPT ![id] = "running"]
    /\ armed' = [armed EXCEPT ![id] = FALSE]
    /\ UNCHANGED <<managerVars, stop, registry, channel, status, errors, hookRuns>>

(* Faulty variant: the timer is polled before the token and the channel. *)
WakeTimerFirst(id) ==
    /\ task[id] = "waiting"
    /\ armed[id]
    /\ task' = [task EXCEPT ![id] = "running"]
    /\ armed' = [armed EXCEPT ![id] = FALSE]
    /\ UNCHANGED <<managerVars, stop, registry, channel, seen, status, held, errors, hookRuns>>

(* ... then the timer, if the wait has one. *)
WakeTimer(id) ==
    /\ task[id] = "waiting"
    /\ ~Cancelled(id)
    /\ seen[id]
    /\ armed[id]
    /\ task' = [task EXCEPT ![id] = "running"]
    /\ armed' = [armed EXCEPT ![id] = FALSE]
    /\ UNCHANGED <<managerVars, stop, registry, channel, seen, status, held, errors, hookRuns>>

(* The stop hook returns, fails, panics or is abandoned at stop_timeout; a  *)
(* controller without one ends at once.  Ending the task drops the guard    *)
(* that fires `terminated`.                                                 *)
EndTask(id, failed) ==
    /\ task[id] = "stopping"
    /\ failed => held[id].onStop
    /\ task' = [task EXCEPT ![id] = "ended"]
    /\ status' = [status EXCEPT ![id] = IF failed THEN RecordStopError(@) ELSE @]
    /\ UNCHANGED <<managerVars, stop, registry, channel, seen, held, armed, errors, hookRuns>>

Wake(id) == WakeStopped(id) \/ WakeSpecChanged(id) \/ WakeTimer(id)

Runner(id) ==
    \/ Start(id)
    \/ \E result \in {"continue", "done", "error"} : FinishJob(id, result)
    \/ Wake(id)
    \/ \E failed \in BOOLEAN : EndTask(id, failed)

-----------------------------------------------------------------------------
Next ==
    \/ \E n \in Names, request \in RequestedSpecs : Update(n, request)
    \/ \E n \in Names : Remove(n)
    \/ RemoveAll
    \/ Drop
    \/ \E id \in Ids : StopCancel(id) \/ StopUnregister(id)
    \/ \E id \in Ids : Runner(id)

(* The runtime polls a task that can go on, a job comes to an end (it has   *)
(* the token to see that it should), a sleep ends, the stop hook is bounded *)
(* by its timeout, and a call of the manager that started runs to its end.  *)
(* Nothing obliges a caller to make a call.                                 *)
Fairness ==
    \A id \in Ids :
        /\ WF_vars(Runner(id))
        /\ WF_vars(StopCancel(id) \/ StopUnregister(id))

Spec == Init /\ [][Next]_vars /\ Fairness

-----------------------------------------------------------------------------
(* Properties. *)

TaskStates == {"unborn", "spawned", "running", "waiting", "stopping", "ended"}

StatusCells ==
    [interval : {s.interval : s \in Specs \cup {NoSpec}},
     backoff : {s.backoff : s \in Specs \cup {NoSpec}},
     consecutiveFailures : 0 .. MaxErrors, lastError : BOOLEAN]

(* The manager's map, the channels, the tasks and the status cells hold     *)
(* values of their types; in particular the ids never run past the bound.   *)
TypeOK ==
    /\ entries \in [Names -> Ids \cup {NoId}]
    /\ updates \in 0 .. MaxUpdates
    /\ nextId \in 1 .. updates + 1
    /\ dropped \in BOOLEAN
    /\ stop \in [Ids -> {"no", "detached", "cancelled", "done"}]
    /\ registry \in SUBSET Ids
    /\ channel \in [Ids -> Specs \cup {NoSpec}]
    /\ seen \in [Ids -> BOOLEAN]
    /\ task \in [Ids -> TaskStates]
    /\ held \in [Ids -> Specs \cup {NoSpec}]
    /\ armed \in [Ids -> BOOLEAN]
    /\ errors \in [Ids -> 0 .. MaxErrors]
    /\ status \in [Ids -> StatusCells]
    /\ hookRuns \in [Ids -> Nat]

(* Every controller in the manager's map is alive: it is registered, nobody *)
(* is stopping it, its task has not begun to stop, and no other name shares *)
(* it.  Together with the watch channel this is why an update of an         *)
(* existing name can never be sent to a runner that is gone                 *)
(* (manager.rs update, remove, stop_entry).                                 *)
EntryIsLive ==
    \A n \in Names : entries[n] # NoId =>
        /\ entries[n] \in registry
        /\ stop[entries[n]] = "no"
        /\ task[entries[n]] \in {"spawned", "running", "waiting"}
        /\ \A m \in Names : entries[m] = entries[n] => m = n

(* The status a reader sees tells the truth: it shows the newest            *)
(* configuration, its count of failures in a row is the one the runner's    *)
(* backoff uses, and an error is shown while the last run failed            *)
(* (status.rs record_run, configure; runner.rs record).                     *)
StatusAgrees ==
    \A id \in Ids :
        /\ status[id].interval = channel[id].interval
        /\ status[id].backoff = channel[id].backoff
        /\ status[id].consecutiveFailures = errors[id]
        /\ errors[id] > 0 => status[id].lastError
        /\ status[id].lastError /\ errors[id] = 0 => task[id] = "ended"

(* The stop hook is called exactly once, after the controller was stopped,  *)
(* and Termination resolves only after it: an ended task called the hook of *)
(* the spec it held, and nobody's hook is called while the controller is in *)
(* the map (runner.rs run, run_stop_hook; manager.rs terminated guard).     *)
StopHookOnce ==
    \A id \in Ids :
        /\ hookRuns[id] = (IF task[id] \in {"stopping", "ended"} /\ held[id].onStop
                           THEN 1 ELSE 0)
        /\ task[id] \in {"stopping", "ended"} => Cancelled(id)

(* A run of the job, whatever woke the runner, uses the newest spec.        *)
JobUsesNewestSpec ==
    [][\A id \in Ids :
          task[id] # "running" /\ task'[id] = "running" => held'[id] = channel[id]]_vars

(* No update is lost: after an update the job runs with the newest spec,    *)
(* unless the controller is stopped first.  Updates made during a run are   *)
(* folded into one rerun of the last of them (runner.rs wait;               *)
(* manager.rs update).                                                      *)
UpdateIsRun ==
    \A id \in Ids :
        ~seen[id] /\ task[id] # "unborn"
            ~> (task[id] = "running" /\ held[id] = channel[id]) \/ stop[id] # "no"

(* Stopping terminates: once remove, remove_all or drop has taken a         *)
(* controller out of the map, its task ends and it leaves the registry,     *)
(* whatever job, backoff or update it was in the middle of.                 *)
StopTerminates ==
    \A id \in Ids :
        stop[id] # "no" ~> task[id] = "ended" /\ id \notin registry
=============================================================================
