--------------------------- MODULE ControllerProofs ---------------------------
(***************************************************************************)
(* Proofs about the controller manager, for any number of names, specs and *)
(* updates, and about the delay it retries after, for every backoff and    *)
(* number of failures.                                                     *)
(***************************************************************************)
EXTENDS Controller, WellFoundedInduction, TLAPS

(* Ids that were not given out are untouched, so that a new controller      *)
(* starts from nothing; ids that were have a task.                          *)
FreshIds ==
    /\ \A id \in Ids : id >= nextId =>
          /\ task[id] = "unborn"
          /\ stop[id] = "no"
          /\ errors[id] = 0
    /\ \A n \in Names : entries[n] < nextId

(* A spec the receiver has seen is the one the runner works with. *)
SeenIsHeld == \A id \in Ids : seen[id] => held[id] = channel[id]

(* The inductive invariant. *)
Inv ==
    /\ TypeOK
    /\ FreshIds
    /\ SeenIsHeld
    /\ EntryIsLive
    /\ StopHookOnce
    /\ StatusAgrees

-----------------------------------------------------------------------------
LEMMA Bounds == MaxUpdates \in Nat /\ MaxIds \in Nat /\ MaxErrors \in Nat
BY ControllerAssumption DEF ControllerAssumption

(* What update stores is a spec, stamped with its version. *)
LEMMA StampedIsSpec ==
    ASSUME NEW r \in RequestedSpecs, NEW v \in 1 .. MaxUpdates
    PROVE  Stamped(r, v) \in Specs
BY DEF Specs

(* A spec's fresh status is a status cell. *)
LEMMA StatusOfIsCell ==
    ASSUME NEW s \in Specs \cup {NoSpec}
    PROVE  StatusOf(s) \in StatusCells
BY Bounds DEF StatusOf, StatusCells

(* The initial state satisfies the invariant. *)
LEMMA InitInv == Init => Inv
<1> SUFFICES ASSUME Init PROVE Inv
  OBVIOUS
<1> USE Bounds DEF Init
<1>1. TypeOK
  <2>1. StatusOf(NoSpec) \in StatusCells
    BY StatusOfIsCell, Zenon
  <2>2. /\ updates \in 0 .. MaxUpdates
        /\ nextId \in 1 .. updates + 1
        /\ errors \in [Ids -> 0 .. MaxErrors]
        /\ hookRuns \in [Ids -> Nat]
    OBVIOUS
  <2>3. /\ entries \in [Names -> Ids \cup {NoId}]
        /\ registry \in SUBSET Ids
        /\ channel \in [Ids -> Specs \cup {NoSpec}]
        /\ held \in [Ids -> Specs \cup {NoSpec}]
        /\ status \in [Ids -> StatusCells]
    BY <2>1
  <2>4. /\ dropped \in BOOLEAN
        /\ seen \in [Ids -> BOOLEAN]
        /\ armed \in [Ids -> BOOLEAN]
        /\ stop \in [Ids -> {"no", "detached", "cancelled", "done"}]
        /\ task \in [Ids -> TaskStates]
    BY DEF TaskStates
  <2> QED
    BY <2>2, <2>3, <2>4 DEF TypeOK
<1>2. FreshIds
  BY DEF FreshIds, Ids, NoId
<1>3. SeenIsHeld /\ EntryIsLive /\ StopHookOnce
  BY DEF SeenIsHeld, EntryIsLive, StopHookOnce, NoSpec
<1>4. StatusAgrees
  BY DEF StatusAgrees, StatusOf
<1> QED
  BY <1>1, <1>2, <1>3, <1>4 DEF Inv

-----------------------------------------------------------------------------
(* update preserves the invariant: a known name gets a new spec ... *)
LEMMA ReplaceInv ==
    ASSUME Inv, NEW n \in Names, NEW r \in RequestedSpecs,
           Update(n, r), Replace(n, Stamped(r, updates + 1))
    PROVE  Inv'
<1> DEFINE id == entries[n]
           s  == Stamped(r, updates + 1)
<1> USE Bounds
<1>1. /\ id \in Ids
      /\ task[id] \in {"spawned", "running", "waiting"}
      /\ s \in Specs
      /\ updates' = updates + 1
      /\ updates' \in 0 .. MaxUpdates
  BY StampedIsSpec DEF Inv, TypeOK, EntryIsLive, Replace, Update
<1>2. /\ status' = [status EXCEPT ![id] = Configure(@, s)]
      /\ channel' = [channel EXCEPT ![id] = s]
      /\ seen' = [seen EXCEPT ![id] = FALSE]
      /\ UNCHANGED <<entries, nextId, registry, task, dropped, stop, held, armed, errors,
                     hookRuns>>
  BY DEF Replace, Update
<1> HIDE DEF id, s
<1>3. status' \in [Ids -> StatusCells]
  BY <1>1, <1>2 DEF Inv, TypeOK, StatusCells, Configure
<1>4. TypeOK'
  BY <1>1, <1>2, <1>3 DEF Inv, TypeOK
<1>5. FreshIds' /\ SeenIsHeld' /\ EntryIsLive'
  BY <1>1, <1>2 DEF Inv, TypeOK, FreshIds, SeenIsHeld, EntryIsLive
<1>6. StopHookOnce'
  BY <1>1, <1>2 DEF Inv, TypeOK, StopHookOnce, Cancelled
<1>7. StatusAgrees'
  BY <1>1, <1>2 DEF Inv, TypeOK, StatusAgrees, Configure
<1> QED
  BY <1>4, <1>5, <1>6, <1>7 DEF Inv

(* ... and a new name gets a controller with a fresh id. *)
LEMMA CreateInv ==
    ASSUME Inv, NEW n \in Names, NEW r \in RequestedSpecs,
           Update(n, r), Create(n, Stamped(r, updates + 1))
    PROVE  Inv'
<1> DEFINE s == Stamped(r, updates + 1)
<1> USE Bounds
<1>1. /\ nextId \in Ids
      /\ nextId \in Nat
      /\ s \in Specs
      /\ updates' = updates + 1
      /\ updates' \in 0 .. MaxUpdates
      /\ nextId' \in 1 .. updates' + 1
  BY StampedIsSpec DEF Inv, TypeOK, Create, Update, Ids
<1>2. /\ nextId' = nextId + 1
      /\ status' = [status EXCEPT ![nextId] = StatusOf(s)]
      /\ channel' = [channel EXCEPT ![nextId] = s]
      /\ seen' = [seen EXCEPT ![nextId] = FALSE]
      /\ registry' = registry \cup {nextId}
      /\ task' = [task EXCEPT ![nextId] = "spawned"]
      /\ entries' = [entries EXCEPT ![n] = nextId]
      /\ UNCHANGED <<dropped, stop, held, armed, errors, hookRuns>>
  BY DEF Create, Update
<1> HIDE DEF s
<1>3. /\ task[nextId] = "unborn"
      /\ stop[nextId] = "no"
      /\ errors[nextId] = 0
      /\ \A m \in Names : entries[m] # nextId
  BY <1>1 DEF Inv, TypeOK, FreshIds, Ids, NoId
<1>4. StatusOf(s) \in StatusCells
  BY <1>1, StatusOfIsCell, Zenon
<1>5. TypeOK'
  BY <1>1, <1>2, <1>4 DEF Inv, TypeOK, TaskStates
<1>6. FreshIds'
  <2>1. ASSUME NEW id \in Ids, id >= nextId'
        PROVE  task'[id] = "unborn" /\ stop'[id] = "no" /\ errors'[id] = 0
    BY <1>1, <1>2, <2>1 DEF Inv, TypeOK, FreshIds, Ids
  <2>2. ASSUME NEW m \in Names
        PROVE  entries'[m] < nextId'
    <3>1. entries[m] \in Int /\ entries[m] < nextId
      BY Bounds DEF Inv, TypeOK, FreshIds, Ids, NoId
    <3>2. entries'[m] \in {entries[m], nextId}
      BY <1>2 DEF Inv, TypeOK
    <3> QED
      BY <1>1, <1>2, <3>1, <3>2
  <2> QED
    BY <2>1, <2>2 DEF FreshIds
<1>7. SeenIsHeld' /\ EntryIsLive'
  BY <1>1, <1>2, <1>3 DEF Inv, TypeOK, SeenIsHeld, EntryIsLive
<1>8. StopHookOnce'
  BY <1>1, <1>2, <1>3 DEF Inv, TypeOK, StopHookOnce, Cancelled
<1>9. StatusAgrees'
  BY <1>1, <1>2, <1>3 DEF Inv, TypeOK, StatusAgrees, StatusOf
<1> QED
  BY <1>5, <1>6, <1>7, <1>8, <1>9 DEF Inv

(* remove and remove_all take controllers out of the map, and drop cancels  *)
(* them as well: they leave the map together with their state "no".         *)
LEMMA RemoveInv ==
    ASSUME Inv, NEW n \in Names, Remove(n)
    PROVE  Inv'
<1> USE DEF Inv, Remove, runnerVars
<1>1. TypeOK'
  BY DEF TypeOK
<1>2. FreshIds' /\ SeenIsHeld'
  BY Bounds DEF TypeOK, FreshIds, SeenIsHeld, Ids, NoId
<1>3. EntryIsLive'
  BY DEF TypeOK, EntryIsLive
<1>4. StopHookOnce'
  BY DEF TypeOK, EntryIsLive, StopHookOnce, Cancelled
<1>5. StatusAgrees'
  BY DEF StatusAgrees
<1> QED
  BY <1>1, <1>2, <1>3, <1>4, <1>5

LEMMA RemoveAllInv ==
    ASSUME Inv, RemoveAll
    PROVE  Inv'
<1> USE DEF Inv, RemoveAll, runnerVars
<1>1. TypeOK'
  BY DEF TypeOK
<1>2. FreshIds' /\ SeenIsHeld'
  <2>1. \A id \in Ids : id >= nextId => id \notin Entered
    BY Bounds DEF TypeOK, FreshIds, Ids, NoId, Entered
  <2> QED
    BY <2>1, Bounds DEF TypeOK, FreshIds, SeenIsHeld, Ids, NoId
<1>3. EntryIsLive'
  BY DEF EntryIsLive
<1>4. StopHookOnce'
  BY DEF TypeOK, EntryIsLive, StopHookOnce, Cancelled, Entered
<1>5. StatusAgrees'
  BY DEF StatusAgrees
<1> QED
  BY <1>1, <1>2, <1>3, <1>4, <1>5

LEMMA DropInv ==
    ASSUME Inv, Drop
    PROVE  Inv'
<1> USE DEF Inv, Drop, runnerVars
<1>1. TypeOK'
  BY DEF TypeOK
<1>2. FreshIds' /\ SeenIsHeld'
  <2>1. \A id \in Ids : id >= nextId => id \notin Entered
    BY Bounds DEF TypeOK, FreshIds, Ids, NoId, Entered
  <2> QED
    BY <2>1, Bounds DEF TypeOK, FreshIds, SeenIsHeld, Ids, NoId
<1>3. EntryIsLive'
  BY DEF EntryIsLive
<1>4. StopHookOnce'
  BY DEF TypeOK, EntryIsLive, StopHookOnce, Cancelled, Entered
<1>5. StatusAgrees'
  BY DEF StatusAgrees
<1> QED
  BY <1>1, <1>2, <1>3, <1>4, <1>5

(* The two halves of stop_entry concern a controller that has left the map. *)
LEMMA StopInv ==
    ASSUME Inv, NEW id \in Ids, StopCancel(id) \/ StopUnregister(id)
    PROVE  Inv'
<1> USE DEF Inv, StopCancel, StopUnregister, managerVars, runnerVars
<1>1. TypeOK'
  BY DEF TypeOK
<1>2. FreshIds' /\ SeenIsHeld'
  BY DEF TypeOK, FreshIds, SeenIsHeld
<1>3. EntryIsLive'
  BY DEF TypeOK, EntryIsLive
<1>4. StopHookOnce'
  BY DEF TypeOK, StopHookOnce, Cancelled
<1>5. StatusAgrees'
  BY DEF StatusAgrees
<1> QED
  BY <1>1, <1>2, <1>3, <1>4, <1>5

-----------------------------------------------------------------------------
(* The steps of a controller's task. *)
LEMMA StartInv ==
    ASSUME Inv, NEW id \in Ids, Start(id)
    PROVE  Inv'
<1> USE DEF Inv, Start, managerVars
<1>1. TypeOK'
  BY DEF TypeOK, TaskStates
<1>2. FreshIds' /\ SeenIsHeld'
  BY DEF TypeOK, FreshIds, SeenIsHeld
<1>3. EntryIsLive'
  BY DEF TypeOK, EntryIsLive
<1>4. StopHookOnce'
  BY DEF TypeOK, StopHookOnce, Cancelled
<1>5. StatusAgrees'
  BY DEF TypeOK, StatusAgrees
<1> QED
  BY <1>1, <1>2, <1>3, <1>4, <1>5

LEMMA FinishJobInv ==
    ASSUME Inv, NEW id \in Ids, NEW result \in {"continue", "done", "error"},
           FinishJob(id, result)
    PROVE  Inv'
<1> USE DEF Inv, FinishJob, managerVars
<1>1. /\ status' = [status EXCEPT ![id] = RecordRun(@, result = "error")]
      /\ errors' = [errors EXCEPT ![id] = IF result = "error" THEN @ + 1 ELSE 0]
      /\ task[id] = "running"
      /\ task' = [task EXCEPT ![id] = "waiting"]
  BY DEF Record
<1>2. errors' \in [Ids -> 0 .. MaxErrors]
  BY <1>1, Bounds DEF TypeOK
<1>3. RecordRun(status[id], result = "error") \in StatusCells
  BY <1>1, Bounds DEF TypeOK, StatusAgrees, StatusCells, RecordRun
<1>4. armed' \in [Ids -> BOOLEAN]
  BY DEF TypeOK
<1>5. TypeOK'
  BY <1>1, <1>2, <1>3, <1>4 DEF TypeOK, TaskStates
<1>6. FreshIds' /\ SeenIsHeld'
  BY <1>1 DEF TypeOK, FreshIds, SeenIsHeld
<1>7. EntryIsLive'
  BY <1>1 DEF TypeOK, EntryIsLive
<1>8. StopHookOnce'
  BY <1>1 DEF TypeOK, StopHookOnce, Cancelled
<1>9. StatusAgrees'
  <2> SUFFICES ASSUME NEW i \in Ids
               PROVE  /\ status'[i].interval = channel'[i].interval
                      /\ status'[i].backoff = channel'[i].backoff
                      /\ status'[i].consecutiveFailures = errors'[i]
                      /\ errors'[i] > 0 => status'[i].lastError
                      /\ status'[i].lastError /\ errors'[i] = 0 => task'[i] = "ended"
    BY DEF StatusAgrees
  <2>1. CASE i # id
    BY <1>1, <2>1 DEF TypeOK, StatusAgrees
  <2>2. CASE i = id /\ result = "error"
    <3>1. status'[i] = RecordRun(status[i], TRUE)
      BY <1>1, <2>2 DEF TypeOK
    <3>2. /\ status'[i].interval = status[i].interval
          /\ status'[i].backoff = status[i].backoff
          /\ status'[i].consecutiveFailures = status[i].consecutiveFailures + 1
          /\ status'[i].lastError
      BY <3>1 DEF RecordRun
    <3>3. errors'[i] = errors[i] + 1 /\ errors[i] \in Nat
      BY <1>1, <2>2, Bounds DEF TypeOK
    <3> QED
      BY <3>2, <3>3 DEF StatusAgrees
  <2>3. CASE i = id /\ result # "error"
    <3>1. status'[i] = RecordRun(status[i], FALSE)
      BY <1>1, <2>3 DEF TypeOK
    <3>2. /\ status'[i].interval = status[i].interval
          /\ status'[i].backoff = status[i].backoff
          /\ status'[i].consecutiveFailures = 0
          /\ ~status'[i].lastError
      BY <3>1 DEF RecordRun
    <3>3. errors'[i] = 0
      BY <1>1, <2>3 DEF TypeOK
    <3> QED
      BY <3>2, <3>3 DEF StatusAgrees
  <2> QED
    BY <2>1, <2>2, <2>3
<1> QED
  BY <1>5, <1>6, <1>7, <1>8, <1>9

LEMMA WakeStoppedInv ==
    ASSUME Inv, NEW id \in Ids, WakeStopped(id)
    PROVE  Inv'
<1> USE DEF Inv, WakeStopped, managerVars
<1>1. TypeOK'
  BY DEF TypeOK, TaskStates
<1>2. FreshIds' /\ SeenIsHeld'
  BY DEF TypeOK, FreshIds, SeenIsHeld
<1>3. EntryIsLive'
  BY DEF TypeOK, EntryIsLive, Cancelled
<1>4. StopHookOnce'
  BY DEF TypeOK, StopHookOnce, Cancelled
<1>5. StatusAgrees'
  BY DEF TypeOK, StatusAgrees
<1> QED
  BY <1>1, <1>2, <1>3, <1>4, <1>5

LEMMA WakeSpecChangedInv ==
    ASSUME Inv, NEW id \in Ids, WakeSpecChanged(id)
    PROVE  Inv'
<1> USE DEF Inv, WakeSpecChanged, managerVars
<1>1. TypeOK'
  BY DEF TypeOK, TaskStates
<1>2. FreshIds' /\ SeenIsHeld'
  BY DEF TypeOK, FreshIds, SeenIsHeld
<1>3. EntryIsLive'
  BY DEF TypeOK, EntryIsLive
<1>4. StopHookOnce'
  BY DEF TypeOK, StopHookOnce, Cancelled
<1>5. StatusAgrees'
  BY DEF TypeOK, StatusAgrees
<1> QED
  BY <1>1, <1>2, <1>3, <1>4, <1>5

LEMMA WakeTimerInv ==
    ASSUME Inv, NEW id \in Ids, WakeTimer(id)
    PROVE  Inv'
<1> USE DEF Inv, WakeTimer, managerVars
<1>1. TypeOK'
  BY DEF TypeOK, TaskStates
<1>2. FreshIds' /\ SeenIsHeld'
  BY DEF TypeOK, FreshIds, SeenIsHeld
<1>3. EntryIsLive'
  BY DEF TypeOK, EntryIsLive
<1>4. StopHookOnce'
  BY DEF TypeOK, StopHookOnce, Cancelled
<1>5. StatusAgrees'
  BY DEF TypeOK, StatusAgrees
<1> QED
  BY <1>1, <1>2, <1>3, <1>4, <1>5

LEMMA EndTaskInv ==
    ASSUME Inv, NEW id \in Ids, NEW failed \in BOOLEAN, EndTask(id, failed)
    PROVE  Inv'
<1> USE DEF Inv, EndTask, managerVars
<1>1. RecordStopError(status[id]) \in StatusCells
  BY DEF TypeOK, StatusCells, RecordStopError
<1>2. TypeOK'
  BY <1>1 DEF TypeOK, TaskStates
<1>3. FreshIds' /\ SeenIsHeld'
  BY DEF TypeOK, FreshIds, SeenIsHeld
<1>4. EntryIsLive'
  BY DEF TypeOK, EntryIsLive
<1>5. StopHookOnce'
  BY DEF TypeOK, StopHookOnce, Cancelled
<1>6. StatusAgrees'
  BY DEF TypeOK, StatusAgrees, RecordStopError
<1> QED
  BY <1>2, <1>3, <1>4, <1>5, <1>6

-----------------------------------------------------------------------------
(* Every step preserves the invariant. *)
LEMMA NextInv == Inv /\ [Next]_vars => Inv'
<1> SUFFICES ASSUME Inv, [Next]_vars PROVE Inv'
  OBVIOUS
<1>1. CASE \E n \in Names, r \in RequestedSpecs : Update(n, r)
  BY <1>1, ReplaceInv, CreateInv DEF Update
<1>2. CASE \E n \in Names : Remove(n)
  BY <1>2, RemoveInv
<1>3. CASE RemoveAll
  BY <1>3, RemoveAllInv
<1>4. CASE Drop
  BY <1>4, DropInv
<1>5. CASE \E id \in Ids : StopCancel(id) \/ StopUnregister(id)
  BY <1>5, StopInv
<1>6. CASE \E id \in Ids : Runner(id)
  BY <1>6, StartInv, FinishJobInv, WakeStoppedInv, WakeSpecChangedInv, WakeTimerInv,
     EndTaskInv DEF Runner, Wake
<1>7. CASE UNCHANGED vars
  BY <1>7 DEF vars, Inv, TypeOK, FreshIds, SeenIsHeld, EntryIsLive, StopHookOnce,
              StatusAgrees, Cancelled
<1> QED
  BY <1>1, <1>2, <1>3, <1>4, <1>5, <1>6, <1>7 DEF Next

(* The invariant holds in every reachable state. *)
THEOREM Invariance == Spec => []Inv
BY InitInv, NextInv, PTL DEF Spec

(* The state of the manager and of its tasks is always well typed. *)
THEOREM TypeCorrectness == Spec => []TypeOK
BY Invariance, PTL DEF Inv

(* update never reaches a controller that is being stopped: what the map    *)
(* holds is alive (manager.rs update, remove, stop_entry).                  *)
THEOREM EntriesAreAlive == Spec => []EntryIsLive
BY Invariance, PTL DEF Inv

(* The stop hook is called once per stopped controller, and never before    *)
(* the stop (runner.rs run, run_stop_hook).                                 *)
THEOREM HookIsCalledOnce == Spec => []StopHookOnce
BY Invariance, PTL DEF Inv

(* The status cell and the runner's own count never disagree (status.rs).   *)
THEOREM StatusIsTrue == Spec => []StatusAgrees
BY Invariance, PTL DEF Inv

(* Every run of a job uses the newest spec, whatever woke the runner        *)
(* (runner.rs run, wait).                                                   *)
THEOREM RunsUseNewestSpec == Spec => JobUsesNewestSpec
<1>1. Inv /\ [Next]_vars =>
        [\A id \in Ids :
           task[id] # "running" /\ task'[id] = "running" => held'[id] = channel[id]]_vars
  <2> SUFFICES ASSUME Inv, Next, NEW id \in Ids, task[id] # "running", task'[id] = "running"
               PROVE  held'[id] = channel[id]
    OBVIOUS
  <2> USE DEF Inv, TypeOK
  <2>1. CASE \E n \in Names, r \in RequestedSpecs : Update(n, r)
    BY <2>1 DEF Update, Replace, Create
  <2>2. CASE \E n \in Names : Remove(n)
    BY <2>2 DEF Remove, runnerVars
  <2>3. CASE RemoveAll \/ Drop
    BY <2>3 DEF RemoveAll, Drop, runnerVars
  <2>4. CASE \E i \in Ids : StopCancel(i) \/ StopUnregister(i)
    BY <2>4 DEF StopCancel, StopUnregister, runnerVars
  <2>5. ASSUME NEW i \in Ids, Runner(i) PROVE held'[id] = channel[id]
    <3>1. CASE Start(i)
      BY <3>1 DEF Start
    <3>2. CASE \E result \in {"continue", "done", "error"} : FinishJob(i, result)
      BY <3>2 DEF FinishJob
    <3>3. CASE WakeStopped(i)
      BY <3>3 DEF WakeStopped
    <3>4. CASE WakeSpecChanged(i)
      BY <3>4 DEF WakeSpecChanged
    <3>5. CASE WakeTimer(i)
      BY <3>5 DEF WakeTimer, SeenIsHeld
    <3>6. CASE \E failed \in BOOLEAN : EndTask(i, failed)
      BY <3>6 DEF EndTask
    <3> QED
      BY <2>5, <3>1, <3>2, <3>3, <3>4, <3>5, <3>6 DEF Runner, Wake
  <2> QED
    BY <2>1, <2>2, <2>3, <2>4, <2>5 DEF Next
<1> QED
  BY <1>1, Invariance, PTL DEF Spec, JobUsesNewestSpec

-----------------------------------------------------------------------------
(* The retry delay.                                                         *)

(* A set of naturals has a least one; the inductions below look for the     *)
(* least counterexample.                                                    *)
LEMMA LeastNat ==
    ASSUME NEW T \in SUBSET Nat, T # {}
    PROVE  \E n \in T : \A m \in T : n <= m
<1> DEFINE Less == OpToRel(<, Nat)
<1>1. \A m, n \in Nat : m < n => <<m, n>> \in Less
  BY DEF OpToRel
<1> HIDE DEF Less
<1>2. PICK n \in T : \A m \in T : ~ (<<m, n>> \in Less)
  BY NatLessThanWellFounded, WFMin, Zenon DEF Less
<1>3. \A m \in T : ~ (m < n)
  BY <1>1, <1>2
<1> QED
  BY <1>3

(* The larger of two numbers. *)
LEMMA MaxIs ==
    ASSUME NEW a \in Nat, NEW b \in Nat
    PROVE  Max({a, b}) = IF a >= b THEN a ELSE b
BY DEF Max

(* The smaller of two numbers. *)
LEMMA MinIs ==
    ASSUME NEW a \in Nat, NEW b \in Nat
    PROVE  Min({a, b}) = IF a <= b THEN a ELSE b
BY DEF Min

(* The powers of two up to the n-th. *)
IsPower(power, n) ==
    /\ power \in [0 .. n -> Nat \ {0}]
    /\ power[0] = 1
    /\ \A k \in 1 .. n : power[k] = 2 * power[k - 1]

(* There is such a function for every n. *)
LEMMA PowersExist ==
    ASSUME NEW n \in Nat
    PROVE  \E power : IsPower(power, n)
<1> DEFINE T == {m \in Nat : ~ \E power : IsPower(power, m)}
<1> SUFFICES ASSUME T # {} PROVE FALSE
  OBVIOUS
<1>1. PICK m \in T : \A k \in T : m <= k
  BY LeastNat
<1>2. m # 0
  <2>1. IsPower([k \in 0 .. 0 |-> 1], 0)
    BY DEF IsPower
  <2> QED
    BY <1>1, <2>1
<1>3. m - 1 \in Nat /\ m - 1 \notin T
  BY <1>1, <1>2
<1>4. PICK power : IsPower(power, m - 1)
  BY <1>3
<1> DEFINE longer == [k \in 0 .. m |-> IF k = m THEN 2 * power[m - 1] ELSE power[k]]
<1>5. IsPower(longer, m)
  <2>1. power[m - 1] \in Nat \ {0} /\ 2 * power[m - 1] \in Nat \ {0}
    BY <1>3, <1>4 DEF IsPower
  <2>2. longer \in [0 .. m -> Nat \ {0}]
    BY <1>3, <1>4, <2>1 DEF IsPower
  <2>3. longer[0] = 1
    BY <1>3, <1>4 DEF IsPower
  <2>4. ASSUME NEW k \in 1 .. m PROVE longer[k] = 2 * longer[k - 1]
    <3>1. k - 1 \in 0 .. m /\ k - 1 # m
      OBVIOUS
    <3>2. longer[k - 1] = power[k - 1]
      BY <3>1
    <3>3. CASE k = m
      BY <3>2, <3>3
    <3>4. CASE k # m
      <4>1. k \in 1 .. m - 1 /\ longer[k] = power[k]
        BY <1>3, <3>4
      <4> QED
        BY <1>4, <3>2, <4>1 DEF IsPower
    <3> QED
      BY <3>3, <3>4
  <2> QED
    BY <2>2, <2>3, <2>4 DEF IsPower
<1> QED
  BY <1>1, <1>5

(* The values of the type Backoff: any float may stand in for a factor.     *)
Durations == 0 .. DurationMax
Factors == Int \cup {NotANumber}
Backoffs ==
    {NoBackoff}
    \cup [kind : {"linear"}, base : Durations, max : Durations, jitter : {0}]
    \cup [kind : {"exponential"}, base : Durations, max : Durations, jitter : Factors]

(* The delay after one more turn of the doubling loop. *)
Turn(base, max, delay) ==
    IF delay >= max \/ Min({base, max}) = 0 THEN delay
    ELSE Min({SaturatingMul(delay, 2), max})

(* A turn doubles what the cap hides: base * 2p follows base * p.           *)
LEMMA TurnIs ==
    ASSUME NEW base \in Durations, NEW max \in Durations, NEW p \in Nat,
           p >= 1, NEW d, d = Min({base * p, max})
    PROVE  Min({base * (2 * p), max}) = Turn(base, max, d)
<1>1. DurationMax \in Nat /\ base \in Nat /\ max \in Nat /\ max <= DurationMax
  BY BackoffAssumption DEF BackoffAssumption, Durations
<1>2. PICK x \in Nat : x = base * p /\ x >= base /\ base * (2 * p) = 2 * x
  <2>1. base * (p - 1) >= 0 /\ base * p = base * (p - 1) + base
    BY <1>1
  <2>2. base * p \in Nat /\ base * (2 * p) = 2 * (base * p)
    BY <1>1
  <2> QED
    BY <1>1, <2>1, <2>2
<1>3. base = 0 => x = 0
  BY <1>2
<1>4. d = IF x <= max THEN x ELSE max
  BY <1>1, <1>2, MinIs
<1>5. Min({2 * x, max}) = IF 2 * x <= max THEN 2 * x ELSE max
  BY <1>1, MinIs
<1>6. Min({base, max}) = IF base <= max THEN base ELSE max
  BY <1>1, MinIs
<1>7. d \in Nat /\ d * 2 \in Nat /\ d * 2 = 2 * d
  BY <1>1, <1>4
<1>8. SaturatingMul(d, 2) = IF 2 * d <= DurationMax THEN 2 * d ELSE DurationMax
  BY <1>1, <1>7, MinIs DEF SaturatingMul
<1>9. Min({SaturatingMul(d, 2), max})
        = IF SaturatingMul(d, 2) <= max THEN SaturatingMul(d, 2) ELSE max
  <2>1. SaturatingMul(d, 2) \in Nat
    BY <1>1, <1>7, <1>8
  <2> QED
    BY <1>1, <2>1, MinIs
<1>10. PICK a, b, c, e :
          /\ a = Min({2 * x, max}) /\ b = Min({base, max})
          /\ c = SaturatingMul(d, 2) /\ e = Min({c, max})
  OBVIOUS
<1>11. a = IF d >= max \/ b = 0 THEN d ELSE e
  <2>1. a = IF 2 * x <= max THEN 2 * x ELSE max
    BY <1>5, <1>10, Zenon
  <2>2. b = IF base <= max THEN base ELSE max
    BY <1>6, <1>10, Zenon
  <2>3. c = IF 2 * d <= DurationMax THEN 2 * d ELSE DurationMax
    BY <1>8, <1>10, Zenon
  <2>4. e = IF c <= max THEN c ELSE max
    BY <1>9, <1>10, Zenon
  <2>5. x \in Nat /\ x >= base /\ (base = 0 => x = 0)
    BY <1>2, <1>3, Zenon
  <2> QED
    BY <1>1, <1>4, <1>7, <2>1, <2>2, <2>3, <2>4, <2>5
<1> QED
  BY <1>2, <1>10, <1>11, Zenon DEF Turn

(* The loop with its early exits computes base * 2^turns, capped.           *)
LEMMA DoubledIs ==
    ASSUME NEW base \in Durations, NEW max \in Durations, NEW turns \in Nat,
           NEW power, IsPower(power, turns)
    PROVE  Doubled(base, max, turns) = Min({base * power[turns], max})
<1> DEFINE Eqn(f) == f = [k \in 0 .. turns |->
                            IF k = 0 THEN Min({base, max})
                            ELSE Turn(base, max, f[k - 1])]
           delay == CHOOSE f : Eqn(f)
           closed == [k \in 0 .. turns |-> Min({base * power[k], max})]
<1>1. base \in Nat /\ 0 \in 0 .. turns
  BY BackoffAssumption DEF BackoffAssumption, Durations
<1>3. ASSUME NEW k \in 0 .. turns, k # 0, NEW d, d = Min({base * power[k - 1], max})
      PROVE  Min({base * power[k], max}) = Turn(base, max, d)
  <2>1. k \in 1 .. turns /\ k - 1 \in 0 .. turns
    BY <1>3
  <2>2. power[k - 1] \in Nat /\ power[k - 1] >= 1 /\ power[k] = 2 * power[k - 1]
    BY <2>1 DEF IsPower
  <2> DEFINE p == power[k - 1]
  <2>3. p \in Nat /\ p >= 1 /\ d = Min({base * p, max}) /\ power[k] = 2 * p
    BY <1>3, <2>2
  <2> HIDE DEF p
  <2>4. Min({base * (2 * p), max}) = Turn(base, max, d)
    BY <2>3, TurnIs, Zenon
  <2> QED
    BY <2>3, <2>4, Zenon
<1>4. Min({base * power[0], max}) = Min({base, max})
  <2>1. base * power[0] = base
    BY <1>1 DEF IsPower
  <2> QED
    BY <2>1
<1>5. Eqn(closed)
  <2>1. ASSUME NEW k \in 0 .. turns
        PROVE  Min({base * power[k], max}) =
                 IF k = 0 THEN Min({base, max})
                 ELSE Turn(base, max, closed[k - 1])
    <3>1. CASE k = 0
      BY <1>4, <3>1
    <3>2. CASE k # 0
      <4>1. k - 1 \in 0 .. turns
        BY <3>2
      <4>2. closed[k - 1] = Min({base * power[k - 1], max})
        BY <4>1, Zenon
      <4> HIDE DEF closed
      <4> QED
        BY <1>3, <3>2, <4>2, Zenon
    <3> QED
      BY <3>1, <3>2
  <2> QED
    BY <2>1, Zenon
<1>6. Eqn(delay)
  BY <1>5, Zenon
<1>7. Doubled(base, max, turns) = delay[turns]
  BY DEF Doubled, Turn
<1> HIDE DEF delay
<1>8. ASSUME NEW k \in 0 .. turns
      PROVE  delay[k] = IF k = 0 THEN Min({base, max})
                        ELSE Turn(base, max, delay[k - 1])
  BY <1>6, Zenon
<1> DEFINE Wrong == {k \in Nat : k <= turns /\ delay[k] # Min({base * power[k], max})}
<1>9. Wrong = {}
  <2> SUFFICES ASSUME Wrong # {} PROVE FALSE
    OBVIOUS
  <2>1. PICK k \in Wrong : \A j \in Wrong : k <= j
    <3> HIDE DEF Wrong
    <3>1. Wrong \subseteq Nat
      BY DEF Wrong
    <3> QED
      BY <3>1, LeastNat
  <2>2. k \in 0 .. turns /\ delay[k] # Min({base * power[k], max})
    BY <2>1
  <2>3. k # 0
    BY <1>4, <1>8, <2>2, Zenon
  <2>4. k - 1 \in Nat /\ k - 1 <= turns /\ k - 1 \notin Wrong
    BY <2>1, <2>2, <2>3
  <2>5. delay[k - 1] = Min({base * power[k - 1], max})
    BY <2>4
  <2> HIDE DEF Wrong
  <2> QED
    BY <1>3, <1>8, <2>2, <2>3, <2>5, Zenon
<1> QED
  BY <1>7, <1>9

(* The delay before the next attempt is the closed form of Backoff's doc,   *)
(* base * n or base * 2^(n - 1) capped at max: neither the early exits of   *)
(* the loop nor the saturating multiplication show (backoff.rs delay).      *)
THEOREM DelayIs ==
    ASSUME NEW backoff \in Backoffs, NEW failures \in Nat,
           NEW power, IsPower(power, Max({failures, 1}) - 1)
    PROVE  IsClosedForm(backoff, failures, power)
<1> DEFINE n == Max({failures, 1})
<1>1. n \in Nat /\ n >= 1 /\ n - 1 \in Nat /\ IsPower(power, n - 1)
  BY MaxIs
<1> HIDE DEF n
<1>2. CASE backoff = NoBackoff
  BY <1>2 DEF IsClosedForm, Delay, NoBackoff
<1>3. CASE backoff \in [kind : {"linear"}, base : Durations, max : Durations, jitter : {0}]
  <2>1. /\ backoff.base \in Nat /\ backoff.max \in Nat
        /\ backoff.max <= DurationMax /\ DurationMax \in Nat
    BY <1>3, BackoffAssumption DEF BackoffAssumption, Durations
  <2>2. PICK x \in Nat : x = backoff.base * n
    BY <1>1, <2>1
  <2>3. SaturatingMul(backoff.base, n) = IF x <= DurationMax THEN x ELSE DurationMax
    BY <2>1, <2>2, MinIs DEF SaturatingMul
  <2>4. Min({SaturatingMul(backoff.base, n), backoff.max}) = Min({x, backoff.max})
    <3>1. SaturatingMul(backoff.base, n) \in Nat
      BY <2>1, <2>3
    <3>2. Min({SaturatingMul(backoff.base, n), backoff.max})
            = IF SaturatingMul(backoff.base, n) <= backoff.max
              THEN SaturatingMul(backoff.base, n) ELSE backoff.max
      BY <2>1, <3>1, MinIs
    <3>3. Min({x, backoff.max}) = IF x <= backoff.max THEN x ELSE backoff.max
      BY <2>1, MinIs
    <3> QED
      BY <2>1, <2>3, <3>2, <3>3
  <2>5. backoff.kind = "linear"
    BY <1>3
  <2> QED
    BY <2>2, <2>4, <2>5 DEF IsClosedForm, Delay, n
<1>4. CASE backoff \in [kind : {"exponential"}, base : Durations, max : Durations,
                        jitter : Factors]
  <2>1. backoff.kind = "exponential" /\ backoff.base \in Durations /\ backoff.max \in Durations
    BY <1>4
  <2>2. Doubled(backoff.base, backoff.max, n - 1)
          = Min({backoff.base * power[n - 1], backoff.max})
    BY <1>1, <2>1, DoubledIs
  <2> QED
    BY <2>1, <2>2 DEF IsClosedForm, Delay, n
<1> QED
  BY <1>2, <1>3, <1>4 DEF Backoffs
(* The clamp maps NaN to 0 and leaves a fraction as it is (unit).           *)
LEMMA UnitIs ==
    ASSUME NEW x \in Factors
    PROVE  /\ Unit(x) \in 0 .. JitterUnit
           /\ x \in 0 .. JitterUnit => Unit(x) = x
<1>1. JitterUnit \in Nat /\ JitterUnit >= 1 /\ NotANumber \notin 0 .. JitterUnit
  BY BackoffAssumption DEF BackoffAssumption
<1>2. CASE x = NotANumber
  BY <1>1, <1>2 DEF Unit
<1>3. CASE x # NotANumber /\ x >= JitterUnit
  <2>1. x \in Int
    BY <1>3 DEF Factors
  <2>2. Min({x, JitterUnit}) = JitterUnit
    BY <1>1, <1>3, <2>1, MinIs
  <2>3. Max({0, JitterUnit}) = JitterUnit
    BY <1>1, MaxIs
  <2> QED
    BY <1>1, <1>3, <2>1, <2>2, <2>3 DEF Unit
<1>4. CASE x # NotANumber /\ x < JitterUnit
  <2>1. x \in Int
    BY <1>4 DEF Factors
  <2>2. Min({x, JitterUnit}) = x
    BY <1>1, <1>4, <2>1 DEF Min
  <2>3. Max({0, x}) = IF x >= 0 THEN x ELSE 0
    BY <2>1 DEF Max
  <2> QED
    BY <1>1, <1>4, <2>1, <2>2, <2>3 DEF Unit
<1> QED
  BY <1>1, <1>2, <1>3, <1>4 DEF Factors

(* Division with remainder. *)
LEMMA QuotientIs ==
    ASSUME NEW n \in Nat, NEW s \in Nat \ {0}, NEW j, j = n \div s
    PROVE  j \in Int /\ n = (j * s) + (n % s) /\ (n % s) \in 0 .. s - 1
OBVIOUS

(* An outcome j of a delay d that is cut by no more than a of u parts.       *)
IsCut(u, d, a, j) ==
    /\ j \in Nat
    /\ j < d + Slack(d)
    /\ a = 0 => d < j + Slack(d)
    /\ d * (u - a) < (j + Slack(d)) * u

(* The floats keep a delay up to FloatMax to the unit.                       *)
LEMMA SlackIs ==
    ASSUME NEW d \in Durations
    PROVE  /\ Slack(d) \in Nat /\ Slack(d) >= 1
           /\ d <= FloatMax => Slack(d) = 1
<1> DEFINE f == FloatMax + 1
           q == d \div f
<1>1. d \in Nat /\ f \in Nat \ {0} /\ FloatMax \in Nat
  BY BackoffAssumption DEF BackoffAssumption, Durations
<1>2. q \in Int /\ d = (q * f) + (d % f) /\ (d % f) \in 0 .. f - 1
  <2>1. q = d \div f
    OBVIOUS
  <2> HIDE DEF q, f
  <2> QED
    BY <1>1, <2>1, QuotientIs, Zenon
<1>3. Slack(d) = 1 + q
  BY DEF Slack
<1> HIDE DEF q, f
<1>4. q >= 0
  <2> SUFFICES ASSUME q <= -1 PROVE FALSE
    BY <1>2
  <2>1. (-1 - q) * f >= 0 /\ (-1 - q) * f = -f - q * f
    BY <1>1, <1>2
  <2> QED
    BY <1>1, <1>2, <2>1
<1>5. d <= FloatMax => q <= 0
  <2> SUFFICES ASSUME d <= FloatMax, q >= 1 PROVE FALSE
    BY <1>2
  <2>1. (q - 1) * f >= 0 /\ (q - 1) * f = q * f - f
    BY <1>1, <1>2
  <2>2. d < f
    BY <1>1 DEF f
  <2> QED
    BY <1>1, <1>2, <2>1, <2>2
<1> QED
  BY <1>2, <1>3, <1>4, <1>5

(* Cutting d by a fraction of a parts: there is an outcome, and every one   *)
(* is cut by no more, but for the rounding.                                  *)
LEMMA CutIs ==
    ASSUME NEW u \in Nat \ {0}, NEW d \in Durations, NEW a \in 0 .. u, NEW r \in 0 .. u
    PROVE  /\ Scaled(d, u * u - a * r, u * u) # {}
           /\ \A j \in Scaled(d, u * u - a * r, u * u) : IsCut(u, d, a, j)
<1> DEFINE s == u * u
           c == a * r
           n == d * (s - c)
           k == Slack(d)
           q == n \div s
<1>0. d \in Nat /\ d <= DurationMax /\ DurationMax \in Nat /\ k \in Nat /\ k >= 1
  BY SlackIs, BackoffAssumption DEF BackoffAssumption, Durations
<1>1. s \in Nat /\ s >= 1 /\ s = u * u
  <2>1. (u - 1) * (u + 1) >= 0 /\ u * u = (u - 1) * (u + 1) + 1
    OBVIOUS
  <2> QED
    BY <2>1
<1>2. c \in Nat /\ c <= a * u /\ a * u <= s /\ (a = 0 => c = 0)
  <2>1. a * (u - r) >= 0 /\ a * (u - r) = a * u - a * r
    OBVIOUS
  <2>2. (u - a) * u >= 0 /\ (u - a) * u = u * u - a * u
    OBVIOUS
  <2>3. a * r \in Nat /\ (a = 0 => a * r = 0)
    OBVIOUS
  <2> QED
    BY <2>1, <2>2, <2>3
<1>3. n \in Nat /\ n = d * s - d * c /\ d * c \in Nat /\ d * s \in Nat /\ (c = 0 => n = d * s)
  BY <1>0, <1>1, <1>2
<1>4. d * c <= d * (a * u)
  BY <1>0, <1>1, <1>2
<1>5. Scaled(d, u * u - a * r, u * u) =
        {j \in 0 .. Panic : /\ j * s < n + k * s
                            /\ j = Panic \/ (j + k) * s > n}
  <2>1. ~(d * (u * u - a * r) < 0)
    BY <1>3
  <2> QED
    BY <2>1 DEF Scaled
<1>6. q = n \div s
  OBVIOUS
<1>11. \A j : (j \in Nat /\ j < d + k /\ (a = 0 => d < j + k) /\ d * (u - a) < (j + k) * u)
                 => IsCut(u, d, a, j)
  BY DEF IsCut
<1> HIDE DEF q, n, s, c, k
<1>7. q \in Int /\ n = (q * s) + (n % s) /\ (n % s) \in 0 .. s - 1
  <2>1. n \in Nat /\ s \in Nat \ {0}
    BY <1>1, <1>3
  <2> QED
    BY <1>6, <2>1, QuotientIs, Zenon
<1>8. q \in 0 .. d
  <2>1. q >= 0
    <3> SUFFICES ASSUME q <= -1 PROVE FALSE
      BY <1>7
    <3>1. (-1 - q) * s >= 0 /\ (-1 - q) * s = -s - q * s
      BY <1>1, <1>7
    <3> QED
      BY <1>1, <1>3, <1>7, <3>1
  <2>2. q <= d
    <3> SUFFICES ASSUME q >= d + 1 PROVE FALSE
      BY <1>0, <1>7
    <3>1. (q - (d + 1)) * s >= 0 /\ (q - (d + 1)) * s = q * s - d * s - s
      BY <1>0, <1>1, <1>7
    <3> QED
      BY <1>0, <1>1, <1>3, <1>7, <3>1
  <2> QED
    BY <1>7, <2>1, <2>2
<1>9. q \in Scaled(d, u * u - a * r, u * u)
  <2>1. (k - 1) * s >= 0 /\ (k - 1) * s = k * s - s
    BY <1>0, <1>1
  <2>2. q * s < n + k * s
    BY <1>0, <1>1, <1>3, <1>7, <2>1
  <2>3. (q + k) * s = q * s + k * s
    BY <1>0, <1>1, <1>7
  <2>4. (q + k) * s > n
    BY <1>0, <1>1, <1>3, <1>7, <2>1, <2>3
  <2>5. q \in 0 .. Panic
    BY <1>0, <1>8 DEF Panic
  <2> QED
    BY <1>5, <2>2, <2>4, <2>5
<1>10. ASSUME NEW j \in 0 .. Panic, j * s < n + k * s, j = Panic \/ (j + k) * s > n
       PROVE  IsCut(u, d, a, j)
  <2>1. j \in Nat
    BY <1>0 DEF Panic
  <2>2. j < d + k
    <3> SUFFICES ASSUME j >= d + k PROVE FALSE
      BY <1>0, <2>1
    <3>1. (j - (d + k)) * s >= 0 /\ (j - (d + k)) * s = j * s - d * s - k * s
      BY <1>0, <1>1, <2>1
    <3> QED
      BY <1>0, <1>1, <1>3, <1>10, <2>1, <3>1
  <2>3. CASE j = Panic
    <3>1. d < j + k
      BY <1>0, <2>1, <2>3 DEF Panic
    <3>2. (j + k - d - 1) * u >= 0 /\ (j + k - d - 1) * u = (j + k) * u - d * u - u
      BY <1>0, <2>1, <3>1
    <3>3. d * a >= 0 /\ d * (u - a) = d * u - d * a
      BY <1>0
    <3>4. d * (u - a) < (j + k) * u
      BY <1>0, <2>1, <3>2, <3>3
    <3> QED
      BY <1>11, <2>1, <2>2, <3>1, <3>4
  <2>4. CASE (j + k) * s > n
    <3>1. a = 0 => d < j + k
      <4> SUFFICES ASSUME a = 0, j + k <= d PROVE FALSE
        BY <1>0, <2>1
      <4>1. (d - (j + k)) * s >= 0 /\ (d - (j + k)) * s = d * s - (j + k) * s
        BY <1>0, <1>1, <2>1
      <4>2. n = d * s
        BY <1>2, <1>3
      <4> QED
        BY <1>0, <1>1, <1>3, <2>1, <2>4, <4>1, <4>2
    <3>2. d * (u - a) < (j + k) * u
      <4> SUFFICES ASSUME (j + k) * u <= d * (u - a) PROVE FALSE
        BY <1>0, <2>1
      <4>1. (d * (u - a) - (j + k) * u) * u >= 0
        BY <1>0, <2>1
      <4>2. (d * (u - a) - (j + k) * u) * u = d * (u * u) - d * (a * u) - (j + k) * (u * u)
        BY <1>0, <2>1
      <4>3. d * s - d * (a * u) - (j + k) * s >= 0
        BY <1>1, <4>1, <4>2
      <4> QED
        BY <1>0, <1>1, <1>3, <1>4, <2>1, <2>4, <4>3
    <3> QED
      BY <1>11, <2>1, <2>2, <3>1, <3>2
  <2> QED
    BY <1>10, <2>3, <2>4
<1> QED
  BY <1>5, <1>9, <1>10

(* Whatever the sample and the jitter factor, out of range or NaN, the      *)
(* delay that is waited lies between (1 - jitter) * delay and delay, but    *)
(* for the rounding; up to FloatMax it is at most the delay, and only a     *)
(* delay within a rounding of DurationMax can end in a panic (backoff.rs    *)
(* jittered).                                                               *)
THEOREM JitterShortens ==
    ASSUME NEW backoff \in Backoffs, NEW failures \in Nat, NEW r \in Factors
    PROVE  OnlyShortens(backoff, failures, r)
<1> DEFINE jitter == IF backoff.kind = "exponential" THEN Unit(backoff.jitter) ELSE 0
           u == JitterUnit
           delay == Delay(backoff, failures)
           jittered == Jittered(backoff, failures, r)
<1>1. u \in Nat \ {0} /\ Unit(r) \in 0 .. u
  BY UnitIs, BackoffAssumption DEF BackoffAssumption
<1>2. jitter \in 0 .. u
  BY <1>1, UnitIs DEF Backoffs, NoBackoff
<1>3. jittered = UNION {Scaled(d, u * u - jitter * Unit(r), u * u) : d \in delay}
  BY DEF Jittered
<1>4. delay \in SUBSET Durations /\ \A d, e \in delay : d = e
  <2> DEFINE n == Max({failures, 1})
  <2>1. n \in Nat /\ n >= 1 /\ n - 1 \in Nat
    BY MaxIs
  <2>2. PICK power : IsPower(power, n - 1)
    BY <2>1, PowersExist
  <2> HIDE DEF n
  <2>3. IsClosedForm(backoff, failures, power)
    BY <2>2, DelayIs DEF n
  <2>4. CASE backoff = NoBackoff
    BY <2>4 DEF Delay, NoBackoff
  <2>5. CASE backoff \in [kind : {"linear"}, base : Durations, max : Durations, jitter : {0}]
    <3>1. backoff.kind = "linear" /\ backoff.base * n \in Nat /\ backoff.max \in Nat
      BY <2>1, <2>5, BackoffAssumption DEF BackoffAssumption, Durations
    <3>2. Min({backoff.base * n, backoff.max}) \in Durations
      BY <2>5, <3>1, MinIs, BackoffAssumption DEF BackoffAssumption, Durations
    <3>3. delay = {Min({backoff.base * n, backoff.max})}
      BY <2>3, <3>1 DEF IsClosedForm, n
    <3> QED
      BY <3>2, <3>3
  <2>6. CASE backoff \in [kind : {"exponential"}, base : Durations, max : Durations,
                          jitter : Factors]
    <3>1. power[n - 1] \in Nat
      BY <2>1, <2>2 DEF IsPower
    <3>2. backoff.base \in Nat /\ backoff.max \in Nat /\ backoff.kind = "exponential"
      BY <2>6, BackoffAssumption DEF BackoffAssumption, Durations
    <3>3. backoff.base * power[n - 1] \in Nat
      BY <3>1, <3>2
    <3>4. Min({backoff.base * power[n - 1], backoff.max}) \in Durations
      BY <2>6, <3>2, <3>3, MinIs, BackoffAssumption DEF BackoffAssumption, Durations
    <3>5. delay = {Min({backoff.base * power[n - 1], backoff.max})}
      BY <2>3, <3>2 DEF IsClosedForm, n
    <3> QED
      BY <3>4, <3>5
  <2> QED
    BY <2>4, <2>5, <2>6 DEF Backoffs
<1>5. backoff.kind = "linear" => jitter = 0
  OBVIOUS
<1>6. backoff.kind = "exponential" /\ backoff.jitter \in 0 .. u => jitter = backoff.jitter
  <2> SUFFICES ASSUME backoff.kind = "exponential", backoff.jitter \in 0 .. u
               PROVE  Unit(backoff.jitter) = backoff.jitter
    OBVIOUS
  <2>1. backoff.jitter \in Factors
    BY <1>1 DEF Factors
  <2> QED
    BY <2>1, UnitIs
<1> HIDE DEF jitter, u, delay, jittered
<1>7. jittered = {} <=> delay = {}
  <2>1. \A d \in delay : Scaled(d, u * u - jitter * Unit(r), u * u) # {}
    BY <1>1, <1>2, <1>4, CutIs
  <2> QED
    BY <1>3, <2>1
<1>8. ASSUME NEW d \in delay, NEW j \in jittered
      PROVE  IsCut(u, d, jitter, j)
  <2>1. PICK e \in delay : j \in Scaled(e, u * u - jitter * Unit(r), u * u)
    BY <1>3
  <2>2. d = e /\ d \in Durations
    BY <1>4
  <2>3. \A i \in Scaled(d, u * u - jitter * Unit(r), u * u) : IsCut(u, d, jitter, i)
    BY <1>1, <1>2, <2>2, CutIs
  <2> QED
    BY <2>1, <2>2, <2>3
<1>9. ASSUME NEW d \in delay, NEW j \in jittered, d <= FloatMax
      PROVE  j \in 0 .. d
  <2>1. d \in Nat /\ Slack(d) = 1
    BY <1>4, <1>9, SlackIs, BackoffAssumption DEF BackoffAssumption, Durations
  <2> QED
    BY <1>8, <2>1 DEF IsCut
<1> QED
  BY <1>5, <1>6, <1>7, <1>8, <1>9 DEF OnlyShortens, IsCut, delay, jittered, u
=============================================================================
