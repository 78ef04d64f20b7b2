------------------------------- MODULE StateDir -------------------------------
(***************************************************************************)
(* The state directories of one endpoint id on disk (sarena-data-plane,    *)
(* endpoint/directory.rs, regenerate.rs, persist.rs): what a regeneration  *)
(* writes, moves and removes, and what a restart makes of it.              *)
(*                                                                         *)
(* Every operation that changes a file is a step of its own, before which  *)
(* the process may crash; removing a directory is two operations (its      *)
(* state file goes before the directory does).  A restart lists and reads  *)
(* the directories in one step, since that changes none.  Every operation  *)
(* may fail, those of a restart too.  A directory holds the number of the  *)
(* endpoint whose state it has, Empty if it has no complete state file, or *)
(* Absent.  The state of an endpoint never changes, but ids are reused: a  *)
(* deleted endpoint's directories stay (remove_directories has no caller), *)
(* and the next endpoint with the id finds them.                           *)
(***************************************************************************)
EXTENDS Integers, Sequences, FiniteSets

CONSTANTS
    MaxEndpoints,   \* bound: endpoints that use the id, one after the other
    MaxFaults,      \* bound: file operations that fail
    MaxCrashes      \* bound: crashes

ASSUME StateDirAssumption ==
    /\ MaxEndpoints \in Nat \ {0}
    /\ MaxFaults \in Nat
    /\ MaxCrashes \in Nat

(* DirKind, in the order of preference. *)
Order == <<"current", "next", "backup", "failed">>
Kinds == {Order[i] : i \in 1 .. Len(Order)}

Absent == -1
Empty == 0
Endpoints == 1 .. MaxEndpoints
NoState == 0

VARIABLES
    disk,       \* per kind of directory: what it holds
    pc,         \* the next step of the worker, of the restore, or "idle"
    owner,      \* the endpoint that has the id
    committed,  \* a regeneration of it has moved its state to `current`
    hadCurrent, \* synchronize_directories: there was a directory to roll back to
    rolledBack, \* FALSE after a rollback that failed (history)
    listed,     \* read_endpoints: the directories it is still to remove
    taken,      \* the state the last restore took (history)
    missed,     \* why restores passed over a state they prefer (history)
    faults,     \* file operations that failed
    crashes     \* crashes so far

restoreVars == <<listed, taken, missed>>
vars == <<disk, pc, owner, committed, hadCurrent, rolledBack, restoreVars, faults, crashes>>

-----------------------------------------------------------------------------
(* The order of the kinds, and the first ones of a set of kinds. *)

Before(j, k) == \E a, b \in 1 .. Len(Order) : a < b /\ Order[a] = j /\ Order[b] = k

FirstOf(S) == {k \in S : \A j \in S : ~Before(j, k)}

(* read_endpoint_dir: the directories that have a complete state file. *)
Holding(d) == {k \in Kinds : d[k] \in Endpoints}

(* What read_endpoints takes when it can list and read every directory. *)
Restored(d) == IF Holding(d) = {} THEN NoState ELSE d[CHOOSE k \in FirstOf(Holding(d)) : TRUE]

-----------------------------------------------------------------------------
Init ==
    /\ disk = [k \in Kinds |-> Absent]
    /\ pc = "idle"
    /\ owner = 1
    /\ committed = FALSE
    /\ hadCurrent = FALSE
    /\ rolledBack = TRUE
    /\ listed = {}
    /\ taken = NoState
    /\ missed = {}
    /\ faults = 0
    /\ crashes = 0

(* The endpoint is deleted and another one gets its id. *)
NewEndpoint ==
    /\ pc \in {"idle", "restored"}
    /\ owner < MaxEndpoints
    /\ owner' = owner + 1
    /\ committed' = FALSE
    /\ rolledBack' = TRUE
    /\ taken' = NoState
    /\ missed' = {}
    /\ pc' = "idle"
    /\ UNCHANGED <<disk, hadCurrent, listed, faults, crashes>>

-----------------------------------------------------------------------------
(* File operations.  `here` is the step, `next` the one that follows. *)

Rest == <<owner, committed, hadCurrent, rolledBack, restoreVars, crashes>>

(* remove_dir_if_exists: a directory with a state file is emptied first. *)
RemoveDir(here, kind, next) ==
    /\ pc = here
    /\ IF disk[kind] \in Endpoints
       THEN disk' = [disk EXCEPT ![kind] = Empty] /\ UNCHANGED pc
       ELSE disk' = [disk EXCEPT ![kind] = Absent] /\ pc' = next
    /\ UNCHANGED <<faults, Rest>>

(* A file operation of step `here` fails, and the code goes on with `next`. *)
Fault(here, next) ==
    /\ pc = here
    /\ faults < MaxFaults
    /\ faults' = faults + 1
    /\ pc' = next
    /\ UNCHANGED <<disk, Rest>>

Rename(here, from, to, next) ==
    /\ pc = here
    /\ disk[from] # Absent
    /\ disk' = [disk EXCEPT ![to] = disk[from], ![from] = Absent]
    /\ pc' = next
    /\ UNCHANGED <<faults, Rest>>

-----------------------------------------------------------------------------
(* regenerate. *)

Regenerate ==
    /\ pc = "idle"
    /\ pc' = "removeNext"
    /\ UNCHANGED <<disk, faults, Rest>>

(* The directory is created and its permissions are set, which may fail. *)
CreateNext ==
    /\ pc = "createNext"
    /\ disk' = [disk EXCEPT !["next"] = Empty]
    /\ \/ pc' = "writeState" /\ UNCHANGED faults
       \/ pc' = "idle" /\ faults < MaxFaults /\ faults' = faults + 1
    /\ UNCHANGED Rest

(* Faulty variant: an error of the write is not propagated. *)
WriteStateUnchecked ==
    /\ pc = "writeState"
    /\ \/ disk' = [disk EXCEPT !["next"] = owner] /\ UNCHANGED faults
       \/ faults < MaxFaults /\ faults' = faults + 1 /\ UNCHANGED disk
    /\ pc' = "load"
    /\ UNCHANGED Rest

(* write_state: the file appears by a rename, complete; an error, also one   *)
(* of the sync after the rename, makes the regeneration fail.                *)
WriteState ==
    /\ pc = "writeState"
    /\ disk' = [disk EXCEPT !["next"] = owner]
    /\ \/ pc' = "load" /\ UNCHANGED faults
       \/ pc' = "removeFailed" /\ faults < MaxFaults /\ faults' = faults + 1
    /\ UNCHANGED Rest

(* The loader's answer. *)
Load ==
    /\ pc = "load"
    /\ pc' \in {"removeBackup", "removeFailed"}
    /\ UNCHANGED <<disk, faults, Rest>>

(* Faulty variant: a successful rename is not noted for the rollback. *)
BackUpNotNoted ==
    /\ pc = "backUp"
    /\ hadCurrent' = FALSE
    /\ disk' = IF disk["current"] # Absent
               THEN [disk EXCEPT !["backup"] = disk["current"], !["current"] = Absent]
               ELSE disk
    /\ pc' = "promote"
    /\ UNCHANGED <<faults, owner, committed, rolledBack, restoreVars, crashes>>

(* synchronize_directories: the current directory, if there is one, becomes *)
(* the backup ...                                                           *)
BackUp ==
    /\ pc = "backUp"
    /\ hadCurrent' = (disk["current"] # Absent)
    /\ disk' = IF hadCurrent'
               THEN [disk EXCEPT !["backup"] = disk["current"], !["current"] = Absent]
               ELSE disk
    /\ pc' = "promote"
    /\ UNCHANGED <<faults, owner, committed, rolledBack, restoreVars, crashes>>

(* ... and the next one the current one: the new state is committed. *)
Promote ==
    /\ pc = "promote"
    /\ disk["next"] # Absent
    /\ disk' = [disk EXCEPT !["current"] = disk["next"], !["next"] = Absent]
    /\ pc' = "cleanBackup"
    /\ committed' = TRUE
    /\ UNCHANGED <<faults, owner, hadCurrent, rolledBack, restoreVars, crashes>>

(* The rename failed: back to the old state, if there was one. *)
PromoteFails == Fault("promote", IF hadCurrent THEN "rollBack" ELSE "idle")

RollBackFails ==
    /\ pc = "rollBack"
    /\ faults < MaxFaults
    /\ faults' = faults + 1
    /\ rolledBack' = FALSE
    /\ pc' = "idle"
    /\ UNCHANGED <<disk, owner, committed, hadCurrent, restoreVars, crashes>>

Synchronize ==
    \/ RemoveDir("removeBackup", "backup", "backUp")
    \/ Fault("removeBackup", "idle")
    \/ BackUp
    \/ Fault("backUp", "idle")
    \/ Promote
    \/ PromoteFails
    \/ Rename("rollBack", "backup", "current", "idle")
    \/ RollBackFails
    \/ RemoveDir("cleanBackup", "backup", "cleanNext")
    \/ Fault("cleanBackup", "cleanNext")

Worker ==
    \/ Regenerate
    \/ RemoveDir("removeNext", "next", "createNext")
    \/ Fault("removeNext", "idle")
    \/ CreateNext
    \/ Fault("createNext", "idle")
    \/ WriteState
    \/ Fault("writeState", "removeFailed")
    \/ Load
    \/ Synchronize
    \/ RemoveDir("removeFailed", "failed", "keepFailed")
    \/ Fault("removeFailed", "idle")
    \/ Rename("keepFailed", "next", "failed", "cleanNext")
    \/ Fault("keepFailed", "idle")
    \/ RemoveDir("cleanNext", "next", "idle")
    \/ Fault("cleanNext", "idle")

-----------------------------------------------------------------------------
(* The process crashes or is restarted at any point, also while it restores. *)
Crash ==
    /\ crashes < MaxCrashes
    /\ crashes' = crashes + 1
    /\ pc' = "restore"
    /\ listed' = {}
    /\ UNCHANGED <<disk, faults, owner, committed, hadCurrent, rolledBack, taken, missed>>

(* A failure leaves out or fails to read a state that comes before what is   *)
(* taken instead.                                                            *)
PassesOver(S, pick) == \E j \in S \cap Holding(disk), k \in pick : Before(j, k)

(* read_endpoints: of the directories the listing returns (collect_endpoint_ *)
(* dirs drops an entry that fails) the first whose state can be read is      *)
(* taken, and the other listed ones are to be removed.  Without one nothing  *)
(* is.                                                                       *)
RestoreChoose(entries, unread) ==
    LET dropped == {k \in Kinds \ entries : disk[k] # Absent}
        pick    == FirstOf((entries \cap Holding(disk)) \ unread)
    IN  /\ pc = "restore"
        /\ \A k \in entries : disk[k] # Absent
        /\ unread \subseteq Holding(disk)
        /\ \A j \in unread, k \in pick : Before(j, k)
        /\ faults' = faults + Cardinality(dropped) + Cardinality(unread)
        /\ faults' <= MaxFaults
        /\ listed' = IF pick = {} THEN {} ELSE entries \ pick
        /\ taken' = IF pick = {} THEN taken ELSE disk[CHOOSE k \in pick : TRUE]
        /\ missed' = missed \cup {why \in {"entry", "read"} :
                           PassesOver(IF why = "entry" THEN dropped ELSE unread, pick)}
        /\ pc' = IF pick = {} THEN "restored" ELSE "cleanup"
    /\ UNCHANGED <<disk, owner, committed, hadCurrent, rolledBack, crashes>>

(* Faulty variant: the directory that was chosen is removed, not the others. *)
RestoreRemoveChosen(kind) ==
    /\ pc = "cleanup"
    /\ kind \in Kinds \ listed
    /\ disk' = [disk EXCEPT ![kind] = Absent]
    /\ UNCHANGED <<pc, faults, Rest>>

(* read_endpoints, its cleanup: the listed directories that were not chosen  *)
(* go one after the other ...                                                *)
RestoreRemove(kind) ==
    /\ pc = "cleanup"
    /\ kind \in FirstOf(listed)
    /\ disk' = [disk EXCEPT ![kind] = IF @ \in Endpoints THEN Empty ELSE Absent]
    /\ listed' = IF disk[kind] \in Endpoints THEN listed ELSE listed \ {kind}
    /\ UNCHANGED <<pc, owner, committed, hadCurrent, rolledBack, taken, missed, faults, crashes>>

(* ... and a failure to remove one is only logged. *)
RestoreRemoveFails(kind) ==
    /\ pc = "cleanup"
    /\ kind \in FirstOf(listed)
    /\ faults < MaxFaults
    /\ faults' = faults + 1
    /\ listed' = listed \ {kind}
    /\ UNCHANGED <<disk, pc, owner, committed, hadCurrent, rolledBack, taken, missed, crashes>>

RestoreDone ==
    /\ pc = "cleanup"
    /\ listed = {}
    /\ pc' = "restored"
    /\ UNCHANGED <<disk, faults, Rest>>

(* Fault("restore", "restore"): the state directory cannot be listed, so the *)
(* start fails, and the process is started again.                            *)
Restore ==
    \/ Fault("restore", "restore")
    \/ \E entries, unread \in SUBSET Kinds :
          unread \subseteq entries /\ RestoreChoose(entries, unread)
    \/ \E kind \in Kinds : RestoreRemove(kind) \/ RestoreRemoveFails(kind)
    \/ RestoreDone

-----------------------------------------------------------------------------
Next ==
    \/ NewEndpoint
    \/ Worker
    \/ Crash
    \/ Restore

Spec == Init /\ [][Next]_vars

-----------------------------------------------------------------------------
(* Properties. *)

(* The variables have their types.  `current` is made by a rename of a       *)
(* directory whose state is complete, and only a restore that could not read *)
(* it removes it, so otherwise it is not there without its state             *)
(* (DirKind::Current, "the committed state").                                *)
TypeOK ==
    /\ disk \in [Kinds -> {Absent, Empty} \cup Endpoints]
    /\ committed /\ "read" \notin missed => disk["current"] # Empty
    /\ owner \in Endpoints
    /\ committed \in BOOLEAN
    /\ hadCurrent \in BOOLEAN
    /\ rolledBack \in BOOLEAN
    /\ listed \in SUBSET Kinds
    /\ taken \in Endpoints \cup {NoState}
    /\ missed \in SUBSET {"entry", "read"}
    /\ faults \in 0 .. MaxFaults
    /\ crashes \in 0 .. MaxCrashes

(* An endpoint whose state was committed is on disk, where a restart looks   *)
(* first, after a crash at any point, in the middle of a later regeneration  *)
(* or of a restore too, though MaxFaults file operations failed before.  One *)
(* failure is excepted: a restore that cannot read an intact directory takes *)
(* another one and removes it (read_endpoints).                              *)
CommittedSurvives == committed /\ "read" \notin missed => Restored(disk) = owner

(* Restores converge: however often one is interrupted, whichever removals   *)
(* fail and however often the process starts again, the next one takes what  *)
(* the last one took, unless the listing or the reading of a state they      *)
(* prefer failed in one of them (read_endpoints).                            *)
RestoreIsStable == taken # NoState /\ missed = {} => Restored(disk) = taken

(* "The previous state now only lives in the backup directory;              *)
(* read_endpoints() falls back to it on restart" (synchronize_directories). *)
FallsBackToBackup ==
    ~rolledBack /\ pc = "idle" /\ disk["backup"] \in Endpoints =>
        Restored(disk) = disk["backup"]
=============================================================================
