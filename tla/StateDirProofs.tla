--------------------------- MODULE StateDirProofs ---------------------------
(***************************************************************************)
(* Proofs about the state directories of an endpoint id, for any number of *)
(* endpoints that use the id, of failing file operations and of crashes.   *)
(***************************************************************************)
EXTENDS StateDir, FiniteSetTheorems, TLAPS

Contents == {Absent, Empty} \cup Endpoints

(* The steps of the worker and of the restore. *)
WorkerSteps ==
    {"idle", "removeNext", "createNext", "writeState", "load", "removeBackup", "backUp",
     "promote", "rollBack", "cleanBackup", "cleanNext", "removeFailed", "keepFailed"}
RestoreSteps == {"restore", "cleanup", "restored"}

(* What a regeneration has made of `next` by the time it is at a step, and   *)
(* where the old state is between the two renames of a commit.               *)
NextIsWritten ==
    /\ pc \in WorkerSteps \cup RestoreSteps
    /\ pc \in {"load", "removeBackup", "backUp", "promote", "rollBack"} => disk["next"] = owner
    /\ pc \in {"promote", "rollBack"} => disk["current"] = Absent
    /\ pc \in {"promote", "rollBack"} /\ hadCurrent /\ committed /\ "read" \notin missed =>
          disk["backup"] # Empty
    /\ pc = "rollBack" => hadCurrent /\ faults >= 1

(* Where the state of an endpoint that was committed is, after two failing   *)
(* operations at most.  Without `current` the backup has it, unless a commit *)
(* is at work and `next` has it; and `current` is only missing after both    *)
(* the second rename of a commit and its rollback failed.                    *)
CommittedIsKept ==
    faults <= 2 /\ committed /\ "read" \notin missed =>
        \/ disk["current"] = owner
        \/ /\ disk["current"] = Absent
           /\ \/ /\ pc \in {"promote", "rollBack"}
                 /\ IF hadCurrent THEN disk["backup"] = owner ELSE faults = 2
              \/ pc \in {"removeBackup", "backUp"} /\ faults = 2
              \/ pc \in RestoreSteps /\ Restored(disk) = owner
              \/ /\ pc \in WorkerSteps \ {"promote", "rollBack", "cleanBackup"}
                 /\ disk["backup"] = owner
                 /\ disk["next"] \in {Absent, Empty, owner}
                 /\ faults = 2

(* The cleanup of a restore: one directory has the state that was taken, it  *)
(* is not to be removed, and every one that is and has a state comes after   *)
(* it, unless a directory could not be read.                                 *)
CleanupSpares ==
    pc = "cleanup" =>
        \E k \in Kinds \ listed :
            /\ disk[k] \in Endpoints /\ disk[k] = taken
            /\ "read" \notin missed => \A j \in listed \cap Holding(disk) : Before(k, j)
            /\ missed = {} => \A j \in Holding(disk) : ~Before(j, k)

(* Only restores take a state. *)
TakenByRestore == taken # NoState => pc \in RestoreSteps

(* The inductive invariant. *)
Inv ==
    /\ TypeOK
    /\ NextIsWritten
    /\ CommittedIsKept
    /\ CleanupSpares
    /\ TakenByRestore
    /\ RestoreIsStable

-----------------------------------------------------------------------------
(* The four kinds, in their order. *)
LEMMA OrderIs ==
    /\ Len(Order) = 4
    /\ Order[1] = "current" /\ Order[2] = "next" /\ Order[3] = "backup" /\ Order[4] = "failed"
    /\ Kinds = {"current", "next", "backup", "failed"}
<1>1. Len(Order) = 4
  BY DEF Order
<1>2. Order[1] = "current" /\ Order[2] = "next" /\ Order[3] = "backup" /\ Order[4] = "failed"
  BY DEF Order
<1>3. 1 .. Len(Order) = {1, 2, 3, 4}
  BY <1>1
<1> QED
  BY <1>1, <1>2, <1>3 DEF Kinds

LEMMA BeforeIs ==
    \A j, k : Before(j, k) <=>
        \/ j = "current" /\ k \in {"next", "backup", "failed"}
        \/ j = "next" /\ k \in {"backup", "failed"}
        \/ j = "backup" /\ k = "failed"
<1>1. 1 .. Len(Order) = {1, 2, 3, 4}
  BY OrderIs
<1>2. \A j, k : Before(j, k) <=> \E a, b \in {1, 2, 3, 4} : a < b /\ Order[a] = j /\ Order[b] = k
  BY <1>1 DEF Before
<1> QED
  BY <1>2, OrderIs

(* The first kind of a set. *)
LEMMA FirstIs ==
    ASSUME NEW S \in SUBSET Kinds
    PROVE  FirstOf(S) = IF "current" \in S THEN {"current"}
                        ELSE IF "next" \in S THEN {"next"}
                        ELSE IF "backup" \in S THEN {"backup"}
                        ELSE IF "failed" \in S THEN {"failed"}
                        ELSE {}
<1>1. \A k : k \in FirstOf(S) <=> k \in S /\ \A j \in S : ~Before(j, k)
  BY DEF FirstOf
<1>2. CASE "current" \in S
  BY <1>1, <1>2, BeforeIs, OrderIs
<1>3. CASE "current" \notin S /\ "next" \in S
  BY <1>1, <1>3, BeforeIs, OrderIs
<1>4. CASE "current" \notin S /\ "next" \notin S /\ "backup" \in S
  BY <1>1, <1>4, BeforeIs, OrderIs
<1>5. CASE "current" \notin S /\ "next" \notin S /\ "backup" \notin S
  BY <1>1, <1>5, BeforeIs, OrderIs
<1> QED
  BY <1>2, <1>3, <1>4, <1>5

(* read_endpoints prefers the first directory that has a state. *)
LEMMA RestoredIs ==
    ASSUME NEW d
    PROVE  Restored(d) =
             IF d["current"] \in Endpoints THEN d["current"]
             ELSE IF d["next"] \in Endpoints THEN d["next"]
             ELSE IF d["backup"] \in Endpoints THEN d["backup"]
             ELSE IF d["failed"] \in Endpoints THEN d["failed"]
             ELSE NoState
<1>1. \A k : (CHOOSE x \in {k} : TRUE) = k
  OBVIOUS
<1>2. Holding(d) \subseteq Kinds /\ \A k \in Kinds : k \in Holding(d) <=> d[k] \in Endpoints
  BY DEF Holding
<1> QED
  BY <1>1, <1>2, FirstIs, OrderIs DEF Restored

(* The values a directory can hold are told apart. *)
LEMMA ContentsDiffer ==
    /\ Endpoints \subseteq Nat \ {0}
    /\ Absent \notin Endpoints /\ Empty \notin Endpoints /\ Absent # Empty
BY StateDirAssumption DEF StateDirAssumption, Endpoints, Absent, Empty

-----------------------------------------------------------------------------
LEMMA InitInv == Init => Inv
<1> SUFFICES ASSUME Init PROVE Inv
  OBVIOUS
<1> USE OrderIs, StateDirAssumption
    DEF Init, StateDirAssumption, Endpoints, Absent, Empty
<1>1. TypeOK
  <2>1. /\ disk \in [Kinds -> {Absent, Empty} \cup Endpoints]
        /\ committed /\ "read" \notin missed => disk["current"] # Empty
        /\ listed \in SUBSET Kinds /\ missed \in SUBSET {"entry", "read"}
        /\ taken \in Endpoints \cup {NoState}
    OBVIOUS
  <2>2. owner \in Endpoints /\ faults \in 0 .. MaxFaults /\ crashes \in 0 .. MaxCrashes
    OBVIOUS
  <2>3. committed \in BOOLEAN /\ hadCurrent \in BOOLEAN /\ rolledBack \in BOOLEAN
    BY Zenon
  <2> QED
    BY <2>1, <2>2, <2>3, Zenon DEF TypeOK
<1>2. NextIsWritten
  BY DEF NextIsWritten, WorkerSteps
<1>3. CommittedIsKept
  BY DEF CommittedIsKept
<1>4. CleanupSpares /\ TakenByRestore /\ RestoreIsStable
  BY DEF CleanupSpares, TakenByRestore, RestoreIsStable
<1> QED
  BY <1>1, <1>2, <1>3, <1>4 DEF Inv

-----------------------------------------------------------------------------
(* The worker's steps have nothing to do with what a restore took.           *)
LEMMA WorkerTakesNothing ==
    ASSUME Inv, pc \in WorkerSteps, pc' \in WorkerSteps, UNCHANGED taken
    PROVE  CleanupSpares' /\ TakenByRestore' /\ RestoreIsStable'
BY DEF Inv, CleanupSpares, TakenByRestore, RestoreIsStable, WorkerSteps, RestoreSteps

(* The invariant, action by action.  A worker's step is at a place of the    *)
(* regeneration where NextIsWritten and CommittedIsKept say which directory  *)
(* holds the owner's state, and it touches another one.                      *)

LEMMA RemoveDirInv ==
    ASSUME Inv, NEW here, NEW kind, NEW next, RemoveDir(here, kind, next),
           \/ here = "removeNext" /\ kind = "next" /\ next = "createNext"
           \/ here = "removeBackup" /\ kind = "backup" /\ next = "backUp"
           \/ here = "cleanBackup" /\ kind = "backup" /\ next = "cleanNext"
           \/ here = "removeFailed" /\ kind = "failed" /\ next = "keepFailed"
           \/ here = "cleanNext" /\ kind = "next" /\ next = "idle"
    PROVE  Inv'
<1> USE OrderIs, ContentsDiffer DEF Inv, RemoveDir, Rest, restoreVars
<1>1. TypeOK'
  BY DEF TypeOK
<1>2. NextIsWritten'
  BY DEF TypeOK, NextIsWritten, WorkerSteps, RestoreSteps
<1>3. CommittedIsKept'
  BY DEF TypeOK, NextIsWritten, CommittedIsKept, WorkerSteps, RestoreSteps
<1>4. CleanupSpares' /\ TakenByRestore' /\ RestoreIsStable'
  <2>1. pc \in WorkerSteps /\ pc' \in WorkerSteps /\ UNCHANGED taken
    BY DEF WorkerSteps
  <2> QED
    BY <2>1, WorkerTakesNothing
<1> QED
  BY <1>1, <1>2, <1>3, <1>4

LEMMA RenameInv ==
    ASSUME Inv, NEW here, NEW from, NEW to, NEW next, Rename(here, from, to, next),
           \/ here = "rollBack" /\ from = "backup" /\ to = "current" /\ next = "idle"
           \/ here = "keepFailed" /\ from = "next" /\ to = "failed" /\ next = "cleanNext"
    PROVE  Inv'
<1> USE OrderIs, ContentsDiffer DEF Inv, Rename, Rest, restoreVars
<1>1. TypeOK'
  BY DEF TypeOK, NextIsWritten
<1>2. NextIsWritten'
  BY DEF TypeOK, NextIsWritten, WorkerSteps, RestoreSteps
<1>3. CommittedIsKept'
  BY DEF TypeOK, NextIsWritten, CommittedIsKept, WorkerSteps, RestoreSteps
<1>4. CleanupSpares' /\ TakenByRestore' /\ RestoreIsStable'
  <2>1. pc \in WorkerSteps /\ pc' \in WorkerSteps /\ UNCHANGED taken
    BY DEF WorkerSteps
  <2> QED
    BY <2>1, WorkerTakesNothing
<1> QED
  BY <1>1, <1>2, <1>3, <1>4

(* The steps of a regeneration whose failure leaves the directories as they  *)
(* are.                                                                      *)
LEMMA FaultInv ==
    ASSUME Inv, NEW here, NEW next, Fault(here, next),
           \/ here \in {"removeBackup", "backUp", "removeNext", "createNext",
                        "removeFailed", "keepFailed", "cleanNext"} /\ next = "idle"
           \/ here = "cleanBackup" /\ next = "cleanNext"
           \/ here = "writeState" /\ next = "removeFailed"
           \/ here = "promote" /\ next = IF hadCurrent THEN "rollBack" ELSE "idle"
    PROVE  Inv'
<1> USE OrderIs, ContentsDiffer, StateDirAssumption DEF StateDirAssumption, Inv, Fault, Rest, restoreVars
<1>1. TypeOK'
  BY DEF TypeOK
<1>2. NextIsWritten'
  BY DEF TypeOK, NextIsWritten, WorkerSteps, RestoreSteps
<1>3. CommittedIsKept'
  BY DEF TypeOK, NextIsWritten, CommittedIsKept, WorkerSteps, RestoreSteps
<1>4. CleanupSpares' /\ TakenByRestore' /\ RestoreIsStable'
  <2>1. pc \in WorkerSteps /\ pc' \in WorkerSteps /\ UNCHANGED taken
    BY DEF WorkerSteps
  <2> QED
    BY <2>1, WorkerTakesNothing
<1> QED
  BY <1>1, <1>2, <1>3, <1>4

LEMMA OtherWorkerInv ==
    ASSUME Inv, Regenerate \/ CreateNext \/ WriteState \/ Load
    PROVE  Inv'
<1> USE OrderIs, ContentsDiffer, StateDirAssumption
    DEF StateDirAssumption, Inv, Rest, restoreVars, Regenerate, CreateNext, WriteState, Load
<1>1. TypeOK'
  <2> USE DEF TypeOK
  <2>1. CASE Regenerate
    BY <2>1
  <2>2. CASE CreateNext
    BY <2>2
  <2>3. CASE WriteState
    BY <2>3
  <2>4. CASE Load
    BY <2>4
  <2> QED
    BY <2>1, <2>2, <2>3, <2>4
<1>2. NextIsWritten'
  BY DEF TypeOK, NextIsWritten, WorkerSteps, RestoreSteps
<1>3. CommittedIsKept'
  <2> USE DEF TypeOK, NextIsWritten, CommittedIsKept, WorkerSteps, RestoreSteps
  <2>1. CASE Regenerate
    BY <2>1
  <2>2. CASE CreateNext
    BY <2>2
  <2>3. CASE WriteState
    BY <2>3
  <2>4. CASE Load
    BY <2>4
  <2> QED
    BY <2>1, <2>2, <2>3, <2>4
<1>4. CleanupSpares' /\ TakenByRestore' /\ RestoreIsStable'
  <2>1. pc \in WorkerSteps /\ pc' \in WorkerSteps /\ UNCHANGED taken
    BY DEF WorkerSteps
  <2> QED
    BY <2>1, WorkerTakesNothing
<1> QED
  BY <1>1, <1>2, <1>3, <1>4

LEMMA BackUpInv ==
    ASSUME Inv, BackUp
    PROVE  Inv'
<1> USE OrderIs, ContentsDiffer DEF Inv, BackUp, restoreVars
<1>1. TypeOK'
  <2>1. /\ disk' \in [Kinds -> {Absent, Empty} \cup Endpoints]
        /\ committed' /\ "read" \notin missed' => disk'["current"] # Empty
    BY DEF TypeOK
  <2>2. hadCurrent' \in BOOLEAN
    BY Zenon
  <2> QED
    BY <2>1, <2>2, Zenon DEF TypeOK
<1>2. NextIsWritten'
  BY DEF TypeOK, NextIsWritten, WorkerSteps, RestoreSteps
<1>3. CommittedIsKept'
  BY DEF TypeOK, NextIsWritten, CommittedIsKept, WorkerSteps, RestoreSteps
<1>4. CleanupSpares' /\ TakenByRestore' /\ RestoreIsStable'
  <2>1. pc \in WorkerSteps /\ pc' \in WorkerSteps /\ UNCHANGED taken
    BY DEF WorkerSteps
  <2> QED
    BY <2>1, WorkerTakesNothing
<1> QED
  BY <1>1, <1>2, <1>3, <1>4

(* The state that becomes current is the owner's: `next` was written before. *)
LEMMA PromoteInv ==
    ASSUME Inv, Promote
    PROVE  Inv'
<1> USE OrderIs, ContentsDiffer DEF Inv, Promote, restoreVars
<1>1. TypeOK'
  BY DEF TypeOK, NextIsWritten
<1>2. NextIsWritten'
  BY DEF TypeOK, NextIsWritten, WorkerSteps, RestoreSteps
<1>3. CommittedIsKept'
  BY DEF TypeOK, NextIsWritten, CommittedIsKept, WorkerSteps, RestoreSteps
<1>4. CleanupSpares' /\ TakenByRestore' /\ RestoreIsStable'
  <2>1. pc \in WorkerSteps /\ pc' \in WorkerSteps /\ UNCHANGED taken
    BY DEF WorkerSteps
  <2> QED
    BY <2>1, WorkerTakesNothing
<1> QED
  BY <1>1, <1>2, <1>3, <1>4

LEMMA RollBackFailsInv ==
    ASSUME Inv, RollBackFails
    PROVE  Inv'
<1> USE OrderIs, ContentsDiffer, StateDirAssumption
    DEF StateDirAssumption, Inv, RollBackFails, restoreVars
<1>1. TypeOK'
  <2>1. faults' \in 0 .. MaxFaults
    BY DEF TypeOK
  <2>2. rolledBack' \in BOOLEAN
    BY Zenon
  <2> QED
    BY <2>1, <2>2, Zenon DEF TypeOK
<1>2. NextIsWritten'
  BY DEF TypeOK, NextIsWritten, WorkerSteps, RestoreSteps
<1>3. CommittedIsKept'
  BY DEF TypeOK, NextIsWritten, CommittedIsKept, WorkerSteps, RestoreSteps
<1>4. CleanupSpares' /\ TakenByRestore' /\ RestoreIsStable'
  <2>1. pc \in WorkerSteps /\ pc' \in WorkerSteps /\ UNCHANGED taken
    BY DEF WorkerSteps
  <2> QED
    BY <2>1, WorkerTakesNothing
<1> QED
  BY <1>1, <1>2, <1>3, <1>4

LEMMA NewEndpointInv ==
    ASSUME Inv, NewEndpoint
    PROVE  Inv'
<1> USE OrderIs, ContentsDiffer, StateDirAssumption DEF StateDirAssumption, Inv, NewEndpoint
<1>1. TypeOK'
  <2>1. owner' \in Endpoints
    BY DEF TypeOK, Endpoints
  <2>2. committed' \in BOOLEAN /\ rolledBack' \in BOOLEAN
    BY Zenon
  <2>3. taken' \in Endpoints \cup {NoState} /\ missed' \in SUBSET {"entry", "read"} /\ ~committed'
    OBVIOUS
  <2> QED
    BY <2>1, <2>2, <2>3, Zenon DEF TypeOK
<1>2. NextIsWritten'
  BY DEF NextIsWritten, WorkerSteps
<1>3. CommittedIsKept'
  BY DEF CommittedIsKept
<1>4. CleanupSpares' /\ TakenByRestore' /\ RestoreIsStable'
  BY DEF CleanupSpares, TakenByRestore, RestoreIsStable
<1> QED
  BY <1>1, <1>2, <1>3, <1>4

(* Wherever the crash is, what a restart looks at first is what the owner    *)
(* has committed.                                                            *)
LEMMA KeptIsRestored ==
    ASSUME Inv, faults <= 2, committed, "read" \notin missed
    PROVE  Restored(disk) = owner /\ disk["current"] \in {Absent, owner}
<1>1. CASE disk["current"] = owner
  BY <1>1, RestoredIs DEF Inv, TypeOK
<1>2. CASE disk["current"] # owner
  BY <1>2, RestoredIs, ContentsDiffer DEF Inv, TypeOK, NextIsWritten, CommittedIsKept
<1> QED
  BY <1>1, <1>2

(* A step of a restore that leaves what a restart looks at first, and the    *)
(* current directory if it is the owner's, leaves the committed state.       *)
LEMMA RestoreKeeps ==
    ASSUME Inv, pc' \in RestoreSteps, Restored(disk') = Restored(disk),
           disk'["current"] = disk["current"],
           UNCHANGED <<owner, committed>>, missed \subseteq missed',
           faults' <= 2 => faults <= 2
    PROVE  CommittedIsKept'
<1> SUFFICES ASSUME faults' <= 2, committed', "read" \notin missed'
             PROVE  \/ disk'["current"] = owner'
                    \/ /\ disk'["current"] = Absent
                       /\ pc' \in RestoreSteps /\ Restored(disk') = owner'
  BY DEF CommittedIsKept
<1>1. faults <= 2 /\ committed /\ "read" \notin missed
  OBVIOUS
<1>2. Restored(disk) = owner /\ disk["current"] \in {Absent, owner}
  BY <1>1, KeptIsRestored
<1> QED
  BY <1>2

LEMMA CrashInv ==
    ASSUME Inv, Crash
    PROVE  Inv'
<1> USE StateDirAssumption DEF StateDirAssumption, Inv, Crash
<1>1. TypeOK'
  BY DEF TypeOK
<1>2. NextIsWritten'
  BY DEF NextIsWritten, RestoreSteps
<1>3. CommittedIsKept'
  BY RestoreKeeps DEF RestoreSteps
<1>4. CleanupSpares' /\ TakenByRestore' /\ RestoreIsStable'
  BY DEF CleanupSpares, TakenByRestore, RestoreIsStable, RestoreSteps
<1> QED
  BY <1>1, <1>2, <1>3, <1>4

-----------------------------------------------------------------------------
(* The restore. *)

LEMMA KindsAreFinite ==
    ASSUME NEW S \in SUBSET Kinds
    PROVE  Cardinality(S) \in Nat /\ (Cardinality(S) = 0 => S = {})
<1>1. IsFiniteSet({} \cup {"current"})
  BY FS_EmptySet, FS_AddElement, Zenon
<1>2. IsFiniteSet({} \cup {"current"} \cup {"next"})
  BY <1>1, FS_AddElement, Zenon
<1>3. IsFiniteSet({} \cup {"current"} \cup {"next"} \cup {"backup"})
  BY <1>2, FS_AddElement, Zenon
<1>4. IsFiniteSet({} \cup {"current"} \cup {"next"} \cup {"backup"} \cup {"failed"})
  BY <1>3, FS_AddElement, Zenon
<1>5. Kinds = {} \cup {"current"} \cup {"next"} \cup {"backup"} \cup {"failed"}
  BY OrderIs
<1>6. IsFiniteSet(S)
  BY <1>4, <1>5, FS_Subset, Zenon
<1> QED
  BY <1>6, FS_CardinalityType, FS_EmptySet, Zenon

(* A restore whose listing or reading passed over nothing takes what a       *)
(* restart looks at first.                                                   *)
LEMMA RestoreChooseInv ==
    ASSUME Inv, NEW entries \in SUBSET Kinds, NEW unread \in SUBSET Kinds,
           unread \subseteq entries, RestoreChoose(entries, unread)
    PROVE  Inv'
<1> USE StateDirAssumption DEF StateDirAssumption
<1> DEFINE dropped == {k \in Kinds \ entries : disk[k] # Absent}
           readable == (entries \cap Holding(disk)) \ unread
           pick == FirstOf(readable)
<1>1. /\ pc = "restore"
      /\ \A j \in unread, k \in pick : Before(j, k)
      /\ faults' = faults + Cardinality(dropped) + Cardinality(unread)
      /\ faults' <= MaxFaults
      /\ listed' = IF pick = {} THEN {} ELSE entries \ pick
      /\ taken' = IF pick = {} THEN taken ELSE disk[CHOOSE k \in pick : TRUE]
      /\ missed' = missed \cup {why \in {"entry", "read"} :
                         PassesOver(IF why = "entry" THEN dropped ELSE unread, pick)}
      /\ pc' = IF pick = {} THEN "restored" ELSE "cleanup"
      /\ UNCHANGED <<disk, owner, committed, hadCurrent, rolledBack, crashes>>
  BY DEF RestoreChoose
<1>2. Cardinality(dropped) \in Nat /\ Cardinality(unread) \in Nat
  BY KindsAreFinite
<1>3. readable \in SUBSET Kinds /\ readable \subseteq entries
  OBVIOUS
<1>4. \A k \in Kinds : k \in readable <=> k \in entries /\ disk[k] \in Endpoints /\ k \notin unread
  BY DEF Holding
<1>5. \A k \in entries : disk[k] # Absent
  BY DEF RestoreChoose
<1>6. \A k \in dropped : k \in Kinds \ entries
  OBVIOUS
<1>7. \A k \in Kinds \ entries : disk[k] # Absent => k \in dropped
  OBVIOUS
<1>8. pick # {} => \E k \in readable : pick = {k} /\ \A j \in readable : j = k \/ Before(k, j)
  BY <1>3, FirstIs, BeforeIs, OrderIs
<1>9. \A S : PassesOver(S, pick) <=> \E j \in S \cap Holding(disk), k \in pick : Before(j, k)
  BY DEF PassesOver
<1> HIDE DEF dropped, readable, pick
<1>10. "read" \notin missed' => ~PassesOver(unread, pick)
  BY <1>1
<1>11. missed' = {} => ~PassesOver(unread, pick) /\ ~PassesOver(dropped, pick)
  BY <1>1
<1>12. ASSUME pick # {}
       PROVE  \E k \in Kinds :
                /\ k \in readable /\ pick = {k} /\ disk[k] \in Endpoints /\ taken' = disk[k]
                /\ k \notin listed' /\ listed' = entries \ {k}
                /\ \A j \in readable : j = k \/ Before(k, j)
  <2>1. PICK k \in readable : pick = {k} /\ \A j \in readable : j = k \/ Before(k, j)
    BY <1>8, <1>12
  <2>2. (CHOOSE x \in pick : TRUE) = k
    BY <2>1
  <2>3. k \in Kinds /\ disk[k] \in Endpoints
    BY <1>3, <1>4
  <2>4. taken' = disk[k] /\ listed' = entries \ {k}
    BY <1>1, <1>12, <2>1, <2>2
  <2> QED
    BY <2>1, <2>3, <2>4
<1>13. TypeOK'
  <2>1. faults' \in 0 .. MaxFaults
    BY <1>1, <1>2 DEF Inv, TypeOK
  <2>2. taken' \in Endpoints \cup {NoState}
    BY <1>1, <1>12 DEF Inv, TypeOK
  <2>3. listed' \in SUBSET Kinds /\ missed' \in SUBSET {"entry", "read"} /\ missed \subseteq missed'
    BY <1>1 DEF Inv, TypeOK
  <2> QED
    BY <1>1, <2>1, <2>2, <2>3 DEF Inv, TypeOK
<1>14. NextIsWritten'
  BY <1>1 DEF NextIsWritten, RestoreSteps
<1>15. CommittedIsKept'
  <2>1. faults' <= 2 => faults <= 2
    BY <1>1, <1>2 DEF Inv, TypeOK
  <2>2. pc' \in RestoreSteps /\ disk' = disk /\ missed \subseteq missed'
    BY <1>1 DEF RestoreSteps
  <2> QED
    BY <1>1, <2>1, <2>2, RestoreKeeps
<1>16. CleanupSpares'
  <2> SUFFICES ASSUME pick # {}
               PROVE  CleanupSpares'
    BY <1>1 DEF CleanupSpares
  <2>1. PICK k \in Kinds :
          /\ k \in readable /\ pick = {k} /\ disk[k] \in Endpoints /\ taken' = disk[k]
          /\ k \notin listed' /\ listed' = entries \ {k}
          /\ \A j \in readable : j = k \/ Before(k, j)
    BY <1>12
  <2>2. ASSUME "read" \notin missed', NEW j \in listed' \cap Holding(disk)
        PROVE  Before(k, j)
    <3>1. j \in Kinds /\ j \in entries /\ j # k /\ disk[j] \in Endpoints
      BY <2>1, <2>2 DEF Holding
    <3>2. j \notin unread
      BY <1>1, <1>9, <1>10, <2>1, <2>2
    <3> QED
      BY <1>4, <2>1, <3>1, <3>2
  <2>3. ASSUME missed' = {}, NEW j \in Holding(disk)
        PROVE  ~Before(j, k)
    <3>1. j \in Kinds /\ disk[j] \in Endpoints
      BY DEF Holding
    <3>2. CASE j \in unread \/ j \in dropped
      BY <1>9, <1>11, <2>1, <2>3, <3>2
    <3>3. CASE j \notin unread /\ j \notin dropped
      <4>1. j \in readable
        BY <1>4, <1>7, <3>1, <3>3, ContentsDiffer
      <4>2. j = k \/ Before(k, j)
        BY <2>1, <4>1
      <4> QED
        BY <4>2, BeforeIs
    <3> QED
      BY <3>2, <3>3
  <2>4. disk' = disk /\ Holding(disk') = Holding(disk)
    BY <1>1
  <2> QED
    BY <2>1, <2>2, <2>3, <2>4 DEF CleanupSpares
<1>17. TakenByRestore'
  BY <1>1 DEF TakenByRestore, RestoreSteps
<1>18. RestoreIsStable'
  <2>1. Restored(disk') = Restored(disk)
    BY <1>1
  <2>2. CASE pick = {}
    BY <1>1, <2>1, <2>2 DEF Inv, RestoreIsStable
  <2>3. CASE pick # {}
    <3>1. pc' = "cleanup"
      BY <1>1, <2>3
    <3>2. missed' = {} => \E k \in Kinds : /\ disk'[k] \in Endpoints /\ disk'[k] = taken'
                                           /\ \A j \in Holding(disk') : ~Before(j, k)
      BY <1>16, <3>1 DEF CleanupSpares
    <3> QED
      BY <3>2, RestoredIs, BeforeIs, OrderIs DEF Holding, RestoreIsStable
  <2> QED
    BY <2>2, <2>3
<1> QED
  BY <1>13, <1>14, <1>15, <1>16, <1>17, <1>18 DEF Inv

(* Removing a directory that comes after one with a state, or has none       *)
(* itself, leaves what a restart looks at first.                             *)
LEMMA RemovalKeeps ==
    ASSUME disk \in [Kinds -> Contents], NEW k \in Kinds, disk[k] \in Endpoints,
           NEW kind \in Kinds, disk[kind] \in Endpoints => Before(k, kind),
           disk' = [disk EXCEPT ![kind] = IF @ \in Endpoints THEN Empty ELSE Absent]
    PROVE  Restored(disk') = Restored(disk) /\ disk'[k] = disk[k]
<1>1. kind # k
  BY BeforeIs
<1>2. disk'[k] = disk[k]
  BY <1>1 DEF Contents
<1>3. \A j \in Kinds \ {kind} : disk'[j] = disk[j]
  BY DEF Contents
<1>4. disk'[kind] \notin Endpoints
  BY ContentsDiffer
<1> QED
  BY <1>2, <1>3, <1>4, BeforeIs, OrderIs, RestoredIs

LEMMA RestoreRemoveInv ==
    ASSUME Inv, NEW kind \in Kinds, RestoreRemove(kind)
    PROVE  Inv'
<1>1. /\ pc = "cleanup" /\ kind \in listed
      /\ disk' = [disk EXCEPT ![kind] = IF @ \in Endpoints THEN Empty ELSE Absent]
      /\ listed' \subseteq listed
      /\ UNCHANGED <<pc, owner, committed, hadCurrent, rolledBack, taken, missed, faults, crashes>>
  BY DEF RestoreRemove, FirstOf
<1>2. PICK k \in Kinds \ listed :
        /\ disk[k] \in Endpoints /\ disk[k] = taken
        /\ "read" \notin missed => \A j \in listed \cap Holding(disk) : Before(k, j)
        /\ missed = {} => \A j \in Holding(disk) : ~Before(j, k)
  BY <1>1 DEF Inv, CleanupSpares
<1>3. disk \in [Kinds -> Contents] /\ disk' \in [Kinds -> Contents]
  BY <1>1 DEF Inv, TypeOK, Contents
<1>4. k # kind /\ disk'[k] = disk[k]
  BY <1>1, <1>2, <1>3
<1>5. Holding(disk') \subseteq Holding(disk)
  BY <1>1, <1>3, ContentsDiffer DEF Holding
<1>6. ASSUME "read" \notin missed
      PROVE  /\ Restored(disk') = Restored(disk)
             /\ disk["current"] = Absent \/ disk["current"] \in Endpoints =>
                   disk'["current"] = disk["current"]
  <2>1. disk[kind] \in Endpoints => Before(k, kind)
    BY <1>1, <1>2, <1>6 DEF Holding
  <2>2. Restored(disk') = Restored(disk)
    BY <1>1, <1>2, <1>3, <2>1, RemovalKeeps
  <2>3. kind = "current" => disk[kind] \notin Endpoints
    BY <2>1, BeforeIs
  <2> QED
    BY <1>1, <1>3, <2>2, <2>3, OrderIs
<1>7. TypeOK'
  <2>1. committed /\ "read" \notin missed => disk'["current"] # Empty
    BY <1>3, <1>6, OrderIs, ContentsDiffer DEF Inv, TypeOK, Contents
  <2> QED
    BY <1>1, <1>3, <2>1 DEF Inv, TypeOK, Contents
<1>8. NextIsWritten'
  BY <1>1 DEF NextIsWritten, RestoreSteps
<1>9. CommittedIsKept'
  <2> SUFFICES ASSUME faults <= 2, committed, "read" \notin missed
               PROVE  CommittedIsKept'
    BY <1>1 DEF CommittedIsKept
  <2>1. disk["current"] \in {Absent, owner} /\ owner \in Endpoints
    BY KeptIsRestored DEF Inv, TypeOK
  <2> QED
    BY <1>1, <1>6, <2>1, RestoreKeeps DEF RestoreSteps
<1>10. CleanupSpares'
  <2>1. k \in Kinds \ listed' /\ disk'[k] \in Endpoints /\ disk'[k] = taken'
    BY <1>1, <1>2, <1>4
  <2>2. "read" \notin missed' => \A j \in listed' \cap Holding(disk') : Before(k, j)
    BY <1>1, <1>2, <1>5
  <2>3. missed' = {} => \A j \in Holding(disk') : ~Before(j, k)
    BY <1>1, <1>2, <1>5
  <2> QED
    BY <2>1, <2>2, <2>3 DEF CleanupSpares
<1>11. TakenByRestore' /\ RestoreIsStable'
  BY <1>1, <1>6 DEF Inv, TakenByRestore, RestoreIsStable
<1> QED
  BY <1>7, <1>8, <1>9, <1>10, <1>11 DEF Inv

(* The steps of a restore that only go on.                                   *)
LEMMA RestoreOnInv ==
    ASSUME Inv,
           \/ Fault("restore", "restore")
           \/ \E kind \in Kinds : RestoreRemoveFails(kind)
           \/ RestoreDone
    PROVE  Inv'
<1> USE StateDirAssumption DEF StateDirAssumption
<1>1. /\ pc \in RestoreSteps /\ pc' \in RestoreSteps
      /\ pc' = "cleanup" => pc = "cleanup"
      /\ faults' \in 0 .. MaxFaults /\ faults' >= faults
      /\ listed' \subseteq listed
      /\ UNCHANGED <<disk, owner, committed, hadCurrent, rolledBack, taken, missed, crashes>>
  BY DEF Inv, TypeOK, Fault, RestoreRemoveFails, RestoreDone, Rest, restoreVars, RestoreSteps
<1>2. TypeOK'
  BY <1>1 DEF Inv, TypeOK
<1>3. NextIsWritten'
  BY <1>1 DEF NextIsWritten, RestoreSteps
<1>4. CommittedIsKept'
  <2>1. faults' <= 2 => faults <= 2
    BY <1>1 DEF Inv, TypeOK
  <2> QED
    BY <1>1, <2>1, RestoreKeeps
<1>5. CleanupSpares'
  <2>1. disk' = disk /\ Holding(disk') = Holding(disk)
    BY <1>1
  <2> QED
    BY <1>1, <2>1 DEF Inv, CleanupSpares
<1>6. TakenByRestore' /\ RestoreIsStable'
  <2>1. Restored(disk') = Restored(disk)
    BY <1>1
  <2> QED
    BY <1>1, <2>1 DEF Inv, TakenByRestore, RestoreIsStable
<1> QED
  BY <1>2, <1>3, <1>4, <1>5, <1>6 DEF Inv

LEMMA RestoreInv ==
    ASSUME Inv, Restore
    PROVE  Inv'
<1>1. ASSUME NEW entries \in SUBSET Kinds, NEW unread \in SUBSET Kinds,
             unread \subseteq entries, RestoreChoose(entries, unread)
      PROVE  Inv'
  BY <1>1, RestoreChooseInv
<1>2. ASSUME NEW kind \in Kinds, RestoreRemove(kind)
      PROVE  Inv'
  BY <1>2, RestoreRemoveInv
<1>3. CASE \/ Fault("restore", "restore")
           \/ \E kind \in Kinds : RestoreRemoveFails(kind)
           \/ RestoreDone
  BY <1>3, RestoreOnInv
<1> QED
  BY <1>1, <1>2, <1>3 DEF Restore

-----------------------------------------------------------------------------
LEMMA SynchronizeInv ==
    ASSUME Inv, Synchronize
    PROVE  Inv'
<1>1. CASE RemoveDir("removeBackup", "backup", "backUp")
  BY <1>1, RemoveDirInv
<1>2. CASE Fault("removeBackup", "idle")
  BY <1>2, FaultInv
<1>3. CASE BackUp
  BY <1>3, BackUpInv
<1>4. CASE Fault("backUp", "idle")
  BY <1>4, FaultInv
<1>5. CASE Promote
  BY <1>5, PromoteInv
<1>6. CASE PromoteFails
  BY <1>6, FaultInv DEF PromoteFails
<1>7. CASE Rename("rollBack", "backup", "current", "idle")
  BY <1>7, RenameInv
<1>8. CASE RollBackFails
  BY <1>8, RollBackFailsInv
<1>9. CASE RemoveDir("cleanBackup", "backup", "cleanNext")
  BY <1>9, RemoveDirInv
<1>10. CASE Fault("cleanBackup", "cleanNext")
  BY <1>10, FaultInv
<1> QED
  BY <1>1, <1>2, <1>3, <1>4, <1>5, <1>6, <1>7, <1>8, <1>9, <1>10 DEF Synchronize

LEMMA WorkerInv ==
    ASSUME Inv, Worker
    PROVE  Inv'
<1>1. CASE Regenerate \/ CreateNext \/ WriteState \/ Load
  BY <1>1, OtherWorkerInv
<1>2. CASE RemoveDir("removeNext", "next", "createNext")
  BY <1>2, RemoveDirInv
<1>3. CASE Fault("removeNext", "idle")
  BY <1>3, FaultInv
<1>4. CASE Fault("createNext", "idle")
  BY <1>4, FaultInv
<1>5. CASE Fault("writeState", "removeFailed")
  BY <1>5, FaultInv
<1>6. CASE Synchronize
  BY <1>6, SynchronizeInv
<1>7. CASE RemoveDir("removeFailed", "failed", "keepFailed")
  BY <1>7, RemoveDirInv
<1>8. CASE Fault("removeFailed", "idle")
  BY <1>8, FaultInv
<1>9. CASE Rename("keepFailed", "next", "failed", "cleanNext")
  BY <1>9, RenameInv
<1>10. CASE Fault("keepFailed", "idle")
  BY <1>10, FaultInv
<1>11. CASE RemoveDir("cleanNext", "next", "idle")
  BY <1>11, RemoveDirInv
<1>12. CASE Fault("cleanNext", "idle")
  BY <1>12, FaultInv
<1> QED
  BY <1>1, <1>2, <1>3, <1>4, <1>5, <1>6, <1>7, <1>8, <1>9, <1>10, <1>11, <1>12 DEF Worker

LEMMA NextInv ==
    ASSUME Inv, [Next]_vars
    PROVE  Inv'
<1>1. CASE NewEndpoint
  BY <1>1, NewEndpointInv
<1>2. CASE Worker
  BY <1>2, WorkerInv
<1>3. CASE Crash
  BY <1>3, CrashInv
<1>4. CASE Restore
  BY <1>4, RestoreInv
<1>5. CASE UNCHANGED vars
  BY <1>5 DEF Inv, TypeOK, NextIsWritten, CommittedIsKept, CleanupSpares, TakenByRestore,
              RestoreIsStable, Restored, Holding, vars, restoreVars
<1> QED
  BY <1>1, <1>2, <1>3, <1>4, <1>5 DEF Next

LEMMA Invariance == Spec => []Inv
BY InitInv, NextInv, PTL DEF Spec

-----------------------------------------------------------------------------
(* Whatever fails, and wherever the process crashes, the variables have      *)
(* their types, and the `current` directory of an endpoint that was          *)
(* committed is complete: it is made by renaming a directory whose state     *)
(* file write_state had written, a commit moves it as a whole, and a restore *)
(* only empties it when it could not read it (synchronize_directories,       *)
(* read_endpoints).                                                          *)
THEOREM Typing == Spec => []TypeOK
<1>1. Inv => TypeOK
  BY DEF Inv
<1> QED
  BY <1>1, Invariance, PTL

(* A committed endpoint is what a restart at any point looks at first, as    *)
(* long as no more than two file operations failed and none of them was the  *)
(* reading of an intact directory by a restore: that one is enough for       *)
(* read_endpoints to take another directory and remove it.  The bound on the *)
(* others is sharp: two failures (of a commit's second rename and of its     *)
(* rollback) leave the only copy in `backup`; the next regeneration removes  *)
(* that, and if it then fails before its commit, the only copy is in `next`, *)
(* which the one after it removes.                                           *)
THEOREM CommittedSurvivesTwoFaults == Spec => [](faults <= 2 => CommittedSurvives)
<1>1. Inv => (faults <= 2 => CommittedSurvives)
  BY KeptIsRestored DEF CommittedSurvives
<1> QED
  BY <1>1, Invariance, PTL

(* Restores take the same state one after the other, however often one is    *)
(* interrupted and whichever removals fail, unless one of them could not     *)
(* list or read a directory it prefers: read_endpoints only removes listed   *)
(* directories that come after the one it took or have no state.             *)
THEOREM RestoreConverges == Spec => []RestoreIsStable
<1>1. Inv => RestoreIsStable
  BY DEF Inv
<1> QED
  BY <1>1, Invariance, PTL
=============================================================================
