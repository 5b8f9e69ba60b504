--------------------- MODULE CodexHookTransactionProofs ---------------------
(***************************************************************************)
(* Theorems about CodexHookTransaction, for every set of commands and any  *)
(* faults, crashes, cancellations and foreign changes, with their proofs.  *)
(***************************************************************************)
EXTENDS CodexHookTransaction, TLAPS

-----------------------------------------------------------------------------
(* Type correctness.  Four lemmas say that a command's record stays a      *)
(* record however it is updated; then there is one lemma for each action.  *)

LEMMA BecomeType ==
    ASSUME TypeOK, NEW c \in Commands, NEW r \in Operations, Become(c, r)
    PROVE  op' \in [Commands -> Operations]
  BY DEF TypeOK, Become

LEMMA OpType == ASSUME TypeOK, NEW c \in Commands PROVE op[c] \in Operations
  BY DEF TypeOK

LEMMA KnownLabels ==
    {"write_lock", "catch", "stage_receipt", "stage_hook", "probe", "rolled_back", "track_receipt",
     "track_hook", "inactive", "vacant", "guard_drop_hook", "cleanup", "report"} \subseteq Labels
  BY DEF Labels, Steps, LockedSteps, InstallSteps, RemoveSteps

LEMMA GoType ==
    ASSUME TypeOK, NEW c \in Commands, NEW l \in Labels, Go(c, l)
    PROVE  op' \in [Commands -> Operations]
  <1>1. op[c] \in Operations
    BY DEF TypeOK
  <1>2. [op[c] EXCEPT !.pc = l] \in Operations
    BY <1>1 DEF Operations
  <1> QED BY <1>2, BecomeType DEF Go

LEMMA ThrowType ==
    ASSUME TypeOK, NEW c \in Commands, NEW e \in Errors, Throw(c, e)
    PROVE  op' \in [Commands -> Operations]
  <1>1. op[c] \in Operations
    BY DEF TypeOK
  <1>2. [op[c] EXCEPT !.pc = "catch", !.err = e] \in Operations
    BY <1>1 DEF Operations, Labels, Steps, LockedSteps
  <1> QED BY <1>2, BecomeType DEF Throw

LEMMA ReportType ==
    ASSUME TypeOK, NEW c \in Commands, NEW res \in Results, Report(c, res)
    PROVE  op' \in [Commands -> Operations]
  <1>1. op[c] \in Operations
    BY DEF TypeOK
  <1>2. [op[c] EXCEPT !.pc = "done", !.result = res] \in Operations
    BY <1>1 DEF Operations, Labels
  <1> QED BY <1>2, BecomeType DEF Report

LEMMA ObserveFirstType ==
    ASSUME TypeOK, NEW c \in Commands, ObserveFirst(c)
    PROVE  TypeOK'
  <1>1. op' \in [Commands -> Operations]
    BY GoType, ReportType
    DEF ObserveFirst, Results, Errors, LockErrors, Fault,
        Labels, Steps, LockedSteps, InstallSteps, RemoveSteps, CheckSteps
  <1> QED BY <1>1 DEF ObserveFirst, TypeOK, disk

LEMMA CreateLockType ==
    ASSUME TypeOK, NEW c \in Commands, CreateLock(c)
    PROVE  TypeOK'
  <1>1. op' \in [Commands -> Operations]
    <2>1. CASE \E e \in Errors : Throw(c, e)
      BY <2>1, ThrowType
    <2>2. CASE \E i \in Inodes : Become(c, [op[c] EXCEPT !.pc = "write_lock", !.lock = i])
      <3>1. PICK i \in Inodes : Become(c, [op[c] EXCEPT !.pc = "write_lock", !.lock = i])
        BY <2>2
      <3>2. [op[c] EXCEPT !.pc = "write_lock", !.lock = i] \in Operations
        BY OpType, KnownLabels DEF Operations
      <3> QED BY <3>1, <3>2, BecomeType
    <2> QED BY <2>1, <2>2 DEF CreateLock, Errors, FreeInodes
  <1>2. entry' \in [FixedNames -> Inodes \cup {NoInode}]
    BY DEF CreateLock, TypeOK, FreeInodes, FixedNames
  <1>3. content' \in [Inodes -> Contents]
    <2>1. Bytes("blank", c) \in Contents
      BY DEF Bytes, Contents
    <2> QED BY <2>1 DEF CreateLock, TypeOK, FreeInodes
  <1> QED BY <1>1, <1>2, <1>3 DEF CreateLock, TypeOK

LEMMA WriteLockType ==
    ASSUME TypeOK, NEW c \in Commands, WriteLock(c)
    PROVE  TypeOK'
  <1>1. op' \in [Commands -> Operations]
    BY GoType DEF WriteLock, Labels, Steps, LockedSteps, InstallSteps, RemoveSteps, CheckSteps
  <1>2. content' \in [Inodes -> Contents]
    <2>1. Bytes("lock", c) \in Contents
      BY DEF Bytes, Contents
    <2> QED BY <2>1 DEF WriteLock, TypeOK
  <1> QED BY <1>1, <1>2 DEF WriteLock, TypeOK

LEMMA AbandonLockType ==
    ASSUME TypeOK, NEW c \in Commands, AbandonLock(c)
    PROVE  TypeOK'
  <1>1. op' \in [Commands -> Operations]
    <2>1. \A e \in Errors :
             [op[c] EXCEPT !.pc = "catch", !.err = e, !.lock = NoInode] \in Operations
      BY OpType, KnownLabels DEF Operations
    <2> QED BY <2>1, BecomeType DEF AbandonLock, Errors
  <1> QED BY <1>1 DEF AbandonLock, TypeOK, FixedNames

LEMMA CheckInstallableType ==
    ASSUME TypeOK, NEW c \in Commands, CheckInstallable(c)
    PROVE  TypeOK'
  <1>1. op' \in [Commands -> Operations]
    BY GoType, ThrowType
    DEF CheckInstallable, At, Errors, LockErrors, Fault,
        Labels, Steps, LockedSteps, InstallSteps, RemoveSteps, CheckSteps
  <1> QED BY <1>1 DEF CheckInstallable, TypeOK, disk

LEMMA MakeStagingType ==
    ASSUME TypeOK, NEW c \in Commands, MakeStaging(c)
    PROVE  TypeOK'
  <1>1. op' \in [Commands -> Operations]
    BY GoType, ThrowType DEF MakeStaging, Errors, Labels, Steps, LockedSteps, InstallSteps, RemoveSteps, CheckSteps
  <1> QED BY <1>1 DEF MakeStaging, TypeOK, StagingStates

LEMMA VerifyStagingType ==
    ASSUME TypeOK, NEW c \in Commands, VerifyStaging(c)
    PROVE  TypeOK'
  <1>1. op' \in [Commands -> Operations]
    <2>1. [op[c] EXCEPT !.pc = "stage_receipt", !.tracked = TRUE, !.author = c] \in Operations
      BY OpType, KnownLabels DEF Operations
    <2> QED BY <2>1, BecomeType, ThrowType DEF VerifyStaging, Errors
  <1> QED BY <1>1 DEF VerifyStaging, TypeOK, disk

LEMMA CreateStageFileType ==
    ASSUME TypeOK, NEW c \in Commands, NEW f \in Artifacts, CreateStageFile(c, f)
    PROVE  TypeOK'
  <1>1. CASE \E e \in Errors :
               /\ Throw(c, e)
               /\ staging' \in {staging, [staging EXCEPT ![c] = "littered"]}
               /\ UNCHANGED <<entry, content, stage, envLeft>>
    <2>1. op' \in [Commands -> Operations]
      BY <1>1, ThrowType
    <2> QED BY <1>1, <2>1 DEF TypeOK, StagingStates
  <1>2. CASE \E i \in Inodes :
               /\ content' = [content EXCEPT ![i] = Bytes(f, c)]
               /\ stage' = [stage EXCEPT ![c][f] = i]
               /\ Become(c, [op[c] EXCEPT !.pc = IF f = "receipt" THEN "stage_hook" ELSE "probe",
                                          !.file[f] = i, !.todo = @ \cup {f}])
               /\ UNCHANGED <<entry, staging, envLeft>>
    <2>1. PICK i \in Inodes :
               /\ content' = [content EXCEPT ![i] = Bytes(f, c)]
               /\ stage' = [stage EXCEPT ![c][f] = i]
               /\ Become(c, [op[c] EXCEPT !.pc = IF f = "receipt" THEN "stage_hook" ELSE "probe",
                                          !.file[f] = i, !.todo = @ \cup {f}])
               /\ UNCHANGED <<entry, staging, envLeft>>
      BY <1>2
    <2>2. [op[c] EXCEPT !.pc = IF f = "receipt" THEN "stage_hook" ELSE "probe",
                        !.file[f] = i, !.todo = @ \cup {f}] \in Operations
      <3>1. [op[c].file EXCEPT ![f] = i] \in [Artifacts -> Inodes \cup {NoInode}]
        BY DEF TypeOK, Operations
      <3> QED BY <3>1, OpType, KnownLabels DEF Operations
    <2>3. op' \in [Commands -> Operations]
      BY <2>1, <2>2, BecomeType
    <2>4. Bytes(f, c) \in Contents
      BY DEF Bytes, Contents
    <2>5. content' \in [Inodes -> Contents]
      BY <2>1, <2>4 DEF TypeOK
    <2>6. stage' \in [Commands -> [Artifacts -> Inodes \cup {NoInode}]]
      BY <2>1 DEF TypeOK
    <2> QED BY <2>1, <2>3, <2>5, <2>6 DEF TypeOK
  <1> QED BY <1>1, <1>2 DEF CreateStageFile, FreeInodes, Errors

LEMMA ProbeType ==
    ASSUME TypeOK, NEW c \in Commands, Probe(c)
    PROVE  TypeOK'
  <1>1. op' \in [Commands -> Operations]
    BY GoType, ThrowType DEF Probe, Errors, Labels, Steps, LockedSteps, InstallSteps, RemoveSteps, CheckSteps
  <1> QED BY <1>1 DEF Probe, TypeOK, StagingStates

LEMMA GuardPublishType ==
    ASSUME TypeOK, NEW c \in Commands, NEW f \in Artifacts, GuardPublish(c, f)
    PROVE  TypeOK'
  <1>1. op' \in [Commands -> Operations]
    BY GoType, ThrowType
    DEF GuardPublish, Artifacts, LinkStep, Errors, LockErrors, Fault,
        Labels, Steps, LockedSteps, InstallSteps, RemoveSteps, CheckSteps
  <1> QED BY <1>1 DEF GuardPublish, TypeOK, disk

LEMMA LinkType ==
    ASSUME TypeOK, NEW c \in Commands, NEW f \in Artifacts, Link(c, f)
    PROVE  TypeOK'
  <1>1. op' \in [Commands -> Operations]
    <2>1. \A l \in {ConfirmStep[f], InspectStep[f]} : l \in Labels
      BY DEF Artifacts, ConfirmStep, InspectStep, Labels, Steps, LockedSteps, InstallSteps
    <2>2. \A l \in Labels : [op[c] EXCEPT !.pc = l, !.changed = @ \cup {f}] \in Operations
      BY DEF TypeOK, Operations
    <2> QED BY <2>1, <2>2, BecomeType, GoType DEF Link
  <1>2. entry' \in [FixedNames -> Inodes \cup {NoInode}]
    <2>1. op[c].file[f] \in Inodes \cup {NoInode}
      BY OpType DEF Operations
    <2> QED BY <2>1 DEF Link, TypeOK
  <1> QED BY <1>1, <1>2 DEF Link, TypeOK

LEMMA InspectPublishType ==
    ASSUME TypeOK, NEW c \in Commands, NEW f \in Artifacts, InspectPublish(c, f)
    PROVE  TypeOK'
  <1>1. op' \in [Commands -> Operations]
    BY GoType, ThrowType
    DEF InspectPublish, Artifacts, ConfirmStep, Errors, LockErrors, Fault,
        Labels, Steps, LockedSteps, InstallSteps, RemoveSteps, CheckSteps
  <1> QED BY <1>1 DEF InspectPublish, TypeOK, disk

LEMMA ConfirmPublishType ==
    ASSUME TypeOK, NEW c \in Commands, NEW f \in Artifacts, ConfirmPublish(c, f)
    PROVE  TypeOK'
  <1>1. op' \in [Commands -> Operations]
    BY GoType, ThrowType
    DEF ConfirmPublish, Artifacts, UnstageStep, Errors, LockErrors, Fault,
        Labels, Steps, LockedSteps, InstallSteps, RemoveSteps, CheckSteps
  <1> QED BY <1>1 DEF ConfirmPublish, TypeOK, disk

LEMMA UnstageType ==
    ASSUME TypeOK, NEW c \in Commands, NEW f \in Artifacts, Unstage(c, f)
    PROVE  TypeOK'
  <1>1. op' \in [Commands -> Operations]
    BY GoType, ThrowType DEF Unstage, Artifacts, SettleStep, Errors, Labels, Steps, LockedSteps, InstallSteps
  <1>2. stage' \in [Commands -> [Artifacts -> Inodes \cup {NoInode}]]
    BY DEF Unstage, TypeOK
  <1> QED BY <1>1, <1>2 DEF Unstage, TypeOK

LEMMA SettlePublishType ==
    ASSUME TypeOK, NEW c \in Commands, NEW f \in Artifacts, SettlePublish(c, f)
    PROVE  TypeOK'
  <1>1. op' \in [Commands -> Operations]
    <2>1. AfterSettle[f] \in Labels
      BY DEF Artifacts, AfterSettle, Labels, Steps, LockedSteps, InstallSteps
    <2>2. [op[c] EXCEPT !.pc = AfterSettle[f], !.settled = @ \cup {f}, !.todo = @ \ {f}]
             \in Operations
      BY <2>1 DEF TypeOK, Operations
    <2> QED BY <2>2, BecomeType, ThrowType DEF SettlePublish, Errors, LockErrors, Fault
  <1> QED BY <1>1 DEF SettlePublish, TypeOK, disk

LEMMA AbortCheckType ==
    ASSUME TypeOK, NEW c \in Commands, AbortCheck(c)
    PROVE  TypeOK'
  <1>1. op' \in [Commands -> Operations]
    BY GoType, ThrowType
    DEF AbortCheck, Errors, LockErrors, Fault,
        Labels, Steps, LockedSteps, InstallSteps, RemoveSteps, CheckSteps
  <1> QED BY <1>1 DEF AbortCheck, TypeOK, disk

LEMMA RolledBackType ==
    ASSUME TypeOK, NEW c \in Commands, NEW e \in Errors, RolledBack(c, e)
    PROVE  op' \in [Commands -> Operations]
  <1>1. [op[c] EXCEPT !.pc = "rolled_back", !.settled = {}, !.changed = @ \ {"receipt"}]
           \in Operations
    BY OpType, KnownLabels DEF Operations
  <1>2. [op[c] EXCEPT !.pc = "catch", !.settled = {}, !.err = e] \in Operations
    BY OpType, KnownLabels DEF Operations
  <1> QED BY <1>1, <1>2, BecomeType DEF RolledBack

LEMMA RollbackInspectType ==
    ASSUME TypeOK, NEW c \in Commands, RollbackInspect(c)
    PROVE  TypeOK'
  <1>1. op' \in [Commands -> Operations]
    BY GoType, RolledBackType DEF RollbackInspect, Inspect, Errors, Labels, Steps, LockedSteps, InstallSteps
  <1> QED BY <1>1 DEF RollbackInspect, Inspect, TypeOK, disk

LEMMA RollbackUnlinkType ==
    ASSUME TypeOK, NEW c \in Commands, RollbackUnlink(c)
    PROVE  TypeOK'
  <1>1. op' \in [Commands -> Operations]
    BY RolledBackType DEF RollbackUnlink, Unlink, Errors
  <1> QED BY <1>1 DEF RollbackUnlink, Unlink, TypeOK, FixedNames, Artifacts

LEMMA RollbackCheckType ==
    ASSUME TypeOK, NEW c \in Commands, RollbackCheck(c)
    PROVE  TypeOK'
  <1>1. op' \in [Commands -> Operations]
    BY GoType, ThrowType
    DEF RollbackCheck, Errors, LockErrors, Fault,
        Labels, Steps, LockedSteps, InstallSteps, RemoveSteps, CheckSteps
  <1> QED BY <1>1 DEF RollbackCheck, TypeOK, disk

LEMMA SurveyType ==
    ASSUME TypeOK, NEW c \in Commands, Survey(c)
    PROVE  TypeOK'
  <1>1. op' \in [Commands -> Operations]
    <2>1. \A t \in SUBSET Artifacts :
             [op[c] EXCEPT !.pc = "track_receipt", !.todo = t] \in Operations
      BY OpType, KnownLabels DEF Operations
    <2> QED BY <2>1, BecomeType, ThrowType DEF Survey, Errors, LockErrors, Fault, Artifacts
  <1> QED BY <1>1 DEF Survey, TypeOK, disk

LEMMA TrackReceiptType ==
    ASSUME TypeOK, NEW c \in Commands, TrackReceipt(c)
    PROVE  TypeOK'
  <1>1. op' \in [Commands -> Operations]
    <2>1. CASE \E e \in Errors : Throw(c, e)
      BY <2>1, ThrowType
    <2>2. CASE /\ Recorded
               /\ Become(c, [op[c] EXCEPT !.file["receipt"] = entry["receipt"],
                             !.author = content[entry["receipt"]].by,
                             !.pc = IF "hook" \in op[c].todo THEN "track_hook" ELSE "inactive"])
      <3>1. /\ entry["receipt"] \in Inodes
            /\ content[entry["receipt"]].by \in Commands \cup {Nobody}
        BY <2>2 DEF Recorded, Present, TypeOK, FixedNames, Artifacts, Contents
      <3>2. [op[c].file EXCEPT !["receipt"] = entry["receipt"]]
               \in [Artifacts -> Inodes \cup {NoInode}]
        BY <3>1 DEF TypeOK, Operations
      <3>3. [op[c] EXCEPT !.file["receipt"] = entry["receipt"],
                          !.author = content[entry["receipt"]].by,
                          !.pc = IF "hook" \in op[c].todo THEN "track_hook" ELSE "inactive"]
               \in Operations
        BY <3>1, <3>2, OpType, KnownLabels DEF Operations
      <3> QED BY <2>2, <3>3, BecomeType
    <2> QED BY <2>1, <2>2 DEF TrackReceipt, Errors, LockErrors, Fault
  <1> QED BY <1>1 DEF TrackReceipt, TypeOK, disk

LEMMA TrackHookType ==
    ASSUME TypeOK, NEW c \in Commands, TrackHook(c)
    PROVE  TypeOK'
  <1>1. op' \in [Commands -> Operations]
    <2>1. [op[c].file EXCEPT !["hook"] = entry["hook"]] \in [Artifacts -> Inodes \cup {NoInode}]
      BY DEF TypeOK, Operations, FixedNames, Artifacts
    <2>2. [op[c] EXCEPT !.pc = "guard_drop_hook", !.file["hook"] = entry["hook"]] \in Operations
      BY <2>1, OpType, KnownLabels DEF Operations
    <2> QED BY <2>2, BecomeType, ThrowType DEF TrackHook, Errors
  <1> QED BY <1>1 DEF TrackHook, TypeOK, disk

LEMMA GuardDropType ==
    ASSUME TypeOK, NEW c \in Commands, NEW f \in Artifacts, GuardDrop(c, f)
    PROVE  TypeOK'
  <1>1. op' \in [Commands -> Operations]
    BY GoType, ThrowType
    DEF GuardDrop, Artifacts, DropStep, Errors, LockErrors, Fault,
        Labels, Steps, LockedSteps, InstallSteps, RemoveSteps, CheckSteps
  <1> QED BY <1>1 DEF GuardDrop, TypeOK, disk

LEMMA DropInspectType ==
    ASSUME TypeOK, NEW c \in Commands, NEW f \in Artifacts, DropInspect(c, f)
    PROVE  TypeOK'
  <1>1. op' \in [Commands -> Operations]
    BY GoType, ThrowType DEF DropInspect, Inspect, Artifacts, DropUnlinkStep, DroppedStep,
        Errors, Labels, Steps, LockedSteps, RemoveSteps
  <1> QED BY <1>1 DEF DropInspect, Inspect, TypeOK, disk

LEMMA DropUnlinkType ==
    ASSUME TypeOK, NEW c \in Commands, NEW f \in Artifacts, DropUnlink(c, f)
    PROVE  TypeOK'
  <1>1. op' \in [Commands -> Operations]
    <2>1. DroppedStep[f] \in Labels
      BY DEF Artifacts, DroppedStep, Labels, Steps, LockedSteps, RemoveSteps
    <2>2. [[op[c] EXCEPT !.pc = DroppedStep[f]] EXCEPT !.changed = @ \cup {f}] \in Operations
      BY <2>1 DEF TypeOK, Operations
    <2>3. [[op[c] EXCEPT !.pc = "catch", !.err = "recovery"] EXCEPT !.changed = @ \cup {f}]
             \in Operations
      BY OpType, KnownLabels DEF Operations, Errors
    <2> QED BY <2>2, <2>3, BecomeType, ThrowType DEF DropUnlink, Unlink, Errors
  <1> QED BY <1>1 DEF DropUnlink, Unlink, TypeOK, FixedNames

LEMMA SettleDropType ==
    ASSUME TypeOK, NEW c \in Commands, NEW f \in Artifacts, SettleDrop(c, f)
    PROVE  TypeOK'
  <1>1. op' \in [Commands -> Operations]
    <2>1. [op[c] EXCEPT !.pc = IF f = "hook" THEN "inactive" ELSE "vacant",
                        !.settled = @ \cup {f}] \in Operations
      BY OpType, KnownLabels DEF Operations
    <2> QED BY <2>1, BecomeType, ThrowType DEF SettleDrop, Errors, LockErrors, Fault
  <1> QED BY <1>1 DEF SettleDrop, TypeOK, disk

LEMMA CheckInactiveType ==
    ASSUME TypeOK, NEW c \in Commands, CheckInactive(c)
    PROVE  TypeOK'
  <1>1. op' \in [Commands -> Operations]
    BY GoType, ThrowType
    DEF CheckInactive, Errors, LockErrors, Fault,
        Labels, Steps, LockedSteps, InstallSteps, RemoveSteps, CheckSteps
  <1> QED BY <1>1 DEF CheckInactive, TypeOK, disk

LEMMA CheckVacantType ==
    ASSUME TypeOK, NEW c \in Commands, CheckVacant(c)
    PROVE  TypeOK'
  <1>1. op' \in [Commands -> Operations]
    BY GoType, ThrowType
    DEF CheckVacant, Errors, LockErrors, Fault,
        Labels, Steps, LockedSteps, InstallSteps, RemoveSteps, CheckSteps
  <1> QED BY <1>1 DEF CheckVacant, TypeOK, disk

LEMMA CatchType ==
    ASSUME TypeOK, NEW c \in Commands, Catch(c)
    PROVE  TypeOK'
  <1>1. (IF ~Install(c) THEN NextCleanup(c)
        ELSE IF NeedsUnpublish(c) THEN "unpublish" ELSE "cleanup") \in Labels
    BY DEF NextCleanup, Labels, Steps, LockedSteps
  <1>2. op' \in [Commands -> Operations]
    BY <1>1, GoType DEF Catch
  <1> QED BY <1>2 DEF Catch, TypeOK, disk

LEMMA UnpublishedType ==
    ASSUME TypeOK, NEW c \in Commands, Unpublished(c) \/ NotUnpublished(c)
    PROVE  op' \in [Commands -> Operations]
  <1>1. [op[c] EXCEPT !.pc = "cleanup", !.changed = @ \ {"receipt"}] \in Operations
    BY OpType, KnownLabels DEF Operations
  <1>2. [op[c] EXCEPT !.pc = "cleanup", !.confirmed = FALSE] \in Operations
    BY OpType, KnownLabels DEF Operations
  <1> QED BY <1>1, <1>2, BecomeType DEF Unpublished, NotUnpublished

LEMMA UnpublishInspectType ==
    ASSUME TypeOK, NEW c \in Commands, UnpublishInspect(c)
    PROVE  TypeOK'
  <1>1. op' \in [Commands -> Operations]
    BY GoType, UnpublishedType DEF UnpublishInspect, Inspect, Labels, Steps, LockedSteps
  <1> QED BY <1>1 DEF UnpublishInspect, Inspect, TypeOK, disk

LEMMA UnpublishUnlinkType ==
    ASSUME TypeOK, NEW c \in Commands, UnpublishUnlink(c)
    PROVE  TypeOK'
  <1>1. op' \in [Commands -> Operations]
    BY UnpublishedType DEF UnpublishUnlink, Unlink, Labels
  <1> QED BY <1>1 DEF UnpublishUnlink, Unlink, TypeOK, FixedNames, Artifacts

LEMMA CleanupType ==
    ASSUME TypeOK, NEW c \in Commands, Cleanup(c)
    PROVE  TypeOK'
  <1>1. NextCleanup(c) \in Labels
    BY DEF NextCleanup, Labels, Steps, LockedSteps
  <1>2. op' \in [Commands -> Operations]
    <2>1. \A b \in BOOLEAN : [op[c] EXCEPT !.pc = NextCleanup(c), !.confirmed = b] \in Operations
      BY <1>1 DEF TypeOK, Operations
    <2>2. op[c].confirmed \in BOOLEAN
      BY DEF TypeOK, Operations
    <2> QED BY <2>1, <2>2, BecomeType DEF Cleanup
  <1>3. stage' \in [Commands -> [Artifacts -> Inodes \cup {NoInode}]]
    BY DEF Cleanup, TypeOK
  <1>4. staging' \in [Commands -> StagingStates]
    BY DEF Cleanup, TypeOK, StagingStates
  <1> QED BY <1>2, <1>3, <1>4 DEF Cleanup, TypeOK

LEMMA ReleasedType ==
    ASSUME TypeOK, NEW c \in Commands, NEW ok \in BOOLEAN, Released(c, ok)
    PROVE  op' \in [Commands -> Operations]
  <1>1. [op[c] EXCEPT !.pc = "report", !.lock = NoInode, !.confirmed = @ /\ ok] \in Operations
    BY OpType, KnownLabels DEF Operations
  <1> QED BY <1>1, BecomeType DEF Released

LEMMA ReleaseInspectType ==
    ASSUME TypeOK, NEW c \in Commands, ReleaseInspect(c)
    PROVE  TypeOK'
  <1>1. op' \in [Commands -> Operations]
    BY GoType, ReleasedType DEF ReleaseInspect, Labels, Steps, LockedSteps
  <1> QED BY <1>1 DEF ReleaseInspect, TypeOK, disk

LEMMA ReleaseUnlinkType ==
    ASSUME TypeOK, NEW c \in Commands, ReleaseUnlink(c)
    PROVE  TypeOK'
  <1>1. op' \in [Commands -> Operations]
    <2>1. [op[c] EXCEPT !.pc = "release_confirm", !.lock = NoInode] \in Operations
      BY OpType DEF Operations, Labels, Steps
    <2> QED BY <2>1, BecomeType, ReleasedType DEF ReleaseUnlink, Unlink
  <1> QED BY <1>1 DEF ReleaseUnlink, Unlink, TypeOK, FixedNames, Artifacts

LEMMA ReleaseConfirmType ==
    ASSUME TypeOK, NEW c \in Commands, ReleaseConfirm(c)
    PROVE  TypeOK'
  <1>1. op' \in [Commands -> Operations]
    BY ReleasedType DEF ReleaseConfirm
  <1> QED BY <1>1 DEF ReleaseConfirm, TypeOK, disk

LEMMA ReportOutcomeType ==
    ASSUME TypeOK, NEW c \in Commands, ReportOutcome(c)
    PROVE  TypeOK'
  <1>1. CASE \E res \in Results : Report(c, res)
    <2>1. op' \in [Commands -> Operations]
      BY <1>1, ReportType
    <2> QED BY <2>1 DEF ReportOutcome, TypeOK, disk
  <1>2. ~(op[c].err = "none" /\ op[c].confirmed) => Outcome(c) \in Results
    BY DEF Outcome, Results, TypeOK, Operations, Errors
  <1> QED BY <1>1, <1>2 DEF ReportOutcome, Results

LEMMA CancelType ==
    ASSUME TypeOK, NEW c \in Commands, Cancel(c)
    PROVE  TypeOK'
  <1>1. [op[c] EXCEPT !.aborted = TRUE] \in Operations
    BY DEF TypeOK, Operations
  <1>2. op' \in [Commands -> Operations]
    BY <1>1, BecomeType DEF Cancel
  <1> QED BY <1>2 DEF Cancel, TypeOK, disk

LEMMA CrashType ==
    ASSUME TypeOK, NEW c \in Commands, Crash(c)
    PROVE  TypeOK'
  <1>1. op' \in [Commands -> Operations]
    BY GoType DEF Crash, Labels
  <1> QED BY <1>1 DEF Crash, TypeOK, disk

LEMMA EnvStepType ==
    ASSUME TypeOK, EnvStep
    PROVE  TypeOK'
  <1>1. Foreign \in Contents
    BY DEF Foreign, Bytes, Contents
  <1>2. EnvNames \subseteq FixedNames /\ MaxEnv \in Nat
    BY TransactionAssumption
  <1>3. envLeft' \in 0..MaxEnv
    BY <1>2 DEF EnvStep, TypeOK
  <1>4. entry' \in [FixedNames -> Inodes \cup {NoInode}] /\ content' \in [Inodes -> Contents]
    BY <1>1, <1>2 DEF EnvStep, TypeOK, FreeInodes, Present
  <1> QED BY <1>3, <1>4 DEF EnvStep, TypeOK

LEMMA StepType ==
    ASSUME TypeOK, NEW c \in Commands, Step(c)
    PROVE  TypeOK'
  BY ObserveFirstType, CreateLockType, WriteLockType, AbandonLockType,
       CheckInstallableType, MakeStagingType, VerifyStagingType, ProbeType,
       AbortCheckType, RollbackInspectType, RollbackUnlinkType,
       RollbackCheckType, SurveyType, TrackReceiptType, TrackHookType,
       CheckInactiveType, CheckVacantType, CatchType, UnpublishInspectType,
       UnpublishUnlinkType, CleanupType, ReleaseInspectType, ReleaseUnlinkType, ReleaseConfirmType,
       ReportOutcomeType, CreateStageFileType, GuardPublishType, LinkType,
       InspectPublishType, ConfirmPublishType, UnstageType, SettlePublishType,
       GuardDropType, DropInspectType, DropUnlinkType, SettleDropType
  DEF Step

\* The variables of CodexHookTransaction keep their types, whatever fails.
THEOREM TypeCorrect == Spec => []TypeOK
  <1>1. Init => TypeOK
    BY FilesAssumption, TransactionAssumption
    DEF Init, TypeOK, Fresh, Foreign, Bytes, Contents, Operations, Labels, Steps,
        Errors, Results, StagingStates
  <1>2. TypeOK /\ [Next]_vars => TypeOK'
    <2>1. ASSUME TypeOK, UNCHANGED vars PROVE TypeOK'
      BY <2>1 DEF TypeOK, vars
    <2>2. ASSUME TypeOK, Next PROVE TypeOK'
      BY <2>2, EnvStepType, StepType, CancelType, CrashType DEF Next
    <2> QED BY <2>1, <2>2
  <1> QED BY <1>1, <1>2, PTL DEF Spec

-----------------------------------------------------------------------------
(***************************************************************************)
(* Mutual exclusion.  The invariant ties the lock file on disk to the      *)
(* commands that remember having created it.  A command that remembers a   *)
(* lock and still runs finds its own inode behind the name: creation needs *)
(* an absent name, so the two commands it relates can only be one, and     *)
(* nobody but the owner unlinks the name (the environment must not touch   *)
(* it).  The last part says where in its code a command has a lock at all. *)
(***************************************************************************)

HoldingSteps == InstallSteps \cup RemoveSteps \cup
    {"write_lock", "abandon_lock", "unpublish", "unpublish_unlink", "release", "release_unlink"}
EarlySteps == {"observe", "lock", "write_lock", "abandon_lock"}

HasItsLock(r) ==
    /\ r.pc \in HoldingSteps => r.lock # NoInode
    /\ r.pc = "catch" /\ r.settled # {} => r.lock # NoInode
    /\ r.pc \in EarlySteps => r.settled = {}

LockInv ==
    /\ \A c \in Commands : Owns(c) => entry["lock"] = op[c].lock
    /\ \A c, d \in Commands : Owns(c) /\ Owns(d) => c = d
    /\ \A c \in Commands : HasItsLock(op[c])

LEMMA LockInvSuffices == LockInv => LockExclusion
  <1>1. MutationSteps \subseteq HoldingSteps \ {"done", "crashed"}
    BY DEF MutationSteps, HoldingSteps, InstallSteps, RemoveSteps
  <1> QED BY <1>1 DEF LockInv, LockExclusion, HasItsLock, Owns, Running

\* The step of one command that leaves the lock file alone.
Others(c) == \A d \in Commands : d # c => op'[d] = op[d]

LEMMA BecomeFacts ==
    ASSUME TypeOK, NEW c \in Commands, NEW r, Become(c, r)
    PROVE  Others(c) /\ op'[c] = r
  BY DEF TypeOK, Become, Others

LEMMA GoFacts ==
    ASSUME TypeOK, NEW c \in Commands, NEW l, Go(c, l)
    PROVE  /\ Others(c)
           /\ op'[c].pc = l /\ op'[c].lock = op[c].lock /\ op'[c].settled = op[c].settled
  BY OpType, BecomeFacts DEF Go, Operations

LEMMA ReportFacts ==
    ASSUME TypeOK, NEW c \in Commands, NEW res, Report(c, res)
    PROVE  /\ Others(c)
           /\ op'[c].pc = "done" /\ op'[c].lock = op[c].lock /\ op'[c].settled = op[c].settled
  <1>1. Others(c) /\ op'[c] = [op[c] EXCEPT !.pc = "done", !.result = res]
    BY BecomeFacts DEF Report
  <1> QED BY <1>1, OpType DEF Operations

LEMMA ThrowFacts ==
    ASSUME TypeOK, NEW c \in Commands, NEW e, Throw(c, e)
    PROVE  /\ Others(c)
           /\ op'[c].pc = "catch" /\ op'[c].lock = op[c].lock /\ op'[c].settled = op[c].settled
  <1>1. Others(c) /\ op'[c] = [op[c] EXCEPT !.pc = "catch", !.err = e]
    BY BecomeFacts DEF Throw
  <1> QED BY <1>1, OpType DEF Operations

\* One command moves, forgets its lock or keeps it, and the name is untouched.
LEMMA QuietStep ==
    ASSUME TypeOK, LockInv, NEW c \in Commands, Running(c), Others(c),
           HasItsLock(op'[c]), op'[c].lock \in {op[c].lock, NoInode},
           entry'["lock"] = entry["lock"]
    PROVE  LockInv'
  <1>1. \A d \in Commands : Owns(d)' => Owns(d) /\ op'[d].lock = op[d].lock
    BY DEF Others, Owns, Running
  <1>2. \A d \in Commands : HasItsLock(op'[d])
    BY DEF Others, LockInv
  <1> QED BY <1>1, <1>2 DEF LockInv, HasItsLock

\* The special case of a command that holds its lock and goes on holding it.
KeepsLock(c) == /\ Others(c)
             /\ op[c].pc \in HoldingSteps
             /\ op'[c].lock = op[c].lock
             /\ op'[c].pc \notin EarlySteps
             /\ entry'["lock"] = entry["lock"]

LEMMA HoldingStep ==
    ASSUME TypeOK, LockInv, NEW c \in Commands, KeepsLock(c)
    PROVE  LockInv'
  <1>1. Running(c)
    BY DEF KeepsLock, HoldingSteps, InstallSteps, RemoveSteps, CheckSteps, Running
  <1>2. op[c].lock # NoInode
    BY DEF KeepsLock, LockInv, HasItsLock
  <1>3. HasItsLock(op'[c])
    BY <1>2 DEF KeepsLock, HasItsLock
  <1> QED BY <1>1, <1>3, QuietStep DEF KeepsLock

LEMMA CheckInstallableLock ==
    ASSUME TypeOK, LockInv, NEW c \in Commands, CheckInstallable(c)
    PROVE  LockInv'
  <1>1. KeepsLock(c)
    BY GoFacts, ThrowFacts
    DEF CheckInstallable, At, KeepsLock, disk,
        HoldingSteps, InstallSteps, RemoveSteps, CheckSteps, EarlySteps
  <1> QED BY <1>1, HoldingStep

LEMMA MakeStagingLock ==
    ASSUME TypeOK, LockInv, NEW c \in Commands, MakeStaging(c)
    PROVE  LockInv'
  <1>1. KeepsLock(c)
    BY GoFacts, ThrowFacts
    DEF MakeStaging, At, KeepsLock, disk,
        HoldingSteps, InstallSteps, RemoveSteps, CheckSteps, EarlySteps
  <1> QED BY <1>1, HoldingStep

LEMMA VerifyStagingLock ==
    ASSUME TypeOK, LockInv, NEW c \in Commands, VerifyStaging(c)
    PROVE  LockInv'
  <1>1. /\ [op[c] EXCEPT !.pc = "stage_receipt", !.tracked = TRUE, !.author = c].lock = op[c].lock
      /\ [op[c] EXCEPT !.pc = "stage_receipt", !.tracked = TRUE, !.author = c].pc \notin EarlySteps
    BY OpType DEF Operations, EarlySteps
  <1>2. Others(c) /\ op'[c].lock = op[c].lock /\ op'[c].pc \notin EarlySteps
    BY <1>1, BecomeFacts, ThrowFacts DEF VerifyStaging, EarlySteps
  <1>3. op[c].pc \in HoldingSteps /\ entry'["lock"] = entry["lock"]
    BY DEF VerifyStaging, At, disk,
        HoldingSteps, InstallSteps, RemoveSteps
  <1> QED BY <1>2, <1>3, HoldingStep DEF KeepsLock

LEMMA CreateStageFileLock ==
    ASSUME TypeOK, LockInv, NEW c \in Commands, NEW f \in Artifacts, CreateStageFile(c, f)
    PROVE  LockInv'
  <1>1. Others(c) /\ op'[c].lock = op[c].lock /\ op'[c].pc \notin EarlySteps
    <2>1. CASE \E e \in Errors : Throw(c, e)
      BY <2>1, ThrowFacts DEF EarlySteps
    <2>2. CASE \E i \in Inodes :
                 Become(c, [op[c] EXCEPT !.pc = IF f = "receipt" THEN "stage_hook" ELSE "probe",
                                         !.file[f] = i, !.todo = @ \cup {f}])
      <3>1. PICK i \in Inodes :
              /\ Others(c)
              /\ op'[c] = [op[c] EXCEPT !.pc = IF f = "receipt" THEN "stage_hook" ELSE "probe",
                                        !.file[f] = i, !.todo = @ \cup {f}]
        BY <2>2, BecomeFacts
      <3> QED BY <3>1, OpType DEF Operations, EarlySteps
    <2> QED BY <2>1, <2>2 DEF CreateStageFile, Errors, FreeInodes
  <1>2. op[c].pc \in HoldingSteps
    <2>1. op[c].pc \in {"stage_receipt", "stage_hook"}
      <3>1. op[c].pc = StageStep[f]
        BY DEF CreateStageFile, At
      <3> QED BY <3>1 DEF StageStep, Artifacts
    <2> QED BY <2>1 DEF HoldingSteps, InstallSteps
  <1>3. entry'["lock"] = entry["lock"]
    BY DEF CreateStageFile
  <1> QED BY <1>1, <1>2, <1>3, HoldingStep DEF KeepsLock

LEMMA ProbeLock ==
    ASSUME TypeOK, LockInv, NEW c \in Commands, Probe(c)
    PROVE  LockInv'
  <1>1. KeepsLock(c)
    BY GoFacts, ThrowFacts
    DEF Probe, At, KeepsLock, disk,
        HoldingSteps, InstallSteps, RemoveSteps, CheckSteps, EarlySteps
  <1> QED BY <1>1, HoldingStep

LEMMA GuardPublishLock ==
    ASSUME TypeOK, LockInv, NEW c \in Commands, NEW f \in Artifacts, GuardPublish(c, f)
    PROVE  LockInv'
  <1>1. KeepsLock(c)
    BY GoFacts, ThrowFacts
    DEF GuardPublish, At, KeepsLock, disk, GuardStep, LinkStep, Artifacts,
        HoldingSteps, InstallSteps, RemoveSteps, CheckSteps, EarlySteps
  <1> QED BY <1>1, HoldingStep

LEMMA LinkLock ==
    ASSUME TypeOK, LockInv, NEW c \in Commands, NEW f \in Artifacts, Link(c, f)
    PROVE  LockInv'
  <1>1. Others(c) /\ op'[c].lock = op[c].lock /\ op'[c].pc \notin EarlySteps
    <2>1. CASE \E l \in {ConfirmStep[f], InspectStep[f]} :
                 Become(c, [op[c] EXCEPT !.pc = l, !.changed = @ \cup {f}])
      <3>1. PICK l \in {ConfirmStep[f], InspectStep[f]} :
              Others(c) /\ op'[c] = [op[c] EXCEPT !.pc = l, !.changed = @ \cup {f}]
        BY <2>1, BecomeFacts
      <3>2. l \notin EarlySteps
        BY <3>1 DEF ConfirmStep, InspectStep, Artifacts, EarlySteps
      <3> QED BY <3>1, <3>2, OpType DEF Operations
    <2>2. CASE Go(c, InspectStep[f])
      BY <2>2, GoFacts DEF InspectStep, Artifacts, EarlySteps
    <2> QED BY <2>1, <2>2 DEF Link
  <1>2. op[c].pc \in HoldingSteps
    <2>1. op[c].pc \in {"link_receipt", "link_hook"}
      <3>1. op[c].pc = LinkStep[f]
        BY DEF Link, At
      <3> QED BY <3>1 DEF LinkStep, Artifacts
    <2> QED BY <2>1 DEF HoldingSteps, InstallSteps
  <1>3. entry'["lock"] = entry["lock"]
    BY DEF Link, TypeOK, FixedNames, Artifacts
  <1> QED BY <1>1, <1>2, <1>3, HoldingStep DEF KeepsLock

LEMMA InspectPublishLock ==
    ASSUME TypeOK, LockInv, NEW c \in Commands, NEW f \in Artifacts, InspectPublish(c, f)
    PROVE  LockInv'
  <1>1. KeepsLock(c)
    BY GoFacts, ThrowFacts
    DEF InspectPublish, At, KeepsLock, disk, InspectStep, ConfirmStep, Artifacts,
        HoldingSteps, InstallSteps, RemoveSteps, CheckSteps, EarlySteps
  <1> QED BY <1>1, HoldingStep

LEMMA ConfirmPublishLock ==
    ASSUME TypeOK, LockInv, NEW c \in Commands, NEW f \in Artifacts, ConfirmPublish(c, f)
    PROVE  LockInv'
  <1>1. KeepsLock(c)
    BY GoFacts, ThrowFacts
    DEF ConfirmPublish, At, KeepsLock, disk, ConfirmStep, UnstageStep, Artifacts,
        HoldingSteps, InstallSteps, RemoveSteps, CheckSteps, EarlySteps
  <1> QED BY <1>1, HoldingStep

LEMMA UnstageLock ==
    ASSUME TypeOK, LockInv, NEW c \in Commands, NEW f \in Artifacts, Unstage(c, f)
    PROVE  LockInv'
  <1>1. KeepsLock(c)
    BY GoFacts, ThrowFacts
    DEF Unstage, At, KeepsLock, disk, UnstageStep, SettleStep, Artifacts,
        HoldingSteps, InstallSteps, RemoveSteps, CheckSteps, EarlySteps
  <1> QED BY <1>1, HoldingStep

LEMMA SettlePublishLock ==
    ASSUME TypeOK, LockInv, NEW c \in Commands, NEW f \in Artifacts, SettlePublish(c, f)
    PROVE  LockInv'
  <1>1. /\ [op[c] EXCEPT !.pc = AfterSettle[f], !.settled = @ \cup {f}, !.todo = @ \ {f}].lock = op[c].lock
      /\ [op[c] EXCEPT !.pc = AfterSettle[f], !.settled = @ \cup {f}, !.todo = @ \ {f}].pc \notin EarlySteps
    BY OpType DEF Operations, EarlySteps, AfterSettle, Artifacts
  <1>2. Others(c) /\ op'[c].lock = op[c].lock /\ op'[c].pc \notin EarlySteps
    BY <1>1, BecomeFacts, ThrowFacts DEF SettlePublish, EarlySteps
  <1>3. op[c].pc \in HoldingSteps /\ entry'["lock"] = entry["lock"]
    BY DEF SettlePublish, At, disk, SettleStep, Artifacts,
        HoldingSteps, InstallSteps, RemoveSteps
  <1> QED BY <1>2, <1>3, HoldingStep DEF KeepsLock

LEMMA AbortCheckLock ==
    ASSUME TypeOK, LockInv, NEW c \in Commands, AbortCheck(c)
    PROVE  LockInv'
  <1>1. KeepsLock(c)
    BY GoFacts, ThrowFacts
    DEF AbortCheck, At, KeepsLock, disk,
        HoldingSteps, InstallSteps, RemoveSteps, CheckSteps, EarlySteps
  <1> QED BY <1>1, HoldingStep

LEMMA RolledBackFacts ==
    ASSUME TypeOK, NEW c \in Commands, NEW e, RolledBack(c, e)
    PROVE  Others(c) /\ op'[c].lock = op[c].lock /\ op'[c].pc \notin EarlySteps
  <1>1. CASE e = "none"
    <2>1. /\ Others(c)
          /\ op'[c] = [op[c] EXCEPT !.pc = "rolled_back", !.settled = {},
                                    !.changed = @ \ {"receipt"}]
      BY <1>1, BecomeFacts DEF RolledBack
    <2> QED BY <2>1, OpType DEF Operations, EarlySteps
  <1>2. CASE e # "none"
    <2>1. Others(c) /\ op'[c] = [op[c] EXCEPT !.pc = "catch", !.settled = {}, !.err = e]
      BY <1>2, BecomeFacts DEF RolledBack
    <2> QED BY <2>1, OpType DEF Operations, EarlySteps
  <1> QED BY <1>1, <1>2

LEMMA UnpublishedFacts ==
    ASSUME TypeOK, NEW c \in Commands, Unpublished(c) \/ NotUnpublished(c)
    PROVE  Others(c) /\ op'[c].lock = op[c].lock /\ op'[c].pc \notin EarlySteps
  <1>1. CASE Unpublished(c)
    <2>1. Others(c) /\ op'[c] = [op[c] EXCEPT !.pc = "cleanup", !.changed = @ \ {"receipt"}]
      BY <1>1, BecomeFacts DEF Unpublished
    <2> QED BY <2>1, OpType DEF Operations, EarlySteps
  <1>2. CASE NotUnpublished(c)
    <2>1. Others(c) /\ op'[c] = [op[c] EXCEPT !.pc = "cleanup", !.confirmed = FALSE]
      BY <1>2, BecomeFacts DEF NotUnpublished
    <2> QED BY <2>1, OpType DEF Operations, EarlySteps
  <1> QED BY <1>1, <1>2

LEMMA RollbackInspectLock ==
    ASSUME TypeOK, LockInv, NEW c \in Commands, RollbackInspect(c)
    PROVE  LockInv'
  <1>1. KeepsLock(c)
    BY RolledBackFacts, GoFacts
    DEF RollbackInspect, At, KeepsLock, disk, Inspect,
        HoldingSteps, InstallSteps, RemoveSteps, CheckSteps, EarlySteps
  <1> QED BY <1>1, HoldingStep

LEMMA RollbackUnlinkLock ==
    ASSUME TypeOK, LockInv, NEW c \in Commands, RollbackUnlink(c)
    PROVE  LockInv'
  <1>1. KeepsLock(c)
    BY RolledBackFacts
    DEF RollbackUnlink, At, KeepsLock, disk, Unlink, TypeOK, FixedNames, Artifacts,
        HoldingSteps, InstallSteps, RemoveSteps, CheckSteps, EarlySteps
  <1> QED BY <1>1, HoldingStep

LEMMA RollbackCheckLock ==
    ASSUME TypeOK, LockInv, NEW c \in Commands, RollbackCheck(c)
    PROVE  LockInv'
  <1>1. KeepsLock(c)
    BY GoFacts, ThrowFacts
    DEF RollbackCheck, At, KeepsLock, disk,
        HoldingSteps, InstallSteps, RemoveSteps, CheckSteps, EarlySteps
  <1> QED BY <1>1, HoldingStep

LEMMA SurveyLock ==
    ASSUME TypeOK, LockInv, NEW c \in Commands, Survey(c)
    PROVE  LockInv'
  <1>1. Others(c) /\ op'[c].lock = op[c].lock /\ op'[c].pc \notin EarlySteps
    <2>1. CASE \E e \in Errors : Throw(c, e)
      BY <2>1, ThrowFacts DEF EarlySteps
    <2>2. CASE \E t \in SUBSET Artifacts :
                 Become(c, [op[c] EXCEPT !.pc = "track_receipt", !.todo = t])
      <3>1. PICK t \in SUBSET Artifacts :
              Others(c) /\ op'[c] = [op[c] EXCEPT !.pc = "track_receipt", !.todo = t]
        BY <2>2, BecomeFacts
      <3> QED BY <3>1, OpType DEF Operations, EarlySteps
    <2> QED BY <2>1, <2>2 DEF Survey, Errors, LockErrors, Fault, Artifacts
  <1>2. op[c].pc \in HoldingSteps /\ entry'["lock"] = entry["lock"]
    BY DEF Survey, At, disk, HoldingSteps, RemoveSteps
  <1> QED BY <1>1, <1>2, HoldingStep DEF KeepsLock

LEMMA TrackReceiptLock ==
    ASSUME TypeOK, LockInv, NEW c \in Commands, TrackReceipt(c)
    PROVE  LockInv'
  <1>1. /\ [op[c] EXCEPT !.file["receipt"] = entry["receipt"],
                       !.author = content[entry["receipt"]].by,
                       !.pc = IF "hook" \in op[c].todo THEN "track_hook" ELSE "inactive"].lock = op[c].lock
      /\ [op[c] EXCEPT !.file["receipt"] = entry["receipt"],
                       !.author = content[entry["receipt"]].by,
                       !.pc = IF "hook" \in op[c].todo THEN "track_hook" ELSE "inactive"].pc \notin EarlySteps
    BY OpType DEF Operations, EarlySteps
  <1>2. Others(c) /\ op'[c].lock = op[c].lock /\ op'[c].pc \notin EarlySteps
    BY <1>1, BecomeFacts, ThrowFacts DEF TrackReceipt, EarlySteps
  <1>3. op[c].pc \in HoldingSteps /\ entry'["lock"] = entry["lock"]
    BY DEF TrackReceipt, At, disk,
        HoldingSteps, InstallSteps, RemoveSteps
  <1> QED BY <1>2, <1>3, HoldingStep DEF KeepsLock

LEMMA TrackHookLock ==
    ASSUME TypeOK, LockInv, NEW c \in Commands, TrackHook(c)
    PROVE  LockInv'
  <1>1. /\ [op[c] EXCEPT !.pc = "guard_drop_hook", !.file["hook"] = entry["hook"]].lock = op[c].lock
      /\ [op[c] EXCEPT !.pc = "guard_drop_hook", !.file["hook"] = entry["hook"]].pc \notin EarlySteps
    BY OpType DEF Operations, EarlySteps
  <1>2. Others(c) /\ op'[c].lock = op[c].lock /\ op'[c].pc \notin EarlySteps
    BY <1>1, BecomeFacts, ThrowFacts DEF TrackHook, EarlySteps
  <1>3. op[c].pc \in HoldingSteps /\ entry'["lock"] = entry["lock"]
    BY DEF TrackHook, At, disk,
        HoldingSteps, InstallSteps, RemoveSteps
  <1> QED BY <1>2, <1>3, HoldingStep DEF KeepsLock

LEMMA GuardDropLock ==
    ASSUME TypeOK, LockInv, NEW c \in Commands, NEW f \in Artifacts, GuardDrop(c, f)
    PROVE  LockInv'
  <1>1. KeepsLock(c)
    BY GoFacts, ThrowFacts
    DEF GuardDrop, At, KeepsLock, disk, GuardDropStep, DropStep, Artifacts,
        HoldingSteps, InstallSteps, RemoveSteps, CheckSteps, EarlySteps
  <1> QED BY <1>1, HoldingStep

LEMMA DropInspectLock ==
    ASSUME TypeOK, LockInv, NEW c \in Commands, NEW f \in Artifacts, DropInspect(c, f)
    PROVE  LockInv'
  <1>1. KeepsLock(c)
    BY GoFacts, ThrowFacts
    DEF DropInspect, At, KeepsLock, disk, Inspect, DropStep, DropUnlinkStep, DroppedStep, Artifacts,
        HoldingSteps, InstallSteps, RemoveSteps, CheckSteps, EarlySteps
  <1> QED BY <1>1, HoldingStep

LEMMA DropUnlinkFacts ==
    ASSUME TypeOK, NEW c \in Commands, NEW f \in Artifacts, DropUnlink(c, f)
    PROVE  Others(c) /\ op'[c].lock = op[c].lock /\ op'[c].pc \notin EarlySteps
  <1>1. CASE Become(c, [[op[c] EXCEPT !.pc = DroppedStep[f]] EXCEPT !.changed = @ \cup {f}])
    <2>1. /\ Others(c)
          /\ op'[c] = [[op[c] EXCEPT !.pc = DroppedStep[f]] EXCEPT !.changed = @ \cup {f}]
      BY <1>1, BecomeFacts
    <2>2. DroppedStep[f] \notin EarlySteps
      BY DEF DroppedStep, Artifacts, EarlySteps
    <2> QED BY <2>1, <2>2, OpType DEF Operations
  <1>2. CASE Become(c, [[op[c] EXCEPT !.pc = "catch", !.err = "recovery"]
                          EXCEPT !.changed = @ \cup {f}])
    <2>1. /\ Others(c)
          /\ op'[c] = [[op[c] EXCEPT !.pc = "catch", !.err = "recovery"]
                         EXCEPT !.changed = @ \cup {f}]
      BY <1>2, BecomeFacts
    <2> QED BY <2>1, OpType DEF Operations, EarlySteps
  <1>3. CASE Throw(c, "recovery")
    BY <1>3, ThrowFacts DEF EarlySteps
  <1> QED BY <1>1, <1>2, <1>3 DEF DropUnlink, Unlink

LEMMA DropUnlinkLock ==
    ASSUME TypeOK, LockInv, NEW c \in Commands, NEW f \in Artifacts, DropUnlink(c, f)
    PROVE  LockInv'
  <1>1. op[c].pc \in HoldingSteps
    BY DEF DropUnlink, At, DropUnlinkStep, Artifacts, HoldingSteps, RemoveSteps
  <1>2. entry'["lock"] = entry["lock"]
    BY DEF DropUnlink, Unlink, TypeOK, FixedNames, Artifacts
  <1> QED BY <1>1, <1>2, DropUnlinkFacts, HoldingStep DEF KeepsLock

LEMMA SettleDropLock ==
    ASSUME TypeOK, LockInv, NEW c \in Commands, NEW f \in Artifacts, SettleDrop(c, f)
    PROVE  LockInv'
  <1>1. /\ [op[c] EXCEPT !.pc = IF f = "hook" THEN "inactive" ELSE "vacant", !.settled = @ \cup {f}].lock = op[c].lock
      /\ [op[c] EXCEPT !.pc = IF f = "hook" THEN "inactive" ELSE "vacant", !.settled = @ \cup {f}].pc \notin EarlySteps
    BY OpType DEF Operations, EarlySteps
  <1>2. Others(c) /\ op'[c].lock = op[c].lock /\ op'[c].pc \notin EarlySteps
    BY <1>1, BecomeFacts, ThrowFacts DEF SettleDrop, EarlySteps
  <1>3. op[c].pc \in HoldingSteps /\ entry'["lock"] = entry["lock"]
    BY DEF SettleDrop, At, disk, DroppedStep, Artifacts,
        HoldingSteps, InstallSteps, RemoveSteps
  <1> QED BY <1>2, <1>3, HoldingStep DEF KeepsLock

LEMMA CheckInactiveLock ==
    ASSUME TypeOK, LockInv, NEW c \in Commands, CheckInactive(c)
    PROVE  LockInv'
  <1>1. KeepsLock(c)
    BY GoFacts, ThrowFacts
    DEF CheckInactive, At, KeepsLock, disk,
        HoldingSteps, InstallSteps, RemoveSteps, CheckSteps, EarlySteps
  <1> QED BY <1>1, HoldingStep

LEMMA CheckVacantLock ==
    ASSUME TypeOK, LockInv, NEW c \in Commands, CheckVacant(c)
    PROVE  LockInv'
  <1>1. KeepsLock(c)
    BY GoFacts, ThrowFacts
    DEF CheckVacant, At, KeepsLock, disk,
        HoldingSteps, InstallSteps, RemoveSteps, CheckSteps, EarlySteps
  <1> QED BY <1>1, HoldingStep

LEMMA UnpublishInspectLock ==
    ASSUME TypeOK, LockInv, NEW c \in Commands, UnpublishInspect(c)
    PROVE  LockInv'
  <1>1. KeepsLock(c)
    BY UnpublishedFacts, GoFacts
    DEF UnpublishInspect, At, KeepsLock, disk, Inspect,
        HoldingSteps, InstallSteps, RemoveSteps, CheckSteps, EarlySteps
  <1> QED BY <1>1, HoldingStep

LEMMA UnpublishUnlinkLock ==
    ASSUME TypeOK, LockInv, NEW c \in Commands, UnpublishUnlink(c)
    PROVE  LockInv'
  <1>1. KeepsLock(c)
    BY UnpublishedFacts
    DEF UnpublishUnlink, At, KeepsLock, disk, Unlink, TypeOK, FixedNames, Artifacts,
        HoldingSteps, InstallSteps, RemoveSteps, CheckSteps, EarlySteps
  <1> QED BY <1>1, HoldingStep

LEMMA ObserveFirstLock ==
    ASSUME TypeOK, LockInv, NEW c \in Commands, ObserveFirst(c)
    PROVE  LockInv'
  <1>1. Running(c)
    BY DEF ObserveFirst, At, Running
  <1>2. Others(c) /\ op'[c].lock = op[c].lock /\ op'[c].settled = op[c].settled
        /\ op'[c].pc \in {"lock", "done"}
    BY GoFacts, ReportFacts DEF ObserveFirst
  <1>3. HasItsLock(op'[c])
    BY <1>2 DEF ObserveFirst, At, LockInv, HasItsLock, HoldingSteps, EarlySteps,
                InstallSteps, RemoveSteps, CheckSteps
  <1> QED BY <1>1, <1>2, <1>3, QuietStep DEF ObserveFirst, disk

LEMMA CreateLockLock ==
    ASSUME TypeOK, LockInv, NEW c \in Commands, CreateLock(c)
    PROVE  LockInv'
  <1>1. CASE \E e \in Errors : Throw(c, e) /\ UNCHANGED entry
    <2>1. Running(c) /\ op[c].settled = {}
      BY DEF CreateLock, At, Running, LockInv, HasItsLock, EarlySteps
    <2>2. Others(c) /\ op'[c].pc = "catch" /\ op'[c].lock = op[c].lock /\ op'[c].settled = {}
      BY <1>1, <2>1, ThrowFacts
    <2>3. HasItsLock(op'[c])
      BY <2>2 DEF HasItsLock, HoldingSteps, EarlySteps, InstallSteps, RemoveSteps, CheckSteps
    <2> QED BY <1>1, <2>1, <2>2, <2>3, QuietStep
  <1>2. CASE \E i \in Inodes :
               /\ entry["lock"] = NoInode
               /\ entry' = [entry EXCEPT !["lock"] = i]
               /\ Become(c, [op[c] EXCEPT !.pc = "write_lock", !.lock = i])
    <2>1. PICK i \in Inodes :
               /\ entry["lock"] = NoInode
               /\ entry' = [entry EXCEPT !["lock"] = i]
               /\ Become(c, [op[c] EXCEPT !.pc = "write_lock", !.lock = i])
      BY <1>2
    <2>2. /\ Others(c) /\ op'[c].pc = "write_lock" /\ op'[c].lock = i
          /\ op'[c].settled = op[c].settled
      <3>1. Others(c) /\ op'[c] = [op[c] EXCEPT !.pc = "write_lock", !.lock = i]
        BY <2>1, BecomeFacts
      <3> QED BY <3>1, OpType DEF Operations
    \* Nobody owned the lock: its name would have been occupied.
    <2>3. \A d \in Commands : ~Owns(d)
      BY <2>1 DEF LockInv, Owns
    <2>4. \A d \in Commands : Owns(d)' => d = c
      BY <2>2, <2>3 DEF Others, Owns, Running
    <2>5. entry'["lock"] = i /\ i # NoInode
      BY <2>1, FilesAssumption DEF TypeOK, FixedNames
    <2>6. HasItsLock(op'[c])
      BY <2>2, <2>5 DEF CreateLock, At, LockInv, HasItsLock, EarlySteps
    <2>7. \A d \in Commands : HasItsLock(op'[d])
      BY <2>2, <2>6 DEF Others, LockInv
    <2> QED BY <2>2, <2>4, <2>5, <2>7 DEF LockInv, HasItsLock
  <1> QED BY <1>1, <1>2 DEF CreateLock, LockFree, Present, Errors, FreeInodes

LEMMA WriteLockLock ==
    ASSUME TypeOK, LockInv, NEW c \in Commands, WriteLock(c)
    PROVE  LockInv'
  <1>1. Running(c) /\ op[c].lock # NoInode /\ op[c].settled = {}
    BY DEF WriteLock, At, Running, LockInv, HasItsLock, EarlySteps, HoldingSteps
  <1>2. Others(c) /\ op'[c].lock = op[c].lock /\ op'[c].settled = op[c].settled
    BY GoFacts DEF WriteLock
  <1> QED BY <1>1, <1>2, QuietStep DEF WriteLock, HasItsLock

LEMMA AbandonLockLock ==
    ASSUME TypeOK, LockInv, NEW c \in Commands, AbandonLock(c)
    PROVE  LockInv'
  <1>1. Running(c) /\ Owns(c) /\ op[c].settled = {}
    BY DEF AbandonLock, At, Running, Owns, LockInv, HasItsLock, EarlySteps, HoldingSteps
  <1>2. Others(c) /\ op'[c].pc = "catch" /\ op'[c].lock = NoInode /\ op'[c].settled = {}
    <2>1. /\ Others(c)
          /\ \E e \in Errors : op'[c] = [op[c] EXCEPT !.pc = "catch", !.err = e, !.lock = NoInode]
      BY BecomeFacts DEF AbandonLock, Errors
    <2> QED BY <1>1, <2>1, OpType DEF Operations
  <1>3. HasItsLock(op'[c])
    BY <1>2 DEF HasItsLock, HoldingSteps, EarlySteps, InstallSteps, RemoveSteps, CheckSteps
  <1>4. \A d \in Commands : ~Owns(d)'
    BY <1>1, <1>2 DEF Others, Owns, Running, LockInv
  <1>5. \A d \in Commands : HasItsLock(op'[d])
    BY <1>2, <1>3 DEF Others, LockInv
  <1> QED BY <1>4, <1>5 DEF LockInv, HasItsLock

LEMMA CatchLock ==
    ASSUME TypeOK, LockInv, NEW c \in Commands, Catch(c)
    PROVE  LockInv'
  <1>1. Running(c)
    BY DEF Catch, At, Running
  <1>2. Others(c) /\ op'[c].lock = op[c].lock
    BY GoFacts DEF Catch
  <1>3. op'[c].pc \in {"unpublish", "cleanup", "release", "report"}
    BY GoFacts DEF Catch, NextCleanup
  <1>4. op'[c].pc \in {"unpublish", "release"} => op[c].lock # NoInode
    BY GoFacts DEF Catch, NextCleanup, NeedsUnpublish, At, LockInv, HasItsLock
  <1>5. HasItsLock(op'[c])
    BY <1>2, <1>3, <1>4 DEF HasItsLock, HoldingSteps, EarlySteps,
                           InstallSteps, RemoveSteps, CheckSteps
  <1> QED BY <1>1, <1>2, <1>5, QuietStep DEF Catch, disk

LEMMA CleanupLock ==
    ASSUME TypeOK, LockInv, NEW c \in Commands, Cleanup(c)
    PROVE  LockInv'
  <1>1. Running(c)
    BY DEF Cleanup, At, Running
  <1>2. Others(c) /\ op'[c].lock = op[c].lock /\ op'[c].pc = NextCleanup(c)
    <2>1. /\ Others(c)
          /\ \E b : op'[c] = [op[c] EXCEPT !.pc = NextCleanup(c), !.confirmed = b]
      BY BecomeFacts DEF Cleanup
    <2> QED BY <2>1, OpType DEF Operations
  <1>3. HasItsLock(op'[c])
    BY <1>2 DEF NextCleanup, HasItsLock, HoldingSteps, EarlySteps,
                InstallSteps, RemoveSteps, CheckSteps
  <1> QED BY <1>1, <1>2, <1>3, QuietStep DEF Cleanup

LEMMA ReleasedFacts ==
    ASSUME TypeOK, NEW c \in Commands, NEW ok, Released(c, ok)
    PROVE  Others(c) /\ op'[c].lock = NoInode /\ HasItsLock(op'[c])
  <1>1. Others(c) /\ op'[c].lock = NoInode /\ op'[c].pc = "report"
    <2>1. /\ Others(c)
          /\ op'[c] = [op[c] EXCEPT !.pc = "report", !.lock = NoInode, !.confirmed = @ /\ ok]
      BY BecomeFacts DEF Released
    <2> QED BY <2>1, OpType DEF Operations
  <1> QED BY <1>1 DEF HasItsLock, HoldingSteps, EarlySteps, InstallSteps, RemoveSteps, CheckSteps

LEMMA ReleaseInspectLock ==
    ASSUME TypeOK, LockInv, NEW c \in Commands, ReleaseInspect(c)
    PROVE  LockInv'
  <1>1. CASE Go(c, "release_unlink")
    <2>1. KeepsLock(c)
      BY <1>1, GoFacts DEF ReleaseInspect, At, KeepsLock, disk, HoldingSteps, EarlySteps
    <2> QED BY <2>1, HoldingStep
  <1>2. CASE Released(c, FALSE)
    <2>1. Running(c)
      BY DEF ReleaseInspect, At, Running
    <2> QED BY <1>2, <2>1, ReleasedFacts, QuietStep DEF ReleaseInspect, disk
  <1> QED BY <1>1, <1>2 DEF ReleaseInspect

LEMMA ReleaseUnlinkLock ==
    ASSUME TypeOK, LockInv, NEW c \in Commands, ReleaseUnlink(c)
    PROVE  LockInv'
  <1>1. Owns(c)
    BY DEF ReleaseUnlink, At, Owns, Running, LockInv, HasItsLock, HoldingSteps
  <1>2. Others(c) /\ op'[c].lock = NoInode /\ HasItsLock(op'[c])
    <2>1. CASE \E ok \in BOOLEAN : Released(c, ok)
      BY <2>1, ReleasedFacts
    <2>2. CASE Become(c, [op[c] EXCEPT !.pc = "release_confirm", !.lock = NoInode])
      <3>1. Others(c) /\ op'[c] = [op[c] EXCEPT !.pc = "release_confirm", !.lock = NoInode]
        BY <2>2, BecomeFacts
      <3>2. op'[c].lock = NoInode /\ op'[c].pc = "release_confirm"
        BY <3>1, OpType DEF Operations
      <3> QED BY <3>1, <3>2 DEF HasItsLock, HoldingSteps, EarlySteps, InstallSteps, RemoveSteps, CheckSteps
    <2> QED BY <2>1, <2>2 DEF ReleaseUnlink, Unlink
  \* The owner was the only one: nobody is left that relies on the name.
  <1>3. \A d \in Commands : ~Owns(d)'
    BY <1>1, <1>2 DEF Others, Owns, Running, LockInv
  <1>4. \A d \in Commands : HasItsLock(op'[d])
    BY <1>2 DEF Others, LockInv
  <1> QED BY <1>3, <1>4 DEF LockInv, HasItsLock

LEMMA ReleaseConfirmLock ==
    ASSUME TypeOK, LockInv, NEW c \in Commands, ReleaseConfirm(c)
    PROVE  LockInv'
  <1>1. Running(c)
    BY DEF ReleaseConfirm, At, Running
  <1> QED BY <1>1, ReleasedFacts, QuietStep DEF ReleaseConfirm, disk

LEMMA ReportOutcomeLock ==
    ASSUME TypeOK, LockInv, NEW c \in Commands, ReportOutcome(c)
    PROVE  LockInv'
  <1>1. Running(c)
    BY DEF ReportOutcome, At, Running
  <1>2. Others(c) /\ op'[c].lock = op[c].lock /\ op'[c].pc = "done"
    BY ReportFacts DEF ReportOutcome
  <1>3. HasItsLock(op'[c])
    BY <1>2 DEF HasItsLock, HoldingSteps, EarlySteps, InstallSteps, RemoveSteps, CheckSteps
  <1> QED BY <1>1, <1>2, <1>3, QuietStep DEF ReportOutcome, disk

LEMMA CancelLock ==
    ASSUME TypeOK, LockInv, NEW c \in Commands, Cancel(c)
    PROVE  LockInv'
  <1>1. Running(c)
    BY DEF Cancel
  <1>2. /\ Others(c) /\ op'[c].pc = op[c].pc
        /\ op'[c].lock = op[c].lock /\ op'[c].settled = op[c].settled
    BY OpType, BecomeFacts DEF Cancel, Operations
  <1>3. HasItsLock(op'[c])
    BY <1>2 DEF LockInv, HasItsLock
  <1> QED BY <1>1, <1>2, <1>3, QuietStep DEF Cancel, disk

LEMMA CrashLock ==
    ASSUME TypeOK, LockInv, NEW c \in Commands, Crash(c)
    PROVE  LockInv'
  <1>1. Running(c)
    BY DEF Crash
  <1>2. Others(c) /\ op'[c].lock = op[c].lock /\ op'[c].pc = "crashed"
    BY GoFacts DEF Crash
  <1>3. HasItsLock(op'[c])
    BY <1>2 DEF HasItsLock, HoldingSteps, EarlySteps, InstallSteps, RemoveSteps, CheckSteps
  <1> QED BY <1>1, <1>2, <1>3, QuietStep DEF Crash, disk

LEMMA StepLock ==
    ASSUME TypeOK, LockInv, NEW c \in Commands, Step(c)
    PROVE  LockInv'
  BY CheckInstallableLock, MakeStagingLock, VerifyStagingLock,
       CreateStageFileLock, ProbeLock, GuardPublishLock, LinkLock,
       InspectPublishLock, ConfirmPublishLock, UnstageLock, SettlePublishLock,
       AbortCheckLock, RollbackInspectLock, RollbackUnlinkLock,
       RollbackCheckLock, SurveyLock, TrackReceiptLock, TrackHookLock,
       GuardDropLock, DropInspectLock, DropUnlinkLock, SettleDropLock,
       CheckInactiveLock, CheckVacantLock, UnpublishInspectLock,
       UnpublishUnlinkLock, ObserveFirstLock, CreateLockLock, WriteLockLock,
       AbandonLockLock, CatchLock, CleanupLock, ReleaseInspectLock,
       ReleaseUnlinkLock, ReleaseConfirmLock, ReportOutcomeLock
  DEF Step

LEMMA EnvStepLock ==
    ASSUME TypeOK, LockInv, "lock" \notin EnvNames, EnvStep
    PROVE  LockInv'
  <1>1. entry'["lock"] = entry["lock"] /\ UNCHANGED op
    BY DEF EnvStep, TypeOK, FixedNames
  <1> QED BY <1>1 DEF LockInv, Owns, Running, HasItsLock

\* At most one command owns the lock, and only its owner is ever about to link
\* or unlink a receipt or a hook: for any number of commands, any interleaving,
\* crashes and failing system calls, as long as no other program touches the lock.
THEOREM LockExcludes ==
    ASSUME "lock" \notin EnvNames
    PROVE  Spec => []LockExclusion
  <1>1. Init => LockInv
    BY DEF Init, LockInv, Fresh, Owns, HasItsLock, HoldingSteps, InstallSteps, RemoveSteps, CheckSteps
  <1>2. TypeOK /\ LockInv /\ [Next]_vars => LockInv'
    <2>1. ASSUME TypeOK, LockInv, UNCHANGED vars PROVE LockInv'
      BY <2>1 DEF LockInv, Owns, Running, HasItsLock, vars
    <2>2. ASSUME TypeOK, LockInv, Next PROVE LockInv'
      BY <2>2, EnvStepLock, StepLock, CancelLock, CrashLock DEF Next
    <2> QED BY <2>1, <2>2
  <1>3. Spec => []LockInv
    BY <1>1, <1>2, TypeCorrect, PTL DEF Spec
  <1> QED BY <1>3, LockInvSuffices, PTL

=============================================================================
