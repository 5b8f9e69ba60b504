------------------------ MODULE CodexHookTransaction ------------------------
(***************************************************************************)
(* codex-project-hook-transaction.ts: the commands that install and remove *)
(* the AgentHawk hook of a Codex project, run concurrently, cancelled,     *)
(* interrupted and failing at their system calls, in a repository whose    *)
(* files somebody else may touch.                                          *)
(*                                                                         *)
(* Every command is a sequence of steps, one per system call that changes  *)
(* or decides something: what was checked in one step may no longer hold   *)
(* in the next.  The pc of a command names the step it takes next.  A step *)
(* whose label is in FaultSteps may fail there: its system call returns an *)
(* error, or (for an observation) the two passes disagree.                 *)
(***************************************************************************)
EXTENDS CodexHookFiles

CONSTANTS
    Kind,         \* what each command does: "install" or "remove"
    FaultSteps,   \* the steps at which a system call may fail
    Crashers,     \* the commands that may be killed
    EnvKinds,     \* what other programs may do to a file ...
    EnvNames,     \* ... to which files ...
    MaxEnv        \* ... how often (bound)

VARIABLES
    staging,      \* each command's staging directory on disk
    op,           \* each command's own state
    envLeft       \* how many foreign changes are still allowed

disk == <<entry, content, stage, staging>>
vars == <<entry, content, stage, staging, op, envLeft>>

-----------------------------------------------------------------------------

CheckSteps == {"check_locked", "check_parents", "check_publish"}
InstallSteps == CheckSteps \cup
    {"make_staging", "verify_staging", "stage_receipt", "stage_hook", "probe",
     "guard_receipt", "link_receipt", "inspect_receipt", "confirm_receipt", "unstage_receipt", "settle_receipt",
     "abort_check", "rollback", "rollback_unlink", "rolled_back",
     "guard_hook", "link_hook", "inspect_hook", "confirm_hook", "unstage_hook", "settle_hook"}
RemoveSteps ==
    {"survey", "track_receipt", "track_hook",
     "guard_drop_hook", "drop_hook", "drop_hook_unlink", "dropped_hook", "inactive",
     "guard_drop_receipt", "drop_receipt", "drop_receipt_unlink", "dropped_receipt", "vacant"}
\* The steps in which a command owns the operation lock.
LockedSteps == InstallSteps \cup RemoveSteps \cup
    {"write_lock", "abandon_lock", "catch", "unpublish", "unpublish_unlink",
     "cleanup", "release", "release_unlink"}
Steps == LockedSteps \cup {"observe", "lock", "release_confirm", "report"}
Labels == Steps \cup {"done", "crashed"}

Errors == {"none", "input", "recovery", "cancelled", "other"}
\* The outcomes a command may report.  "input" is exit code 2; "failed" is
\* exit code 4, "failed safely"; "recovery" is recovery_required (or, when
\* even the last observation throws, "requires bounded recovery review").
Results == {"none", "installed", "removed", "recovery", "input", "failed", "cancelled"}
Refusals == {"input", "failed", "cancelled"}

\* The local variables of installCodexProjectHook and removeCodexProjectHook.
Operations ==
    [pc : Labels,
     aborted : BOOLEAN,               \* options.signal.aborted
     lock : Inodes \cup {NoInode},    \* the identity in operationLock
     file : [Artifacts -> Inodes \cup {NoInode}],  \* the identities of the tracked files
     author : Commands \cup {Nobody}, \* whose bytes the tracked files have
     todo : SUBSET Artifacts,         \* install: staged; remove: what is to be removed
     settled : SUBSET Artifacts,      \* install: receiptPublished, hookPublished; remove: committed
     tracked : BOOLEAN,               \* install: staging is assigned
     confirmed : BOOLEAN,             \* every cleanup so far succeeded
     err : Errors,                    \* the error the catch block received
     result : Results,
     changed : SUBSET Artifacts]      \* history: the artifacts it has linked or unlinked

StagingStates == {"none", "clean", "littered"}

ASSUME TransactionAssumption ==
    /\ Kind \in [Commands -> {"install", "remove"}]
    /\ FaultSteps \subseteq Steps
    /\ Crashers \subseteq Commands
    /\ EnvKinds \subseteq {"create", "delete", "edit", "replace"}
    /\ EnvNames \subseteq FixedNames
    /\ MaxEnv \in Nat

TypeOK ==
    /\ entry \in [FixedNames -> Inodes \cup {NoInode}]
    /\ content \in [Inodes -> Contents]
    /\ stage \in [Commands -> [Artifacts -> Inodes \cup {NoInode}]]
    /\ staging \in [Commands -> StagingStates]
    /\ op \in [Commands -> Operations]
    /\ envLeft \in 0..MaxEnv

Fresh == [pc |-> "observe", aborted |-> FALSE, lock |-> NoInode,
          file |-> [f \in Artifacts |-> NoInode], author |-> Nobody,
          todo |-> {}, settled |-> {}, tracked |-> FALSE, confirmed |-> TRUE,
          err |-> "none", result |-> "none", changed |-> {}]

Init ==
    /\ entry = [n \in FixedNames |-> NoInode]
    /\ content = [i \in Inodes |-> Foreign]
    /\ stage = [c \in Commands |-> [f \in Artifacts |-> NoInode]]
    /\ staging = [c \in Commands |-> "none"]
    /\ op = [c \in Commands |-> Fresh]
    /\ envLeft = MaxEnv

-----------------------------------------------------------------------------
(* How a command moves.                                                    *)

Install(c) == Kind[c] = "install"
At(c, l) == op[c].pc = l
Become(c, r) == op' = [op EXCEPT ![c] = r]
Go(c, l) == Become(c, [op[c] EXCEPT !.pc = l])
Throw(c, e) == Become(c, [op[c] EXCEPT !.pc = "catch", !.err = e])
Report(c, res) == Become(c, [op[c] EXCEPT !.pc = "done", !.result = res])
\* throwIfCancelled
Cancelled(c) == op[c].aborted
Faulty(c) == op[c].pc \in FaultSteps
\* What a failing system call throws: an error of no lifecycle class.
Fault(c) == IF Faulty(c) THEN {"other"} ELSE {}

Running(c) == op[c].pc \notin {"done", "crashed"}
\* releaseLock closes the handle before it unlinks the name.
HandleOpen(c) == Running(c) /\ ~At(c, "release_unlink")

\* A file that is in no directory and that no command holds open can be
\* reused: its inode number is all that identity remembers.
FreeInodes == {i \in Inodes : /\ \A n \in FixedNames : entry[n] # i
                              /\ ~Staged(i)
                              /\ \A c \in Commands : HandleOpen(c) => op[c].lock # i}

\* requireOperationLock: the named file still is the lock of c, with its
\* bytes.  A missing file is a raw ENOENT; a different file is unsafe (input)
\* or not the same (recovery), by its size and link count.
LockErrors(c) ==
    IF ~Present("lock") THEN {"other"}
    ELSE IF entry["lock"] = op[c].lock /\ Holds("lock", "lock", c) THEN {}
    ELSE {"input", "recovery"}

\* observe: the status, or unsafe when the passes failed or disagree.
Disturbed(c) == Faulty(c) \/ envLeft < MaxEnv
Observations(c, own) == {Status(own)} \cup (IF Disturbed(c) THEN {Unsafe} ELSE {})

\* trackedExistingFile together with the comparison of identity and bytes.
StillTracked(c, f) == /\ Present(f)
                      /\ entry[f] = op[c].file[f]
                      /\ content[entry[f]] = Bytes(f, op[c].author)

-----------------------------------------------------------------------------
(* Both commands: look, take the lock.                                     *)

\* The observation before the lock: stale as soon as it is made.
ObserveFirst(c) ==
    /\ At(c, "observe")
    /\ IF Cancelled(c) THEN Report(c, "cancelled")
       ELSE \/ \E s \in Observations(c, Nobody) :
                  IF (IF Install(c) THEN Installable(s)
                      ELSE Removable(s) /\ "operation_locked" \notin s.blockers)
                  THEN Go(c, "lock") ELSE Report(c, "input")
            \/ Faulty(c) /\ Report(c, "failed")
    /\ UNCHANGED <<disk, envLeft>>

\* Faulty variants: the flag "w+", and a lock broken because its owner died.
LockFreeWithoutExclusion == TRUE
LockFreeWhenStale ==
    \/ ~Present("lock")
    \/ \E d \in Commands : At(d, "crashed") /\ entry["lock"] = op[d].lock

LockFree == ~Present("lock")

LockRefused(c) == ~LockFree \/ Faulty(c)

\* open(path, "wx+"): exclusive creation; EEXIST is an error like any other.
CreateLock(c) ==
    /\ At(c, "lock")
    /\ \/ /\ Cancelled(c)
          /\ Throw(c, "cancelled")
          /\ UNCHANGED <<entry, content>>
       \/ /\ ~Cancelled(c)
          /\ LockRefused(c)
          /\ Throw(c, "other")
          /\ UNCHANGED <<entry, content>>
       \/ /\ ~Cancelled(c)
          /\ LockFree
          /\ \E i \in FreeInodes :
                /\ entry' = [entry EXCEPT !["lock"] = i]
                /\ content' = [content EXCEPT ![i] = Bytes("blank", c)]
                /\ Become(c, [op[c] EXCEPT !.pc = "write_lock", !.lock = i])
    /\ UNCHANGED <<stage, staging, envLeft>>

\* The identifier is written and the named file compared with the handle.
WriteLock(c) ==
    /\ At(c, "write_lock")
    /\ \/ /\ entry["lock"] = op[c].lock
          /\ content' = [content EXCEPT ![op[c].lock] = Bytes("lock", c)]
          /\ Go(c, IF Install(c) THEN "check_locked" ELSE "survey")
       \/ /\ Faulty(c) \/ entry["lock"] # op[c].lock
          /\ Go(c, "abandon_lock")
          /\ UNCHANGED content
    /\ UNCHANGED <<entry, stage, staging, envLeft>>

\* acquireLock's own catch: it takes the half-made lock away, by identity
\* ("recovery": the next command has created its lock before the last lstat).
AbandonLock(c) ==
    /\ At(c, "abandon_lock")
    /\ \/ /\ entry["lock"] = op[c].lock
          /\ entry' = [entry EXCEPT !["lock"] = NoInode]
          /\ \E e \in {"other", "recovery"} :
                Become(c, [op[c] EXCEPT !.pc = "catch", !.err = e, !.lock = NoInode])
       \/ /\ ~Present("lock")
          /\ Become(c, [op[c] EXCEPT !.pc = "catch", !.err = "other", !.lock = NoInode])
          /\ UNCHANGED entry
       \/ /\ Faulty(c) \/ (Present("lock") /\ entry["lock"] # op[c].lock)
          /\ Become(c, [op[c] EXCEPT !.pc = "catch", !.err = "recovery", !.lock = NoInode])
          /\ UNCHANGED entry
    /\ UNCHANGED <<content, stage, staging, envLeft>>

-----------------------------------------------------------------------------
(* removeTrackedFile on a fixed name: the identity is inspected, then the  *)
(* name is unlinked, whatever it has come to mean in between.  The bytes   *)
(* are not looked at.                                                      *)

\* gone: the name is absent already, which counts as removed.
Inspect(c, n, inode, next, gone, wrong) ==
    /\ \/ entry[n] = inode /\ Present(n) /\ next
       \/ ~Present(n) /\ gone
       \/ (Present(n) /\ entry[n] # inode) /\ wrong
       \/ Faulty(c) /\ wrong
    /\ UNCHANGED <<disk, envLeft>>

Unlink(c, n, removed, unconfirmed, wrong) ==
    /\ \/ /\ Present(n)
          /\ entry' = [entry EXCEPT ![n] = NoInode]
          /\ removed \/ (Faulty(c) /\ unconfirmed)
       \/ /\ ~Present(n) \/ Faulty(c)
          /\ wrong
          /\ UNCHANGED entry
    /\ UNCHANGED <<content, stage, staging, envLeft>>

-----------------------------------------------------------------------------
(* installCodexProjectHook.                                                *)

\* requireInstallable: the lock, the state under the lock, the lock again.
\* The fixed directories are made in between and are kept for ever.
CheckInstallable(c) ==
    /\ op[c].pc \in CheckSteps
    /\ \/ /\ LockErrors(c) = {}
          /\ ~Cancelled(c)
          /\ Installable(Status(c))
          /\ Go(c, CASE At(c, "check_locked")  -> "check_parents"
                     [] At(c, "check_parents") -> "make_staging"
                     [] At(c, "check_publish") -> "guard_receipt")
       \/ \E e \in LockErrors(c) \cup Fault(c) : Throw(c, e)
       \/ /\ LockErrors(c) = {}
          /\ IF Cancelled(c) THEN Throw(c, "cancelled")
             ELSE \E s \in Observations(c, c) : ~Installable(s) /\ Throw(c, "input")
    /\ UNCHANGED <<disk, envLeft>>

\* createDirectory: mkdir, then the new directory is looked at.  Only then
\* does the command know the directory as its own.
MakeStaging(c) ==
    /\ At(c, "make_staging")
    /\ \/ /\ staging' = [staging EXCEPT ![c] = "clean"]
          /\ Go(c, "verify_staging")
       \/ /\ Faulty(c)
          /\ Throw(c, "other")
          /\ UNCHANGED staging
    /\ UNCHANGED <<entry, content, stage, envLeft>>

VerifyStaging(c) ==
    /\ At(c, "verify_staging")
    /\ \/ Become(c, [op[c] EXCEPT !.pc = "stage_receipt", !.tracked = TRUE, !.author = c])
       \/ Faulty(c) /\ Throw(c, "other")
    /\ UNCHANGED <<disk, envLeft>>

\* createStageFile: a file that fails its checks stays behind, unknown to
\* the cleanup.  Cancellation is looked at before the artifacts are built.
StageStep == [receipt |-> "stage_receipt", hook |-> "stage_hook"]
CreateStageFile(c, f) ==
    /\ At(c, StageStep[f])
    /\ \/ /\ f = "receipt" => ~Cancelled(c)
          /\ \E i \in FreeInodes :
                /\ content' = [content EXCEPT ![i] = Bytes(f, c)]
                /\ stage' = [stage EXCEPT ![c][f] = i]
                /\ Become(c, [op[c] EXCEPT !.pc = IF f = "receipt" THEN "stage_hook" ELSE "probe",
                                           !.file[f] = i, !.todo = @ \cup {f}])
          /\ UNCHANGED staging
       \/ /\ f = "receipt" /\ Cancelled(c)
          /\ Throw(c, "cancelled")
          /\ UNCHANGED <<content, stage, staging>>
       \/ /\ Faulty(c)
          /\ staging' \in {staging, [staging EXCEPT ![c] = "littered"]}
          /\ Throw(c, "other")
          /\ UNCHANGED <<content, stage>>
    /\ UNCHANGED <<entry, envLeft>>

\* verifyNoReplaceCapability, inside the staging directory: its probe files
\* come and go unless it fails half way.
Probe(c) ==
    /\ At(c, "probe")
    /\ \/ Go(c, "check_publish") /\ UNCHANGED staging
       \/ /\ Faulty(c)
          /\ staging' \in {staging, [staging EXCEPT ![c] = "littered"]}
          /\ \E e \in {"input", "other"} : Throw(c, e)
    /\ UNCHANGED <<entry, content, stage, envLeft>>

-----------------------------------------------------------------------------
(* publish(file): link the staged file to its fixed name, without          *)
(* replacing; then unlink the staged name.  Only when all of it succeeded  *)
(* does the caller know that the file was published.                       *)

GuardStep == [receipt |-> "guard_receipt", hook |-> "guard_hook"]
LinkStep == [receipt |-> "link_receipt", hook |-> "link_hook"]
InspectStep == [receipt |-> "inspect_receipt", hook |-> "inspect_hook"]
ConfirmStep == [receipt |-> "confirm_receipt", hook |-> "confirm_hook"]
UnstageStep == [receipt |-> "unstage_receipt", hook |-> "unstage_hook"]
SettleStep == [receipt |-> "settle_receipt", hook |-> "settle_hook"]

\* throwIfCancelled, then the checks at the head of publish.
GuardPublish(c, f) ==
    /\ At(c, GuardStep[f])
    /\ \/ ~Cancelled(c) /\ LockErrors(c) = {} /\ Go(c, LinkStep[f])
       \/ Cancelled(c) /\ Throw(c, "cancelled")
       \/ ~Cancelled(c) /\ \E e \in LockErrors(c) \cup Fault(c) : Throw(c, e)
    /\ UNCHANGED <<disk, envLeft>>

\* Faulty variant: rename(2) in place of link(2).
NoReplaceWhenRenaming(f) == TRUE

\* link(2) never takes an occupied name over.
NoReplace(f) == ~Present(f)

Link(c, f) ==
    /\ At(c, LinkStep[f])
    /\ \/ /\ NoReplace(f)
          /\ entry' = [entry EXCEPT ![f] = op[c].file[f]]
          /\ \E l \in {ConfirmStep[f]} \cup (IF Faulty(c) THEN {InspectStep[f]} ELSE {}) :
                Become(c, [op[c] EXCEPT !.pc = l, !.changed = @ \cup {f}])
       \/ /\ Present(f) \/ Faulty(c)
          /\ Go(c, InspectStep[f])
          /\ UNCHANGED entry
    /\ UNCHANGED <<content, stage, staging, envLeft>>

\* A link that reported an error may have happened all the same: the code
\* looks at the destination and goes on when that is its own file.
InspectPublish(c, f) ==
    /\ At(c, InspectStep[f])
    /\ \/ Present(f) /\ entry[f] = op[c].file[f] /\ Go(c, ConfirmStep[f])
       \/ ~Present(f) /\ Throw(c, "input")
       \/ Present(f) /\ entry[f] # op[c].file[f] /\ Throw(c, "input")
       \/ Faulty(c) /\ Throw(c, "recovery")
    /\ UNCHANGED <<disk, envLeft>>

ConfirmPublish(c, f) ==
    /\ At(c, ConfirmStep[f])
    /\ \/ /\ LockErrors(c) = {} /\ StillTracked(c, f)
          /\ Go(c, UnstageStep[f])
       \/ \E e \in LockErrors(c) \cup Fault(c) : Throw(c, e)
       \/ /\ LockErrors(c) = {} /\ ~StillTracked(c, f)
          /\ \E e \in IF Present(f) THEN {"input", "recovery"} ELSE {"other"} : Throw(c, e)
    /\ UNCHANGED <<disk, envLeft>>

Unstage(c, f) ==
    /\ At(c, UnstageStep[f])
    /\ \/ /\ stage' = [stage EXCEPT ![c][f] = NoInode]
          /\ Go(c, SettleStep[f]) \/ (Faulty(c) /\ Throw(c, "recovery"))
       \/ /\ Faulty(c)
          /\ Throw(c, "recovery")
          /\ UNCHANGED stage
    /\ UNCHANGED <<entry, content, staging, envLeft>>

\* Faulty variant: a cancellation after the hook is live still rolls back.
AfterSettleCancellable == [receipt |-> "abort_check", hook |-> "abort_check"]

\* Cancellation is looked at after the receipt and no more after the hook.
AfterSettle == [receipt |-> "abort_check", hook |-> "cleanup"]

\* publish returns and its caller records the file as published.
SettlePublish(c, f) ==
    /\ At(c, SettleStep[f])
    /\ \/ /\ LockErrors(c) = {} /\ StillTracked(c, f)
          /\ Become(c, [op[c] EXCEPT !.pc = AfterSettle[f],
                                     !.settled = @ \cup {f}, !.todo = @ \ {f}])
       \/ /\ StillTracked(c, f)
          /\ \E e \in LockErrors(c) \cup Fault(c) : Throw(c, e)
       \/ /\ ~StillTracked(c, f)
          /\ \E e \in IF Present(f) THEN {"input", "recovery"} ELSE {"other"} : Throw(c, e)
    /\ UNCHANGED <<disk, envLeft>>

-----------------------------------------------------------------------------
(* Cancelled between the two publications: take the receipt back.          *)

AbortCheck(c) ==
    /\ At(c, "abort_check")
    /\ Go(c, IF Cancelled(c) THEN "rollback" ELSE "guard_hook")
    /\ UNCHANGED <<disk, envLeft>>

\* receiptPublished is cleared whether or not the receipt could be removed.
RolledBack(c, e) ==
    IF e = "none"
    THEN Become(c, [op[c] EXCEPT !.pc = "rolled_back", !.settled = {}, !.changed = @ \ {"receipt"}])
    ELSE Become(c, [op[c] EXCEPT !.pc = "catch", !.settled = {}, !.err = e])

RollbackInspect(c) ==
    /\ At(c, "rollback")
    /\ Inspect(c, "receipt", op[c].file["receipt"],
               Go(c, "rollback_unlink"), RolledBack(c, "none"), RolledBack(c, "recovery"))

RollbackUnlink(c) ==
    /\ At(c, "rollback_unlink")
    /\ Unlink(c, "receipt", RolledBack(c, "none"), RolledBack(c, "recovery"), RolledBack(c, "recovery"))

\* The rollback is re-read as absent before plain cancellation is reported.
RollbackCheck(c) ==
    /\ At(c, "rolled_back")
    /\ \/ \E e \in LockErrors(c) \cup Fault(c) : Throw(c, e)
       \/ /\ LockErrors(c) = {}
          /\ \E s \in Observations(c, c) :
                Throw(c, IF s.ownership = "absent" THEN "cancelled" ELSE "recovery")
    /\ UNCHANGED <<disk, envLeft>>

-----------------------------------------------------------------------------
(* removeCodexProjectHook, under the lock.                                 *)

\* The observation is repeated under the lock: it decides what to remove.
Survey(c) ==
    /\ At(c, "survey")
    /\ \/ \E e \in LockErrors(c) \cup Fault(c) : Throw(c, e)
       \/ /\ LockErrors(c) = {}
          /\ IF Cancelled(c) THEN Throw(c, "cancelled")
             ELSE \E s \in Observations(c, c) :
                    IF Removable(s)
                    THEN Become(c, [op[c] EXCEPT !.pc = "track_receipt",
                            !.todo = IF s.ownership = "owned_exact" THEN Artifacts ELSE {"receipt"}])
                    ELSE Throw(c, "input")
    /\ UNCHANGED <<disk, envLeft>>

\* trackedExistingFile of the receipt: its identity, and whose bytes it has.
TrackReceipt(c) ==
    /\ At(c, "track_receipt")
    /\ \/ /\ LockErrors(c) = {}
          /\ Recorded /\ ~Staged(entry["receipt"])
          /\ Become(c, [op[c] EXCEPT !.file["receipt"] = entry["receipt"],
                                     !.author = content[entry["receipt"]].by,
                                     !.pc = IF "hook" \in op[c].todo THEN "track_hook" ELSE "inactive"])
       \/ \E e \in LockErrors(c) \cup Fault(c) : Throw(c, e)
       \/ ~Present("receipt") /\ Throw(c, "other")
       \/ Present("receipt") /\ (~Recorded \/ Staged(entry["receipt"])) /\ Throw(c, "input")
    /\ UNCHANGED <<disk, envLeft>>

\* The hook is read and its bytes are verified against the receipt.
TrackHook(c) ==
    /\ At(c, "track_hook")
    /\ \/ Cancelled(c) /\ Throw(c, "cancelled")
       \/ /\ ~Cancelled(c)
          /\ \/ /\ Holds("hook", "hook", op[c].author) /\ ~Staged(entry["hook"])
                /\ Become(c, [op[c] EXCEPT !.pc = "guard_drop_hook", !.file["hook"] = entry["hook"]])
             \/ (Faulty(c) \/ ~Present("hook")) /\ Throw(c, "other")
             \/ /\ Present("hook")
                /\ ~Holds("hook", "hook", op[c].author) \/ Staged(entry["hook"])
                /\ Throw(c, "input")
    /\ UNCHANGED <<disk, envLeft>>

\* removal is committed once a file is known to be gone: no cancellation then.
Committed(c) == op[c].settled # {}

GuardDropStep == [receipt |-> "guard_drop_receipt", hook |-> "guard_drop_hook"]
DropStep == [receipt |-> "drop_receipt", hook |-> "drop_hook"]
DropUnlinkStep == [receipt |-> "drop_receipt_unlink", hook |-> "drop_hook_unlink"]
DroppedStep == [receipt |-> "dropped_receipt", hook |-> "dropped_hook"]

GuardDrop(c, f) ==
    /\ At(c, GuardDropStep[f])
    /\ IF Cancelled(c) /\ ~Committed(c) THEN Throw(c, "cancelled")
       ELSE \/ LockErrors(c) = {} /\ Go(c, DropStep[f])
            \/ \E e \in LockErrors(c) \cup Fault(c) : Throw(c, e)
    /\ UNCHANGED <<disk, envLeft>>

DropInspect(c, f) ==
    /\ At(c, DropStep[f])
    /\ Inspect(c, f, op[c].file[f],
               Go(c, DropUnlinkStep[f]), Go(c, DroppedStep[f]), Throw(c, "recovery"))

DropUnlink(c, f) ==
    /\ At(c, DropUnlinkStep[f])
    /\ LET unlinked(r) == Become(c, [r EXCEPT !.changed = @ \cup {f}])
       IN Unlink(c, f, unlinked([op[c] EXCEPT !.pc = DroppedStep[f]]),
                 unlinked([op[c] EXCEPT !.pc = "catch", !.err = "recovery"]), Throw(c, "recovery"))

\* The lock is checked again before the removal counts as committed.
SettleDrop(c, f) ==
    /\ At(c, DroppedStep[f])
    /\ \/ /\ LockErrors(c) = {}
          /\ Become(c, [op[c] EXCEPT !.pc = IF f = "hook" THEN "inactive" ELSE "vacant",
                                     !.settled = @ \cup {f}])
       \/ \E e \in LockErrors(c) \cup Fault(c) : Throw(c, e)
    /\ UNCHANGED <<disk, envLeft>>

\* Before the receipt goes: the state is owned_inactive, and the receipt the
\* file that was tracked, bytes included.
CheckInactive(c) ==
    /\ At(c, "inactive")
    /\ IF Cancelled(c) /\ ~Committed(c) THEN Throw(c, "cancelled")
       ELSE \/ \E e \in LockErrors(c) \cup Fault(c) : Throw(c, e)
            \/ /\ LockErrors(c) = {}
               /\ \E s \in Observations(c, c) :
                     IF s.ownership = "owned_inactive" /\ StillTracked(c, "receipt")
                     THEN Go(c, "guard_drop_receipt") ELSE Throw(c, "recovery")
    /\ UNCHANGED <<disk, envLeft>>

CheckVacant(c) ==
    /\ At(c, "vacant")
    /\ \/ \E e \in LockErrors(c) \cup Fault(c) : Throw(c, e)
       \/ /\ LockErrors(c) = {}
          /\ \E s \in Observations(c, c) :
                IF s.ownership = "absent" THEN Go(c, "release") ELSE Throw(c, "recovery")
    /\ UNCHANGED <<disk, envLeft>>

-----------------------------------------------------------------------------
(* Both commands: give everything back and report.                         *)

\* Faulty variant: the error path forgets the lock.
NextCleanupForgetting(c) ==
    IF op[c].lock = NoInode \/ op[c].err # "none" THEN "report" ELSE "release"

NextCleanup(c) == IF op[c].lock = NoInode THEN "report" ELSE "release"

\* Faulty variant: no rollback in the catch block.
NeedsUnpublishNever(c) == FALSE

\* receiptPublished && !hookPublished
NeedsUnpublish(c) == op[c].settled = {"receipt"}

\* The catch blocks: a receipt whose hook was not published is taken back.
Catch(c) ==
    /\ At(c, "catch")
    /\ Go(c, IF ~Install(c) THEN NextCleanup(c)
             ELSE IF NeedsUnpublish(c) THEN "unpublish" ELSE "cleanup")
    /\ UNCHANGED <<disk, envLeft>>

Unpublished(c) == Become(c, [op[c] EXCEPT !.pc = "cleanup", !.changed = @ \ {"receipt"}])
NotUnpublished(c) == Become(c, [op[c] EXCEPT !.pc = "cleanup", !.confirmed = FALSE])

UnpublishInspect(c) ==
    /\ At(c, "unpublish")
    /\ Inspect(c, "receipt", op[c].file["receipt"],
               Go(c, "unpublish_unlink"), Unpublished(c), NotUnpublished(c))

UnpublishUnlink(c) ==
    /\ At(c, "unpublish_unlink")
    /\ Unlink(c, "receipt", Unpublished(c), NotUnpublished(c), NotUnpublished(c))

\* cleanupOperation: the staged files in reverse order, then their directory,
\* which goes only when nothing unknown is left in it.
Cleanup(c) ==
    /\ At(c, "cleanup")
    /\ \E gone \in SUBSET op[c].todo :
          /\ gone = op[c].todo \/ Faulty(c)
          /\ stage' = [stage EXCEPT ![c] = [f \in Artifacts |-> IF f \in gone THEN NoInode ELSE @[f]]]
          /\ LET empty == staging[c] = "clean" /\ \A f \in Artifacts : stage'[c][f] = NoInode
             IN \/ /\ op[c].tracked => empty
                   /\ staging' = IF op[c].tracked THEN [staging EXCEPT ![c] = "none"] ELSE staging
                   /\ Become(c, [op[c] EXCEPT !.pc = NextCleanup(c),
                                              !.confirmed = @ /\ gone = op[c].todo])
                \/ /\ op[c].tracked
                   /\ ~empty \/ Faulty(c)
                   /\ Become(c, [op[c] EXCEPT !.pc = NextCleanup(c), !.confirmed = FALSE])
                   /\ UNCHANGED staging
    /\ UNCHANGED <<entry, content, envLeft>>

\* Faulty variant: the release is tried again until it is verified.
ReleasedWhenVerified(c, ok) ==
    Become(c, IF ok THEN [op[c] EXCEPT !.pc = "report", !.lock = NoInode] ELSE op[c])

\* releaseLock: a lock that is not verified is left where it is; the handle
\* is closed in any case.
Released(c, ok) == Become(c, [op[c] EXCEPT !.pc = "report", !.lock = NoInode, !.confirmed = @ /\ ok])

ReleaseInspect(c) ==
    /\ At(c, "release")
    /\ \/ LockErrors(c) = {} /\ Go(c, "release_unlink")
       \/ LockErrors(c) \cup Fault(c) # {} /\ Released(c, FALSE)
    /\ UNCHANGED <<disk, envLeft>>

ReleaseUnlink(c) ==
    /\ At(c, "release_unlink")
    /\ Unlink(c, "lock", Become(c, [op[c] EXCEPT !.pc = "release_confirm", !.lock = NoInode]),
              Released(c, FALSE), Released(c, FALSE))

\* The lstat after the unlink wants the name to be absent, and does not ask
\* whose file it finds: the next command may already have made its lock.
ReleaseConfirm(c) ==
    /\ At(c, "release_confirm")
    /\ \/ ~Present("lock") /\ Released(c, TRUE)
       \/ (Present("lock") \/ Faulty(c)) /\ Released(c, FALSE)
    /\ UNCHANGED <<disk, envLeft>>

\* hookPublished, committed: from here on only success or recovery.
PastCommit(c) == IF Install(c) THEN "hook" \in op[c].settled ELSE Committed(c)

\* Faulty variant: the error is reported as it was caught.
OutcomeUnmapped(c) == op[c].err

\* What the catch block makes of the error.
Outcome(c) == IF PastCommit(c) \/ ~op[c].confirmed \/ op[c].err = "recovery" THEN "recovery"
              ELSE IF op[c].err = "other" THEN "failed" ELSE op[c].err

\* The last observation of a success is made without the lock.
ReportOutcome(c) ==
    /\ At(c, "report")
    /\ IF op[c].err = "none" /\ op[c].confirmed
       THEN \E s \in Observations(c, Nobody) :
               Report(c, IF Install(c) THEN (IF Installed(s) THEN "installed" ELSE "recovery")
                         ELSE IF Vacated(s) THEN "removed" ELSE "recovery")
       ELSE Report(c, Outcome(c))
    /\ UNCHANGED <<disk, envLeft>>

-----------------------------------------------------------------------------
(* The world around the commands.                                          *)

\* The signal of a command is aborted at any moment.
Cancel(c) ==
    /\ Running(c) /\ ~Cancelled(c)
    /\ Become(c, [op[c] EXCEPT !.aborted = TRUE])
    /\ UNCHANGED <<disk, envLeft>>

\* The process is killed: its handles are closed, its files stay.
Crash(c) ==
    /\ c \in Crashers /\ Running(c)
    /\ Go(c, "crashed")
    /\ UNCHANGED <<disk, envLeft>>

\* Another program creates, deletes, rewrites in place or replaces a file.
EnvStep ==
    /\ envLeft > 0
    /\ envLeft' = envLeft - 1
    /\ \E n \in EnvNames :
          \/ /\ "create" \in EnvKinds /\ ~Present(n)
             /\ \E i \in FreeInodes : /\ entry' = [entry EXCEPT ![n] = i]
                                      /\ content' = [content EXCEPT ![i] = Foreign]
          \/ /\ "delete" \in EnvKinds /\ Present(n)
             /\ entry' = [entry EXCEPT ![n] = NoInode]
             /\ UNCHANGED content
          \/ /\ "edit" \in EnvKinds /\ Present(n)
             /\ content' = [content EXCEPT ![entry[n]] = Foreign]
             /\ UNCHANGED entry
          \/ /\ "replace" \in EnvKinds /\ Present(n)
             /\ \E i \in FreeInodes : /\ entry' = [entry EXCEPT ![n] = i]
                                      /\ content' = [content EXCEPT ![i] = Foreign]
    /\ UNCHANGED <<stage, staging, op>>

Step(c) ==
    \/ ObserveFirst(c) \/ CreateLock(c) \/ WriteLock(c) \/ AbandonLock(c)
    \/ CheckInstallable(c) \/ MakeStaging(c) \/ VerifyStaging(c) \/ Probe(c)
    \/ \E f \in Artifacts : \/ CreateStageFile(c, f) \/ GuardPublish(c, f) \/ Link(c, f)
                            \/ InspectPublish(c, f)
                            \/ ConfirmPublish(c, f) \/ Unstage(c, f) \/ SettlePublish(c, f)
                            \/ GuardDrop(c, f) \/ DropInspect(c, f) \/ DropUnlink(c, f)
                            \/ SettleDrop(c, f)
    \/ AbortCheck(c) \/ RollbackInspect(c) \/ RollbackUnlink(c) \/ RollbackCheck(c)
    \/ Survey(c) \/ TrackReceipt(c) \/ TrackHook(c) \/ CheckInactive(c) \/ CheckVacant(c)
    \/ Catch(c) \/ UnpublishInspect(c) \/ UnpublishUnlink(c) \/ Cleanup(c)
    \/ ReleaseInspect(c) \/ ReleaseUnlink(c) \/ ReleaseConfirm(c) \/ ReportOutcome(c)

Next == EnvStep \/ \E c \in Commands : Step(c) \/ Cancel(c) \/ Crash(c)

\* A running command is never blocked: the event loop runs each step once
\* its call returns.  Nothing forces a cancellation, a crash or a change.
Fairness == \A c \in Commands : WF_vars(Step(c))

Spec == Init /\ [][Next]_vars
FairSpec == Spec /\ Fairness

-----------------------------------------------------------------------------
(* Safety.                                                                 *)

Owns(c) == Running(c) /\ op[c].lock # NoInode

MutationSteps == {"link_receipt", "link_hook", "rollback_unlink", "unpublish_unlink",
                  "drop_hook_unlink", "drop_receipt_unlink"}

\* Of the commands that race for the lock (they may all have observed that
\* the hook is absent) at most one gets to own it, and no command is about to
\* link or unlink a receipt or a hook unless the lock file on disk is its own.
LockExclusion ==
    /\ \A c, d \in Commands : Owns(c) /\ Owns(d) => c = d
    /\ \A c \in Commands : op[c].pc \in MutationSteps =>
          Owns(c) /\ entry["lock"] = op[c].lock

\* Whenever a process is killed, cancelled or fails, an AgentHawk hook that
\* the host would run has the receipt that owns it beside it.
HookHasRecord ==
    Present("hook") /\ content[entry["hook"]].kind = "hook" => HookMatches

\* A command that reports a refusal, a failure or a cancellation has left
\* nothing behind: every file it linked it has unlinked, every file it had to
\* remove is still there, its staging directory and its lock are gone.
RefusalChangesNothing ==
    \A c \in Commands : op[c].result \in Refusals =>
       /\ op[c].changed = {}
       /\ staging[c] = "none"
       /\ Present("lock") => content[entry["lock"]].by # c

\* The lock of a command that was killed is not broken by the others: from
\* the crash on, no step of theirs changes the receipt or the hook.
CrashFreezes ==
    [][(\E c \in Commands : At(c, "crashed") /\ op[c].lock # NoInode)
          => \A f \in Artifacts : entry'[f] = entry[f]]_vars

\* No step of a command makes a file somebody else wrote lose its name,
\* whenever that file appeared.
NoForeignLoss ==
    [][\A n \in FixedNames :
          Present(n) /\ content[entry[n]] = Foreign /\ entry'[n] # entry[n]
             => envLeft' # envLeft]_vars

\* An installation that published both files and cleaned up reports that it
\* installed, whatever the other commands do next.
CommittedInstallIsReported ==
    \A c \in Commands :
       At(c, "done") /\ Install(c) /\ op[c].settled = Artifacts /\ op[c].confirmed
          => op[c].result = "installed"

\* What the commands do to the two files is the promised lifecycle: the lock
\* file names the writer, the receipt and the hook the installation they are of.
AuthorOf(n) == IF Present(n) THEN content[entry[n]].by ELSE Nobody
Lifecycle == INSTANCE HookLifecycle WITH writer <- AuthorOf("lock"),
                                         record <- AuthorOf("receipt"),
                                         hook <- AuthorOf("hook")
ImplementsLifecycle == Lifecycle!Spec

-----------------------------------------------------------------------------
(* Liveness.                                                               *)

\* Every command that is not killed comes to an end, also when another one
\* was killed with the lock in its hand.
EveryCommandReports == \A c \in Commands : <>(~Running(c))

\* Unless a call of the release itself fails, the lock file is gone in the end
\* or is the one a killed command left.
LockIsReleased ==
    <>[](Present("lock") => \E c \in Commands : At(c, "crashed") /\ entry["lock"] = op[c].lock)
=============================================================================
