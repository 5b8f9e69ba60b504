----------------------- MODULE ClaudeHookTransaction -----------------------
(***************************************************************************)
(* claude-project-hook-transaction.ts: the commands that install and       *)
(* remove the AgentHawk hook of a Claude project, run concurrently,        *)
(* cancelled, killed and failing, beside programs that create files and    *)
(* change what Git ignores.  The settings file is the whole hook; nothing  *)
(* is merged into it.                                                      *)
(*                                                                         *)
(* Unlike the Codex commands these compare bytes as well as identity       *)
(* before they unlink anything, and the bytes of every file carry the      *)
(* random identifier of the command that wrote it.  A file is therefore    *)
(* known here by its author; inode numbers would add nothing.              *)
(*                                                                         *)
(* Status is one atomic observation: DoubleRead shows when the two passes  *)
(* of the code amount to one.                                              *)
(***************************************************************************)
EXTENDS Naturals, FiniteSets

CONSTANTS
    Commands,     \* command invocations, each with its own operation identifier
    Nobody,       \* the author of what no command wrote
    Kind,         \* what each command does: "install" or "remove"
    Scenarios,    \* which commands run after whose installation, and bounds on
                  \* how often calls fail, others interfere, and who may be killed
    FaultSteps,   \* the steps at which a call may fail
    EnvNames,     \* the fixed names another program may create a file under ...
    EnvEdits      \* ... and those whose file it may replace

VARIABLES
    entry,        \* the file behind each fixed name
    stage,        \* the artifacts in each command's staging directory
    staging,      \* that directory itself
    hygiene,      \* what Git and the shared settings say around the files
    op,           \* the local variables of each command
    scenario,     \* the scenario that is played
    faults,       \* how many calls have failed
    changes       \* how many foreign changes there were

disk == <<entry, stage, staging>>
vars == <<disk, hygiene, op, scenario, faults, changes>>

-----------------------------------------------------------------------------
(* Files and what the status command makes of them.                        *)

Artifacts == {"receipt", "hook"}
FixedNames == Artifacts \cup {"lock"}

\* A lock file is blank between its creation and the write of its record.
Files == [by : Commands \cup {Nobody}, whole : BOOLEAN]
NoFile == [by |-> Nobody, whole |-> FALSE]
Foreign == [by |-> Nobody, whole |-> TRUE]
Whole(c) == [by |-> c, whole |-> TRUE]
Blank(c) == [by |-> c, whole |-> FALSE]

Present(n) == entry[n] # NoFile
\* Two links: the file still has its name in the staging directory.
Linked(f) == \E c \in Commands : entry[f] = Whole(c) /\ f \in stage[c]
Recorded == entry["receipt"].by # Nobody

Hygienes == {"clear", "shared", "unignored"}

Ownerships == {"absent", "unowned_settings", "record_collision", "owned_inactive",
               "owned_exact", "owned_modified", "unsafe"}

\* classifySnapshot
Ownership ==
    IF \E f \in Artifacts : Linked(f) THEN "unsafe"
    ELSE IF ~Present("receipt") THEN IF Present("hook") THEN "unowned_settings" ELSE "absent"
    ELSE IF ~Recorded THEN "record_collision"
    ELSE IF ~Present("hook") THEN "owned_inactive"
    ELSE IF entry["hook"] = entry["receipt"] THEN "owned_exact" ELSE "owned_modified"

\* own: the command whose lock does not count as somebody else's.  A lock
\* that does not parse leaves the ignore state of the staging directory open.
Status(own) ==
    LET locked == Present("lock") /\ (own = Nobody \/ entry["lock"] # Whole(own))
        legible == ~Present("lock") \/ (entry["lock"].whole /\ entry["lock"].by # Nobody)
        ignored == hygiene # "unignored" /\ legible
    IN [ownership |-> Ownership,
        local |-> Present("hook"),
        mutable |-> ignored /\ ~locked,      \* mutationIgnored
        locked |-> locked,
        blocked |-> locked \/ ~ignored \/ hygiene = "shared" \/ Ownership = "unowned_settings"]

\* Two passes that fail or disagree.
Unsafe == [ownership |-> "unsafe", local |-> TRUE, mutable |-> FALSE, locked |-> FALSE, blocked |-> TRUE]

Observations(own) == {Status(own)} \cup (IF changes > 0 THEN {Unsafe} ELSE {})

Installable(s) == s.ownership = "absent" /\ ~s.blocked
Removable(s) == s.ownership \in {"owned_exact", "owned_inactive"} /\ s.mutable
Installed(s) == s.ownership = "owned_exact" /\ ~s.blocked
Vacated(s) == s.ownership = "absent" /\ ~s.locked

-----------------------------------------------------------------------------
(* The checks of both commands: the lock, a status, the lock again.        *)

InstallChecks == {"check_locked", "check_parents", "check_staged", "check_receipt",
                  "check_hook", "check_committed"}
RemoveChecks == {"survey", "check_exact", "inactive", "check_inactive", "vacant"}
Checks == InstallChecks \cup RemoveChecks

\* What the status must say for the command to go on.
Expected(l, s) ==
    CASE l \in {"check_locked", "check_parents", "check_staged", "check_receipt"} -> Installable(s)
      [] l = "check_hook" -> s.ownership = "owned_inactive" /\ ~s.blocked
      [] l = "check_committed" -> Installed(s)
      [] l = "survey" -> Removable(s)
      [] l = "check_exact" -> s.ownership = "owned_exact" /\ s.mutable
      [] l \in {"inactive", "check_inactive"} -> s.ownership = "owned_inactive" /\ s.mutable
      [] l = "vacant" -> s.ownership = "absent"

\* Until something was published or removed the state is refused; after
\* that it needs a review.
Unexpected(l) ==
    IF l \in {"check_locked", "check_parents", "check_staged", "check_receipt", "survey"}
    THEN "input" ELSE "recovery"

\* verifyTrackedFile(receipt) is part of the check.
ChecksReceipt == {"check_hook", "check_exact", "inactive"}

LinkStep == [receipt |-> "link_receipt", hook |-> "link_hook"]
InspectStep == [receipt |-> "inspect_receipt", hook |-> "inspect_hook"]
ConfirmStep == [receipt |-> "confirm_receipt", hook |-> "confirm_hook"]
UnstageStep == [receipt |-> "unstage_receipt", hook |-> "unstage_hook"]
SettleStep == [receipt |-> "settle_receipt", hook |-> "settle_hook"]
DropStep == [receipt |-> "drop_receipt", hook |-> "drop_hook"]
DroppedStep == [receipt |-> "dropped_receipt", hook |-> "dropped_hook"]
StepsOf(s) == {s[f] : f \in Artifacts}
PublishSteps == UNION {StepsOf(s) : s \in {LinkStep, InspectStep, ConfirmStep, UnstageStep, SettleStep}}

\* The four calls of removeTrackedFile on a fixed name.
\* Faulty variant: the receipt is removed before the settings file.
RemovalReceiptFirst == [unpublish |-> "receipt", drop_receipt |-> "hook", drop_hook |-> "receipt", release |-> "lock"]

RemovalOf == [unpublish |-> "receipt", drop_receipt |-> "receipt", drop_hook |-> "hook", release |-> "lock"]
Removals == DOMAIN RemovalOf

Steps == {"observe", "lock", "write_lock", "abandon_lock", "make_staging", "stage_receipt",
          "stage_hook", "probe", "track_receipt", "track_hook",
          "catch", "check_unpublish", "unpublished", "cleanup", "report"}
         \cup Checks \cup PublishSteps \cup StepsOf(DroppedStep) \cup Removals
Labels == Steps \cup {"idle", "done", "crashed"}

Errors == {"none", "input", "recovery", "cancelled", "other"}
\* "input" is exit code 2, "failed" exit code 4, "recovery" recovery_required
\* (or, when even that observation throws, "requires bounded recovery review").
Results == {"none", "installed", "removed", "recovery", "input", "failed", "cancelled"}
Refusals == {"input", "failed", "cancelled"}

Operations ==
    [pc : Labels,
     phase : {"verify", "unlink", "gone"},   \* within removeTrackedFile
     aborted : BOOLEAN,                      \* options.signal.aborted
     locked : BOOLEAN,                       \* operationLock is assigned
     author : Commands \cup {Nobody},        \* whose bytes the tracked files have
     exact : BOOLEAN,                        \* remove: there is a hook to remove
     staged : SUBSET Artifacts,              \* install: staged
     tracked : BOOLEAN,                      \* install: staging is assigned
     settled : SUBSET Artifacts,             \* receiptPublished, hookPublished; remove: committed
     confirmed : BOOLEAN,                    \* every cleanup so far succeeded
     err : Errors,                           \* what the catch block received
     result : Results,
     changed : SUBSET Artifacts]             \* history: linked or unlinked, not taken back

ASSUME ClaudeAssumption ==
    /\ Nobody \notin Commands
    /\ Kind \in [Commands -> {"install", "remove"}]
    /\ Scenarios \subseteq [earlier : Commands \cup {Nobody}, running : SUBSET Commands,
                            faults : Nat, changes : Nat, crashers : SUBSET Commands]
    /\ FaultSteps \subseteq Steps
    /\ EnvNames \subseteq FixedNames /\ EnvEdits \subseteq FixedNames

TypeOK ==
    /\ entry \in [FixedNames -> Files]
    /\ stage \in [Commands -> SUBSET Artifacts]
    /\ staging \in [Commands -> {"none", "clean", "littered"}]
    /\ hygiene \in Hygienes
    /\ op \in [Commands -> Operations]
    /\ scenario \in Scenarios
    /\ faults \in 0..scenario.faults
    /\ changes \in 0..scenario.changes

Start(c, runs) ==
    [pc |-> IF runs THEN "observe" ELSE "idle", phase |-> "verify", aborted |-> FALSE, locked |-> FALSE,
     author |-> IF Kind[c] = "install" THEN c ELSE Nobody, exact |-> FALSE,
     staged |-> {}, tracked |-> FALSE, settled |-> {}, confirmed |-> TRUE,
     err |-> "none", result |-> "none", changed |-> {}]

Init ==
    /\ scenario \in Scenarios
    /\ op = [c \in Commands |-> Start(c, c \in scenario.running)]
    /\ entry = [n \in FixedNames |->
                  IF n = "lock" \/ scenario.earlier = Nobody THEN NoFile ELSE Whole(scenario.earlier)]
    /\ stage = [c \in Commands |-> {}]
    /\ staging = [c \in Commands |-> "none"]
    /\ hygiene = "clear"
    /\ faults = 0
    /\ changes = 0

-----------------------------------------------------------------------------

Install(c) == Kind[c] = "install"
At(c, l) == op[c].pc = l
Running(c) == op[c].pc \notin {"idle", "done", "crashed"}
Cancelled(c) == op[c].aborted
Become(c, r) == op' = [op EXCEPT ![c] = r]
Go(c, l) == Become(c, [op[c] EXCEPT !.pc = l])
Throw(c, e) == Become(c, [op[c] EXCEPT !.pc = "catch", !.err = e])
Report(c, res) == Become(c, [op[c] EXCEPT !.pc = "done", !.result = res])

\* requireOperationLock
LockErrors(c) ==
    IF ~Present("lock") THEN {"other"}
    ELSE IF entry["lock"] = Whole(c) THEN {} ELSE {"input", "recovery"}

\* verifyTrackedFile of a file of the installation, with one link.
Verified(c, f) == entry[f] = Whole(op[c].author) /\ ~Linked(f)

-----------------------------------------------------------------------------
(* Look, and take the lock.                                                *)

\* The observation before the lock: stale as soon as it is made.
ObserveFirst(c) ==
    /\ At(c, "observe")
    /\ IF Cancelled(c) THEN Report(c, "cancelled")
       ELSE \E s \in Observations(Nobody) :
              IF (Install(c) /\ Installable(s)) \/ (~Install(c) /\ Removable(s))
              THEN Go(c, "lock") ELSE Report(c, "input")
    /\ UNCHANGED disk

\* Faulty variant: the flag "w+" in place of "wx+".
LockFreeWithoutExclusion == TRUE

LockFree == ~Present("lock")

\* open(path, "wx+"): EEXIST is an error like any other.
CreateLock(c) ==
    /\ At(c, "lock")
    /\ \/ /\ ~Cancelled(c) /\ LockFree
          /\ entry' = [entry EXCEPT !["lock"] = Blank(c)]
          /\ Go(c, "write_lock")
       \/ /\ Cancelled(c) \/ ~LockFree
          /\ Throw(c, IF Cancelled(c) THEN "cancelled" ELSE "other")
          /\ UNCHANGED entry
    /\ UNCHANGED <<stage, staging>>

WriteLock(c) ==
    /\ At(c, "write_lock")
    /\ \/ /\ entry["lock"] = Blank(c)
          /\ entry' = [entry EXCEPT !["lock"] = Whole(c)]
          /\ Become(c, [op[c] EXCEPT !.pc = IF Install(c) THEN "check_locked" ELSE "survey",
                                     !.locked = TRUE])
       \/ /\ entry["lock"] # Blank(c)
          /\ Go(c, "abandon_lock")
          /\ UNCHANGED entry
    /\ UNCHANGED <<stage, staging>>

\* acquireLock's own catch removes the lock only while it is still empty: it
\* compares it with no bytes.
AbandonLock(c) ==
    /\ At(c, "abandon_lock")
    /\ IF entry["lock"] = Blank(c) THEN entry' = [entry EXCEPT !["lock"] = NoFile] ELSE UNCHANGED entry
    /\ Throw(c, IF entry["lock"] \in {Blank(c), NoFile} THEN "other" ELSE "recovery")
    /\ UNCHANGED <<stage, staging>>

-----------------------------------------------------------------------------
(* A check.                                                                *)

Committed(c) == op[c].settled # {}

\* Faulty variant: a cancellation counts to the end.
CancellableAlways(c) == Cancelled(c)

\* options are passed on until something irrevocable has happened.
Cancellable(c) ==
    /\ Cancelled(c)
    /\ op[c].pc \notin {"check_committed", "vacant"}
    /\ ~Install(c) => ~Committed(c)

\* The step after a check that found what it expected.
AfterCheck(c, s) ==
    CASE At(c, "check_locked")    -> Go(c, "check_parents")
      [] At(c, "check_parents")   -> Go(c, "make_staging")
      [] At(c, "check_staged")    -> Go(c, "check_receipt")
      [] At(c, "check_receipt")   -> Go(c, "link_receipt")
      [] At(c, "check_hook")      -> Go(c, "link_hook")
      [] At(c, "check_committed") -> Go(c, "cleanup")
      [] At(c, "survey")          -> Become(c, [op[c] EXCEPT !.pc = "track_receipt",
                                                             !.exact = s.ownership = "owned_exact"])
      [] At(c, "check_exact")     -> Go(c, "drop_hook")
      [] At(c, "inactive")        -> Go(c, "check_inactive")
      [] At(c, "check_inactive")  -> Go(c, "drop_receipt")
      [] At(c, "vacant")          -> Go(c, "release")

Check(c) ==
    /\ op[c].pc \in Checks
    /\ IF Cancellable(c) THEN Throw(c, "cancelled")
       ELSE \/ \E e \in LockErrors(c) : Throw(c, e)
            \/ /\ LockErrors(c) = {}
               /\ \E s \in Observations(c) :
                     IF Expected(op[c].pc, s) /\ (op[c].pc \in ChecksReceipt => Verified(c, "receipt"))
                     THEN AfterCheck(c, s) ELSE Throw(c, Unexpected(op[c].pc))
    /\ UNCHANGED disk

-----------------------------------------------------------------------------
(* installClaudeProjectHook.                                               *)

MakeStaging(c) ==
    /\ At(c, "make_staging")
    /\ staging' = [staging EXCEPT ![c] = "clean"]
    /\ Become(c, [op[c] EXCEPT !.pc = "stage_receipt", !.tracked = TRUE])
    /\ UNCHANGED <<entry, stage>>

\* Faulty variant: a failing mkdir is cleaned up like every other failure.
StagingUnknownForgotten(c) == [op[c] EXCEPT !.pc = "catch", !.err = "other"]

\* stagingCreationPending: the directory may exist, its identity is unknown;
\* the lock is kept, its handle closed, and nothing else is touched.
StagingUnknown(c) == [op[c] EXCEPT !.pc = "report", !.locked = FALSE, !.confirmed = FALSE, !.err = "other"]

\* The adapter is resolved and read, then the two artifacts are written.
CreateStageFile(c, f) ==
    /\ At(c, IF f = "receipt" THEN "stage_receipt" ELSE "stage_hook")
    /\ IF f = "receipt" /\ Cancelled(c)
       THEN Throw(c, "cancelled") /\ UNCHANGED stage
       ELSE /\ stage' = [stage EXCEPT ![c] = @ \cup {f}]
            /\ Become(c, [op[c] EXCEPT !.pc = IF f = "receipt" THEN "stage_hook" ELSE "probe",
                                       !.staged = @ \cup {f}])
    /\ UNCHANGED <<entry, staging>>

\* verifyNoReplaceCapability, inside the staging directory.
Probe(c) == At(c, "probe") /\ Go(c, "check_staged") /\ UNCHANGED disk

\* onPublished: the caller learns of the new name at once.
KnownAsPublished(r, f) == [r EXCEPT !.settled = @ \cup {f}]

Published(c, f) == Become(c, KnownAsPublished(
    [op[c] EXCEPT !.pc = ConfirmStep[f], !.changed = @ \cup {f}], f))

\* link(2) never takes an occupied name over.
Link(c, f) ==
    /\ At(c, LinkStep[f])
    /\ IF ~Present(f)
       THEN entry' = [entry EXCEPT ![f] = Whole(c)] /\ Published(c, f)
       ELSE Go(c, InspectStep[f]) /\ UNCHANGED entry
    /\ UNCHANGED <<stage, staging>>

\* A link that reported an error may have happened all the same.
InspectPublish(c, f) ==
    /\ At(c, InspectStep[f])
    /\ IF entry[f] = Whole(c) THEN Published(c, f) ELSE Throw(c, "input")
    /\ UNCHANGED disk

\* The lock, then the published file with its two links.
ConfirmPublish(c, f) ==
    /\ At(c, ConfirmStep[f])
    /\ \/ LockErrors(c) = {} /\ entry[f] = Whole(c) /\ Go(c, UnstageStep[f])
       \/ \E e \in LockErrors(c) : Throw(c, e)
       \/ LockErrors(c) = {} /\ entry[f] # Whole(c)
          /\ \E e \in {"input", "recovery", "other"} : Throw(c, e)
    /\ UNCHANGED disk

Unstage(c, f) ==
    /\ At(c, UnstageStep[f])
    /\ IF entry[f] = Whole(c)
       THEN stage' = [stage EXCEPT ![c] = @ \ {f}] /\ Go(c, SettleStep[f])
       ELSE Throw(c, "recovery") /\ UNCHANGED stage    \* one link where two are expected
    /\ UNCHANGED <<entry, staging>>

SettlePublish(c, f) ==
    /\ At(c, SettleStep[f])
    /\ \/ /\ LockErrors(c) = {} /\ Verified(c, f)
          /\ Become(c, [op[c] EXCEPT !.pc = IF f = "receipt" THEN "check_hook" ELSE "check_committed",
                                     !.staged = @ \ {f}, !.settled = @ \cup {f}])
       \/ Verified(c, f) /\ \E e \in LockErrors(c) : Throw(c, e)
       \/ ~Verified(c, f) /\ \E e \in {"input", "recovery", "other"} : Throw(c, e)
    /\ UNCHANGED disk

-----------------------------------------------------------------------------
(* removeClaudeProjectHook.                                                *)

TrackReceipt(c) ==
    /\ At(c, "track_receipt")
    /\ \/ \E e \in LockErrors(c) : Throw(c, e)
       \/ /\ LockErrors(c) = {}
          /\ IF Recorded /\ ~Linked("receipt")
             THEN Become(c, [op[c] EXCEPT !.author = entry["receipt"].by,
                                          !.pc = IF op[c].exact THEN "track_hook" ELSE "inactive"])
             ELSE Throw(c, IF Present("receipt") THEN "input" ELSE "other")
    /\ UNCHANGED disk

TrackHook(c) ==
    /\ At(c, "track_hook")
    /\ IF Cancelled(c) THEN Throw(c, "cancelled")
       ELSE IF Verified(c, "hook") THEN Go(c, "check_exact")
       ELSE Throw(c, IF Present("hook") THEN "input" ELSE "other")
    /\ UNCHANGED disk

\* Once the lock is verified again the removal is committed.
SettleDrop(c, f) ==
    /\ At(c, DroppedStep[f])
    /\ \/ /\ LockErrors(c) = {}
          /\ Become(c, [op[c] EXCEPT !.pc = IF f = "hook" THEN "inactive" ELSE "vacant",
                                     !.settled = @ \cup {f}])
       \/ \E e \in LockErrors(c) : Throw(c, e)
    /\ UNCHANGED disk

-----------------------------------------------------------------------------
(* removeTrackedFile on a fixed name: its bytes are verified, the name is  *)
(* unlinked whatever it has come to mean, and must then be absent.         *)

Unconfirmed(c, l) == Become(c, [op[c] EXCEPT !.pc = l, !.phase = "verify", !.confirmed = FALSE])
Removed(c) ==
    CASE At(c, "unpublish") -> Become(c, [op[c] EXCEPT !.pc = "unpublished", !.phase = "verify"])
      [] At(c, "drop_hook") -> Become(c, [op[c] EXCEPT !.pc = "dropped_hook", !.phase = "verify"])
      [] At(c, "drop_receipt") -> Become(c, [op[c] EXCEPT !.pc = "dropped_receipt", !.phase = "verify"])
      [] At(c, "release") -> Become(c, [op[c] EXCEPT !.pc = "report", !.phase = "verify", !.locked = FALSE])
\* Faulty variant: the lock is released again until that succeeds.
NotRemovedRetrying(c) ==
    IF At(c, "release") THEN Become(c, [op[c] EXCEPT !.phase = "verify"])
    ELSE IF At(c, "unpublish") THEN Unconfirmed(c, "cleanup")
    ELSE Become(c, [op[c] EXCEPT !.pc = "catch", !.phase = "verify", !.err = "recovery"])

NotRemoved(c) ==
    IF At(c, "release")
    THEN Become(c, [op[c] EXCEPT !.pc = "report", !.phase = "verify", !.locked = FALSE, !.confirmed = FALSE])
    ELSE IF At(c, "unpublish") THEN Unconfirmed(c, "cleanup")
    ELSE Become(c, [op[c] EXCEPT !.pc = "catch", !.phase = "verify", !.err = "recovery"])

Target(c) == RemovalOf[op[c].pc]

\* Faulty variant: identity alone, as for the Codex files.
SameFileByName(c, n) == Present(n)

SameFile(c, n) == IF n = "lock" THEN entry[n] = Whole(c) ELSE Verified(c, n)

RemoveVerify(c) ==
    /\ op[c].pc \in Removals /\ op[c].phase = "verify"
    /\ IF SameFile(c, Target(c)) THEN Become(c, [op[c] EXCEPT !.phase = "unlink"])
       ELSE IF ~Present(Target(c)) /\ Target(c) # "lock" THEN Removed(c)
       ELSE NotRemoved(c)
    /\ UNCHANGED disk

\* What the command has taken from the installation, or taken back.
Touched(c) ==
    LET n == Target(c)
    IN IF n = "lock" THEN op[c].changed
       ELSE IF At(c, "unpublish") THEN op[c].changed \ {n} ELSE op[c].changed \cup {n}

RemoveUnlink(c) ==
    /\ op[c].pc \in Removals /\ op[c].phase = "unlink"
    /\ IF Present(Target(c))
       THEN /\ entry' = [entry EXCEPT ![Target(c)] = NoFile]
            /\ Become(c, [op[c] EXCEPT !.phase = "gone", !.changed = Touched(c)])
       ELSE NotRemoved(c) /\ UNCHANGED entry
    /\ UNCHANGED <<stage, staging>>

\* The next command may have created its own lock by now.
RemoveGone(c) ==
    /\ op[c].pc \in Removals /\ op[c].phase = "gone"
    /\ IF Present(Target(c)) THEN NotRemoved(c) ELSE Removed(c)
    /\ UNCHANGED disk

-----------------------------------------------------------------------------
(* Both commands: give everything back and report.                         *)

\* Faulty variant: the receipt stays where it is.
NeedsUnpublishNever(c) == FALSE

\* receiptPublished && !hookPublished
NeedsUnpublish(c) == op[c].settled = {"receipt"}

Catch(c) ==
    /\ At(c, "catch")
    /\ Go(c, IF ~Install(c) THEN IF op[c].locked THEN "release" ELSE "report"
             ELSE IF NeedsUnpublish(c) THEN "check_unpublish" ELSE "cleanup")
    /\ UNCHANGED disk

\* Whatever is wrong here is no error: the receipt just is not taken back.
\* It stays when the settings file has appeared or Git would see the files.
CheckUnpublish(c) ==
    /\ op[c].pc \in {"check_unpublish", "unpublished"}
    /\ \E s \in Observations(c) :
          IF LockErrors(c) # {} THEN Unconfirmed(c, "cleanup")
          ELSE IF At(c, "check_unpublish")
               THEN IF ~s.local /\ s.mutable THEN Go(c, "unpublish") ELSE Unconfirmed(c, "cleanup")
          ELSE IF s.ownership = "absent" THEN Go(c, "cleanup") ELSE Unconfirmed(c, "cleanup")
    /\ UNCHANGED disk

\* A lock whose operation left something behind is kept: it names the
\* staging directory.
AfterCleanup(c, cleaned) == IF op[c].locked /\ cleaned THEN "release" ELSE "report"

\* cleanupOperation.  gone: the staged files it could remove, of those that
\* have one link.
CleanUp(c, gone) ==
    LET left == stage[c] \ gone
        emptied == op[c].tracked => left = {} /\ staging[c] = "clean"
        cleaned == op[c].staged \subseteq gone /\ emptied
    IN /\ stage' = [stage EXCEPT ![c] = left]
       /\ staging' = [staging EXCEPT ![c] = IF op[c].tracked /\ emptied THEN "none" ELSE @]
       /\ Become(c, [op[c] EXCEPT !.pc = AfterCleanup(c, cleaned), !.confirmed = @ /\ cleaned,
                                  !.locked = @ /\ cleaned])

Cleanup(c) ==
    /\ At(c, "cleanup")
    /\ CleanUp(c, {f \in op[c].staged : entry[f] # Whole(c)})
    /\ UNCHANGED entry

\* hookPublished, committed: from here on only success or recovery.
PastCommit(c) == IF Install(c) THEN "hook" \in op[c].settled ELSE Committed(c)

\* Faulty variant: an error is reported as it was caught.
OutcomeUnmapped(c) == op[c].err

Outcome(c) == IF PastCommit(c) \/ ~op[c].confirmed \/ op[c].err = "recovery" THEN "recovery"
              ELSE IF op[c].err = "other" THEN "failed" ELSE op[c].err

\* The last observation of a success is made without the lock.
ReportOutcome(c) ==
    /\ At(c, "report")
    /\ IF op[c].err = "none" /\ op[c].confirmed
       THEN \E s \in Observations(Nobody) :
               Report(c, IF Install(c) THEN IF Installed(s) THEN "installed" ELSE "recovery"
                         ELSE IF Vacated(s) THEN "removed" ELSE "recovery")
       ELSE Report(c, Outcome(c))
    /\ UNCHANGED disk

-----------------------------------------------------------------------------
(* A call that fails: it throws, or reports an error of something that has *)
(* happened all the same.                                                  *)

Littering(c) ==
    /\ staging' \in {staging, [staging EXCEPT ![c] = "littered"]}
    /\ UNCHANGED <<entry, stage>>

FailingCall(c) ==
    \/ /\ At(c, "observe")
       /\ \E r \in {"input", "failed"} : Report(c, r)
       /\ UNCHANGED disk
    \/ At(c, "lock") /\ Throw(c, "other") /\ UNCHANGED disk
    \/ /\ At(c, "write_lock")
       /\ entry' \in {entry} \cup (IF entry["lock"] = Blank(c)
                                     THEN {[entry EXCEPT !["lock"] = Whole(c)]} ELSE {})
       /\ Go(c, "abandon_lock")
       /\ UNCHANGED <<stage, staging>>
    \/ At(c, "abandon_lock") /\ Throw(c, "recovery") /\ UNCHANGED disk
    \/ /\ op[c].pc \in Checks
       /\ \E e \in {"other", "input", Unexpected(op[c].pc)} : Throw(c, e)
       /\ UNCHANGED disk
    \/ /\ At(c, "make_staging")
       /\ staging' \in {staging, [staging EXCEPT ![c] = "clean"]}
       /\ Become(c, StagingUnknown(c))
       /\ UNCHANGED <<entry, stage>>
    \/ op[c].pc \in {"stage_receipt", "stage_hook"} /\ Littering(c) /\ Throw(c, "other")
    \/ At(c, "probe") /\ Littering(c) /\ \E e \in {"input", "other"} : Throw(c, e)
    \/ /\ \E f \in Artifacts :
            /\ At(c, LinkStep[f])
            /\ entry' \in {entry} \cup (IF Present(f) THEN {} ELSE {[entry EXCEPT ![f] = Whole(c)]})
            /\ Become(c, [op[c] EXCEPT !.pc = InspectStep[f],
                                       !.changed = IF entry' = entry THEN @ ELSE @ \cup {f}])
       /\ UNCHANGED <<stage, staging>>
    \/ op[c].pc \in StepsOf(InspectStep) /\ Throw(c, "recovery") /\ UNCHANGED disk
    \/ /\ op[c].pc \in StepsOf(ConfirmStep) \cup StepsOf(SettleStep) \cup StepsOf(DroppedStep)
                       \cup {"track_receipt", "track_hook"}
       /\ \E e \in {"input", "recovery", "other"} : Throw(c, e)
       /\ UNCHANGED disk
    \/ /\ \E f \in Artifacts :
            /\ At(c, UnstageStep[f])
            /\ stage' \in {stage, [stage EXCEPT ![c] = @ \ {f}]}
       /\ Throw(c, "recovery")
       /\ UNCHANGED <<entry, staging>>
    \/ op[c].pc \in Removals /\ NotRemoved(c) /\ UNCHANGED disk
    \/ op[c].pc \in {"check_unpublish", "unpublished"} /\ Unconfirmed(c, "cleanup") /\ UNCHANGED disk
    \/ /\ At(c, "cleanup")
       /\ \E gone \in SUBSET {f \in op[c].staged : entry[f] # Whole(c)} :
             gone # op[c].staged /\ CleanUp(c, gone)
       /\ UNCHANGED entry
    \/ At(c, "report") /\ Report(c, "recovery") /\ UNCHANGED disk

Fail(c) ==
    /\ faults < scenario.faults /\ faults' = faults + 1
    /\ op[c].pc \in FaultSteps
    /\ FailingCall(c)
    /\ UNCHANGED <<hygiene, scenario, changes>>

-----------------------------------------------------------------------------
(* The world around the commands.                                          *)

Cancel(c) ==
    /\ Running(c) /\ ~Cancelled(c)
    /\ Become(c, [op[c] EXCEPT !.aborted = TRUE])
    /\ UNCHANGED <<disk, hygiene, scenario, faults, changes>>

\* The process is killed: its files stay.
Crash(c) ==
    /\ c \in scenario.crashers /\ Running(c)
    /\ Go(c, "crashed")
    /\ UNCHANGED <<disk, hygiene, scenario, faults, changes>>

\* Another program creates or replaces a file, changes what Git ignores, or
\* edits the shared settings.  A file replaced between the last look at it
\* and its unlink is lost, as Node has no conditional unlink: left out here.
AboutToUnlink(n) == \E c \in Commands : op[c].pc \in Removals /\ op[c].phase = "unlink" /\ Target(c) = n

EnvStep ==
    /\ changes < scenario.changes /\ changes' = changes + 1
    /\ \/ /\ \E n \in FixedNames :
                /\ \/ n \in EnvNames /\ ~Present(n)
                   \/ n \in EnvEdits /\ Present(n) /\ ~AboutToUnlink(n)
                /\ entry' = [entry EXCEPT ![n] = Foreign]
          /\ UNCHANGED hygiene
       \/ hygiene' \in Hygienes \ {hygiene} /\ UNCHANGED entry
    /\ UNCHANGED <<stage, staging, op, scenario, faults>>

Step(c) ==
    /\ \/ ObserveFirst(c) \/ CreateLock(c) \/ WriteLock(c) \/ AbandonLock(c) \/ Check(c)
       \/ MakeStaging(c) \/ Probe(c)
       \/ \E f \in Artifacts : \/ CreateStageFile(c, f) \/ Link(c, f) \/ InspectPublish(c, f)
                               \/ ConfirmPublish(c, f) \/ Unstage(c, f) \/ SettlePublish(c, f)
                               \/ SettleDrop(c, f)
       \/ TrackReceipt(c) \/ TrackHook(c)
       \/ RemoveVerify(c) \/ RemoveUnlink(c) \/ RemoveGone(c)
       \/ Catch(c) \/ CheckUnpublish(c) \/ Cleanup(c) \/ ReportOutcome(c)
    /\ UNCHANGED <<hygiene, scenario, faults, changes>>

Next == EnvStep \/ \E c \in Commands : Step(c) \/ Fail(c) \/ Cancel(c) \/ Crash(c)

\* A running command is never blocked; nothing forces a failure, a
\* cancellation, a crash or a foreign change.
Fairness == \A c \in Commands : WF_vars(Step(c))

Spec == Init /\ [][Next]_vars /\ Fairness

-----------------------------------------------------------------------------
(* Properties.                                                             *)

\* Whatever fails, is cancelled or is killed, a hook of AgentHawk's that the
\* host would run has the receipt that owns it beside it.
HookKeepsRecord ==
    entry["hook"].by # Nobody => entry["receipt"] = entry["hook"]

\* A refused, failed or cancelled command has left nothing behind: what it
\* linked it has unlinked, what it was to remove is there, its staging
\* directory and its lock are gone.
RefusalLeavesNothing ==
    \A c \in Commands : op[c].result \in Refusals =>
       /\ op[c].changed = {} /\ staging[c] = "none" /\ entry["lock"].by # c

\* A staging directory that stays behind, after a failure or a crash, can be
\* found: the lock that names it stays as well ("discoverable recovery").
LeftoversStayDiscoverable ==
    \A c \in Commands : staging[c] # "none" => entry["lock"] = Whole(c)

\* Once the settings file is linked, or a file of the installation removed, a
\* cancellation neither interrupts the command nor becomes its answer.
CommitOutlivesCancellation ==
    \A c \in Commands : PastCommit(c) => op[c].err # "cancelled" /\ op[c].result # "cancelled"

\* A file somebody else put under a fixed name, or in place of the settings
\* file, keeps its name whatever the commands were about to do.
ForeignFilesStay ==
    [][\A n \in FixedNames : entry[n] = Foreign => entry'[n] = Foreign]_vars

\* One command at a time changes the installation, one file at a time, with
\* the lock file as the sign of who may; a killed command keeps its place.
\* (Another program that replaces the settings file takes no such step.)
Lifecycle == INSTANCE HookLifecycle WITH writer <- entry["lock"].by,
                                         record <- entry["receipt"].by,
                                         hook <- entry["hook"].by
ImplementsLifecycle ==
    [][changes' # changes \/ Lifecycle!Next]_(Lifecycle!lifecycle)

\* Every command that is not killed reports, also when another one was killed
\* with the lock in its hand.
EveryCommandReports == \A c \in Commands : <>(~Running(c))
=============================================================================
