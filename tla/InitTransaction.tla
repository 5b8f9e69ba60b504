-------------------------- MODULE InitTransaction --------------------------
(***************************************************************************)
(* init.ts: several "agenthawk init" in one repository, failing, killed,   *)
(* and beside programs that create, edit, replace and delete files.        *)
(*                                                                         *)
(* Only the holder of the lock file publishes; it links complete files     *)
(* into place, never over anything, and on an error takes back what it     *)
(* made if that is still what it made.                                     *)
(*                                                                         *)
(* Every command creates a name at most once, so the author of a file or   *)
(* directory stands for its inode.  A name that differs in case only, or a *)
(* link of any kind, counts as something else standing there.              *)
(***************************************************************************)
EXTENDS Naturals, Sequences, FiniteSets

CONSTANTS
    Commands,     \* the invocations
    Nobody,       \* the author of what no invocation created
    Scenarios,    \* what each invocation initializes, and how often calls may fail
                  \* and other programs may interfere, and who may be killed
    FaultSteps,   \* the steps at which a call may fail
    EnvNames      \* the names other programs touch

VARIABLES
    entry,        \* what stands under each fixed name
    stage,        \* the staged files of each command
    staging,      \* its staging directory exists
    op,           \* the local variables of each command
    scenario,     \* the scenario that is played
    faults,       \* how many calls have failed
    changes,      \* how many foreign changes there were
    touched       \* history: the names they changed

disk == <<entry, stage, staging>>
world == <<scenario, faults, changes, touched>>
vars == <<disk, op, world>>

-----------------------------------------------------------------------------
(* The targets, their parent directories, and what may stand there.        *)

\* initAssets: "agents" stands for the three targets without parents.
Assets == [none |-> <<"policy">>, codex |-> <<"policy", "agents">>, cursor |-> <<"policy", "rule">>]
Integrations == DOMAIN Assets
Targets == {"policy", "agents", "rule"}
Dirs == {"cursor", "rules"}
Names == Targets \cup Dirs \cup {"lock"}

\* The directories above a name, from the root down.
Above == [n \in Names |-> CASE n = "rule" -> <<"cursor", "rules">>
                            [] n = "rules" -> <<"cursor">>
                            [] OTHER -> <<>>]
AboveSet(n) == {Above[n][i] : i \in DOMAIN Above[n]}
Below(d) == {n \in Names : d \in AboveSet(n)}

\* All inits write the same bytes: "whole".  A foreign file may have them too.
Nodes == [kind : {"none", "file", "dir"}, by : Commands \cup {Nobody},
          content : {"blank", "whole", "edited"}]
Nothing == [kind |-> "none", by |-> Nobody, content |-> "blank"]
Directory(who) == [kind |-> "dir", by |-> who, content |-> "blank"]
File(who, what) == [kind |-> "file", by |-> who, content |-> what]

Exists(n) == entry[n].kind # "none"
IsDir(n) == entry[n].kind = "dir"
InPlace(n) == \A d \in AboveSet(n) : IsDir(d)

\* ENOENT, as against ENOTDIR.
Missing(n) == ~Exists(n) /\ \A d \in AboveSet(n) : entry[d].kind # "file"

\* The target still has its second name in the staging directory.
Linked(t) == \E c \in Commands : entry[t].by = c /\ entry[t].kind = "file" /\ stage[c][t] # "none"

\* inspectParents
ParentsOf(t) ==
    IF InPlace(t) THEN "present"
    ELSE IF \E i \in DOMAIN Above[t] : /\ ~Exists(Above[t][i])
                                      /\ \A j \in 1..(i - 1) : IsDir(Above[t][j])
    THEN "missing" ELSE "unsafe"

-----------------------------------------------------------------------------
(* The commands.                                                           *)

Forward == {"look", "reread", "lock", "write_lock", "parents", "made_parent", "make_staging",
            "open_stage", "write_stage", "check_target", "link", "unstage", "verify",
            "remove_staging", "close_lock", "release"}
Backward == {"undo_files", "undo_staged", "undo_staging", "undo_dirs", "undo_lock"}
Steps == Forward \cup Backward \cup {"report"}
Labels == Steps \cup {"idle", "done", "crashed"}

Errors == {"none", "input", "other", "unconfirmed"}
\* "input" is exit code 2; exit code 4 is "failed" (failed safely) or
\* "unconfirmed" (cleanup could not be confirmed).
Results == {"none", "initialized", "input", "failed", "unconfirmed"}

SeqsOf(S) == UNION {[1..n -> S] : n \in 0..2}
Operations ==
    [pc : Labels,
     assets : {Assets[i] : i \in Integrations},
     next : 1..3,                            \* the asset at hand
     depth : 1..3,                           \* and the parent at hand
     held : BOOLEAN,                         \* the second preparation, under the lock
     looked : Nodes,                         \* initial: what lstat said
     state : [Targets -> {"absent", "unchanged"}],
     lock : {"none", "unknown", "whole"},    \* lock, and lock.bytes
     tracked : BOOLEAN,                      \* stagingDirectory
     staged : SUBSET Targets,                \* stagedFiles ...
     known : SUBSET Targets,                 \* ... with bytes
     created : SeqsOf(Targets),              \* createdFiles
     dirs : SeqsOf(Dirs),                    \* createdDirectories
     err : Errors,
     confirmed : BOOLEAN,
     result : Results]

ASSUME InitTransactionAssumption ==
    /\ Nobody \notin Commands
    /\ Scenarios \subseteq [runs : [Commands -> Integrations \cup {"idle"}], faults : Nat,
                            changes : Nat, crashers : SUBSET Commands]
    /\ FaultSteps \subseteq Steps
    /\ EnvNames \subseteq Names

\* Every object has its author and every author his objects: a lock is never a
\* directory, a directory of ours has no bytes, a staged file is in the list.
TypeOK ==
    /\ entry \in [Names -> Nodes]
    /\ stage \in [Commands -> [Targets -> {"none", "blank", "whole", "edited"}]]
    /\ staging \in [Commands -> BOOLEAN]
    /\ op \in [Commands -> Operations]
    /\ scenario \in Scenarios
    /\ faults \in 0..scenario.faults
    /\ changes \in 0..scenario.changes
    /\ touched \subseteq EnvNames \cup UNION {Below(n) : n \in EnvNames}

Begin(integration) ==
    [pc |-> IF integration = "idle" THEN "idle" ELSE "look",
     assets |-> IF integration = "idle" THEN Assets["none"] ELSE Assets[integration],
     next |-> 1, depth |-> 1, held |-> FALSE, looked |-> Nothing,
     state |-> [t \in Targets |-> "absent"], lock |-> "none", tracked |-> FALSE,
     staged |-> {}, known |-> {}, created |-> <<>>, dirs |-> <<>>,
     err |-> "none", confirmed |-> TRUE, result |-> "none"]

Init ==
    /\ scenario \in Scenarios
    /\ op = [c \in Commands |-> Begin(scenario.runs[c])]
    /\ entry = [n \in Names |-> Nothing]
    /\ stage = [c \in Commands |-> [t \in Targets |-> "none"]]
    /\ staging = [c \in Commands |-> FALSE]
    /\ faults = 0 /\ changes = 0 /\ touched = {}

At(c, l) == op[c].pc = l
Running(c) == op[c].pc \notin {"idle", "done", "crashed"}
Become(c, r) == op' = [op EXCEPT ![c] = r]
Go(c, l) == Become(c, [op[c] EXCEPT !.pc = l])

\* Any error leads to the rollback.
Thrown(r, e) == [r EXCEPT !.pc = "undo_files", !.err = e]
Throw(c, e) == Become(c, Thrown(op[c], e))

Asset(c) == op[c].assets[op[c].next]
Put(n, node) == entry' = [entry EXCEPT ![n] = node]

-----------------------------------------------------------------------------
(* prepareAssets: before the lock, and again under it.                     *)

\* Faulty variant: what was found before the lock is taken for granted.
AfterLockStale == "parents"

AfterLock == "look"

Conclude(c, s) ==
    LET last == op[c].next = Len(op[c].assets)
    IN Become(c, [op[c] EXCEPT
            !.state[Asset(c)] = s,
            !.next = IF last THEN 1 ELSE @ + 1,
            !.pc = IF ~last THEN "look" ELSE IF op[c].held THEN "parents" ELSE "lock"])

Look(c) ==
    /\ At(c, "look")
    /\ LET t == Asset(c)
       IN IF ParentsOf(t) = "unsafe" THEN Throw(c, "input")
          ELSE IF ~Exists(t) THEN Conclude(c, "absent")
          ELSE IF entry[t].kind = "file" /\ ~Linked(t)
          THEN Become(c, [op[c] EXCEPT !.pc = "reread", !.looked = entry[t]])
          ELSE Throw(c, "input")
    /\ UNCHANGED disk

\* Bytes that changed since were written in place or by way of a new file.
\* What is gone when it is looked at last is no input error: that call is bare.
Reread(c) ==
    /\ At(c, "reread")
    /\ LET t == Asset(c)
       IN \/ /\ entry[t] = File(op[c].looked.by, "whole") /\ ~Linked(t)
             /\ Conclude(c, "unchanged")
          \/ /\ entry[t] # File(op[c].looked.by, "whole") \/ Linked(t) \/ entry[t] # op[c].looked
             /\ Throw(c, "input")
          \/ ~Exists(t) /\ Throw(c, "other")
    /\ UNCHANGED disk

-----------------------------------------------------------------------------
(* The lock, the parents, the staging directory.                           *)

\* open(lockPath, "wx")
CreateLock(c) ==
    /\ At(c, "lock")
    /\ IF ~Exists("lock")
       THEN Put("lock", File(c, "blank"))
            /\ Become(c, [op[c] EXCEPT !.pc = "write_lock", !.lock = "unknown"])
       ELSE Throw(c, "input") /\ UNCHANGED entry
    /\ UNCHANGED <<stage, staging>>

WriteLock(c) ==
    /\ At(c, "write_lock")
    /\ IF entry["lock"] = File(c, "blank") THEN Put("lock", File(c, "whole")) ELSE UNCHANGED entry
    /\ Become(c, [op[c] EXCEPT !.pc = AfterLock, !.held = TRUE, !.lock = "whole"])
    /\ UNCHANGED <<stage, staging>>

\* The next asset that has to be created, from i on.
NextAbsent(c, i) ==
    LET absent == {j \in i..Len(op[c].assets) : op[c].state[op[c].assets[j]] = "absent"}
    IN IF absent = {} THEN Len(op[c].assets) + 1 ELSE CHOOSE j \in absent : \A k \in absent : j <= k

\* createParentDirectories, one segment after the other.
MakeParent(c) ==
    /\ At(c, "parents")
    /\ LET i == NextAbsent(c, op[c].next)
           path == Above[op[c].assets[i]]
           d == path[op[c].depth]
       IN IF i > Len(op[c].assets)
          THEN Become(c, [op[c] EXCEPT !.pc = "make_staging", !.next = 1, !.depth = 1]) /\ UNCHANGED entry
          ELSE IF op[c].depth > Len(path)
          THEN Become(c, [op[c] EXCEPT !.next = i + 1, !.depth = 1]) /\ UNCHANGED entry
          ELSE IF IsDir(d)
          THEN Become(c, [op[c] EXCEPT !.next = i, !.depth = @ + 1]) /\ UNCHANGED entry
          ELSE IF ~Exists(d) /\ InPlace(d)
          THEN /\ Put(d, Directory(c))
               /\ Become(c, [op[c] EXCEPT !.pc = "made_parent", !.next = i, !.dirs = Append(@, d)])
          ELSE Throw(c, "input") /\ UNCHANGED entry
    /\ UNCHANGED <<stage, staging>>

\* The new directory must still be the one that was made.
VerifyParent(c) ==
    /\ At(c, "made_parent")
    /\ LET d == op[c].dirs[Len(op[c].dirs)]
       IN IF entry[d] = Directory(c)
          THEN Become(c, [op[c] EXCEPT !.pc = "parents", !.depth = @ + 1])
          ELSE Throw(c, IF Exists(d) THEN "input" ELSE "other")
    /\ UNCHANGED disk

MakeStaging(c) ==
    /\ At(c, "make_staging")
    /\ staging' = [staging EXCEPT ![c] = TRUE]
    /\ Become(c, [op[c] EXCEPT !.pc = "open_stage", !.tracked = TRUE])
    /\ UNCHANGED <<entry, stage>>

-----------------------------------------------------------------------------
(* Publishing one asset after the other.                                   *)

OpenStage(c) ==
    /\ At(c, "open_stage")
    /\ LET i == NextAbsent(c, op[c].next)
           t == op[c].assets[i]
       IN IF i > Len(op[c].assets)
          THEN Go(c, "remove_staging") /\ UNCHANGED stage
          ELSE /\ stage' = [stage EXCEPT ![c][t] = "blank"]
               /\ Become(c, [op[c] EXCEPT !.pc = "write_stage", !.next = i, !.staged = @ \cup {t}])
    /\ UNCHANGED <<entry, staging>>

WriteStage(c) ==
    /\ At(c, "write_stage")
    /\ stage' = [stage EXCEPT ![c][Asset(c)] = "whole"]
    /\ Become(c, [op[c] EXCEPT !.pc = "check_target", !.known = @ \cup {Asset(c)}])
    /\ UNCHANGED <<entry, staging>>

\* assertPublishTarget
CheckTarget(c) ==
    /\ At(c, "check_target")
    /\ IF ParentsOf(Asset(c)) = "present" /\ ~Exists(Asset(c)) THEN Go(c, "link") ELSE Throw(c, "input")
    /\ UNCHANGED disk

Free(t) == ~Exists(t)

\* link(2): EEXIST and ENOENT are errors alike.
Link(c) ==
    /\ At(c, "link")
    /\ IF InPlace(Asset(c)) /\ Free(Asset(c))
       THEN /\ Put(Asset(c), File(c, "whole"))
            /\ Become(c, [op[c] EXCEPT !.pc = "unstage", !.created = Append(@, Asset(c))])
       ELSE Throw(c, "input") /\ UNCHANGED entry
    /\ UNCHANGED <<stage, staging>>

Unstage(c) ==
    /\ At(c, "unstage")
    /\ IF stage[c][Asset(c)] = "whole"
       THEN /\ stage' = [stage EXCEPT ![c][Asset(c)] = "none"]
            /\ Become(c, [op[c] EXCEPT !.pc = "verify", !.staged = @ \ {Asset(c)}])
       ELSE Throw(c, "unconfirmed") /\ UNCHANGED stage
    /\ UNCHANGED <<entry, staging>>

\* verifyExpectedFile
Verify(c) ==
    /\ At(c, "verify")
    /\ IF InPlace(Asset(c)) /\ entry[Asset(c)] = File(c, "whole")
       THEN Become(c, [op[c] EXCEPT !.pc = "open_stage", !.next = @ + 1])
       ELSE Throw(c, "other")
    /\ UNCHANGED disk

RemoveStaging(c) ==
    /\ At(c, "remove_staging")
    /\ staging' = [staging EXCEPT ![c] = FALSE]
    /\ Become(c, [op[c] EXCEPT !.pc = "close_lock", !.tracked = FALSE])
    /\ UNCHANGED <<entry, stage>>

\* Faulty variant: whatever has the identity is removed.
StillOursByIdentity(c, n) == entry[n].kind = "file" /\ entry[n].by = c

\* removeTrackedFile: identity, and every byte.
StillOurs(c, n) == entry[n] = File(c, "whole")

CloseLock(c) == At(c, "close_lock") /\ Go(c, "release") /\ UNCHANGED disk

Release(c) ==
    /\ At(c, "release")
    /\ IF StillOurs(c, "lock") \/ Missing("lock")
       THEN Put("lock", Nothing) /\ Become(c, [op[c] EXCEPT !.pc = "report", !.lock = "none"])
       ELSE Throw(c, "other") /\ UNCHANGED entry
    /\ UNCHANGED <<stage, staging>>

-----------------------------------------------------------------------------
(* rollback: the latest first; what cannot be removed is passed over.      *)

Undone(r, l, ok) == [r EXCEPT !.pc = l, !.confirmed = @ /\ ok]

UndoFile(c) ==
    /\ At(c, "undo_files")
    /\ LET files == op[c].created
           t == files[Len(files)]
       IN IF files = <<>> THEN Go(c, "undo_staged") /\ UNCHANGED entry
          ELSE /\ IF StillOurs(c, t) THEN Put(t, Nothing) ELSE UNCHANGED entry
               /\ Become(c, Undone([op[c] EXCEPT !.created = SubSeq(@, 1, Len(@) - 1)], "undo_files",
                                   StillOurs(c, t) \/ Missing(t)))
    /\ UNCHANGED <<stage, staging>>

\* A staged file whose write never ended has no known bytes.
UndoStaged(c) ==
    /\ At(c, "undo_staged")
    /\ LET removable == {t \in op[c].staged \cap op[c].known : stage[c][t] = "whole"}
       IN /\ stage' = [stage EXCEPT ![c] = [t \in Targets |-> IF t \in removable THEN "none" ELSE @[t]]]
          /\ Become(c, Undone([op[c] EXCEPT !.staged = {}], "undo_staging", removable = op[c].staged))
    /\ UNCHANGED <<entry, staging>>

UndoStaging(c) ==
    /\ At(c, "undo_staging")
    /\ LET empty == \A t \in Targets : stage[c][t] = "none"
       IN /\ staging' = [staging EXCEPT ![c] = IF op[c].tracked /\ empty THEN FALSE ELSE @]
          /\ Become(c, Undone(op[c], "undo_dirs", op[c].tracked => empty))
    /\ UNCHANGED <<entry, stage>>

\* rmdir never removes a directory with something in it.
UndoDir(c) ==
    /\ At(c, "undo_dirs")
    /\ LET dirs == op[c].dirs
           d == dirs[Len(dirs)]
           removable == entry[d] = Directory(c) /\ \A n \in Below(d) : ~Exists(n)
       IN IF dirs = <<>> THEN Go(c, IF op[c].lock = "none" THEN "report" ELSE "undo_lock") /\ UNCHANGED entry
          ELSE /\ IF removable THEN Put(d, Nothing) ELSE UNCHANGED entry
               /\ Become(c, Undone([op[c] EXCEPT !.dirs = SubSeq(@, 1, Len(@) - 1)], "undo_dirs",
                                   removable \/ Missing(d)))
    /\ UNCHANGED <<stage, staging>>

UndoLock(c) ==
    /\ At(c, "undo_lock")
    /\ LET removable == op[c].lock = "whole" /\ StillOurs(c, "lock")
       IN /\ IF removable THEN Put("lock", Nothing) ELSE UNCHANGED entry
          /\ Become(c, Undone([op[c] EXCEPT !.lock = "none"], "report", removable \/ Missing("lock")))
    /\ UNCHANGED <<stage, staging>>

\* Faulty variant: the rollback alone decides whether the cleanup is confirmed.
CleanedRolledBack(c) == op[c].confirmed

\* cleanupConfirmed
Cleaned(c) == op[c].confirmed /\ op[c].err # "unconfirmed"

\* Faulty variant: the bytes on disk are the answer.
OutcomeRaw(c) == op[c].err

Outcome(c) ==
    IF op[c].err = "none" THEN "initialized"
    ELSE IF ~Cleaned(c) THEN "unconfirmed"
    ELSE IF op[c].err = "input" THEN "input" ELSE "failed"

Report(c) ==
    /\ At(c, "report")
    /\ Become(c, [op[c] EXCEPT !.pc = "done", !.result = Outcome(c)])
    /\ UNCHANGED disk

-----------------------------------------------------------------------------
(* A call that fails; some have done their work before.                    *)

FailingCall(c) ==
    \/ op[c].pc \in {"look", "reread", "lock", "check_target", "link"} /\ Throw(c, "input") /\ UNCHANGED disk
    \/ /\ At(c, "lock") /\ ~Exists("lock")              \* its fstat
       /\ Put("lock", File(c, "blank")) /\ Throw(c, "unconfirmed")
       /\ UNCHANGED <<stage, staging>>
    \/ /\ At(c, "write_lock")                           \* the write, or the sync
       /\ \/ Throw(c, "other") /\ UNCHANGED entry
          \/ /\ entry["lock"] = File(c, "blank") /\ Put("lock", File(c, "whole"))
             /\ Become(c, [Thrown(op[c], "other") EXCEPT !.lock = "whole"])
       /\ UNCHANGED <<stage, staging>>
    \/ /\ At(c, "parents")
       /\ LET i == NextAbsent(c, op[c].next)
              path == Above[op[c].assets[i]]
              d == path[op[c].depth]
          IN /\ i <= Len(op[c].assets) /\ op[c].depth <= Len(path)
             /\ \/ Throw(c, "input") /\ UNCHANGED entry
                \/ ~Exists(d) /\ InPlace(d) /\ Put(d, Directory(c)) /\ Throw(c, "unconfirmed")
       /\ UNCHANGED <<stage, staging>>
    \/ /\ At(c, "make_staging")
       /\ \/ (\E e \in {"input", "other"} : Throw(c, e)) /\ UNCHANGED staging
          \/ staging' = [staging EXCEPT ![c] = TRUE] /\ Throw(c, "unconfirmed")
       /\ UNCHANGED <<entry, stage>>
    \/ /\ At(c, "open_stage") /\ NextAbsent(c, op[c].next) <= Len(op[c].assets)
       /\ LET t == op[c].assets[NextAbsent(c, op[c].next)]
          IN \/ Throw(c, "other") /\ UNCHANGED stage
             \/ stage' = [stage EXCEPT ![c][t] = "blank"] /\ Throw(c, "unconfirmed")
       /\ UNCHANGED <<entry, staging>>
    \/ /\ At(c, "write_stage")
       /\ \/ Throw(c, "other") /\ UNCHANGED stage
          \/ /\ stage' = [stage EXCEPT ![c][Asset(c)] = "whole"]
             /\ Become(c, [Thrown(op[c], "other") EXCEPT !.known = @ \cup {Asset(c)}])
       /\ UNCHANGED <<entry, staging>>
    \/ At(c, "unstage") /\ Throw(c, "unconfirmed") /\ UNCHANGED disk
    \/ op[c].pc \in {"reread", "made_parent", "verify", "remove_staging", "release"} /\ Throw(c, "other") /\ UNCHANGED disk
    \/ /\ At(c, "close_lock")                           \* the lock goes all the same
       /\ Put("lock", IF StillOurs(c, "lock") THEN Nothing ELSE entry["lock"])
       /\ Throw(c, "other") /\ UNCHANGED <<stage, staging>>
    \/ /\ At(c, "undo_files") /\ op[c].created # <<>>
       /\ Become(c, Undone([op[c] EXCEPT !.created = SubSeq(@, 1, Len(@) - 1)], "undo_files", FALSE))
       /\ UNCHANGED disk
    \/ /\ At(c, "undo_staged") /\ op[c].staged # {}
       /\ Become(c, Undone([op[c] EXCEPT !.staged = {}], "undo_staging", FALSE))
       /\ UNCHANGED disk
    \/ At(c, "undo_staging") /\ op[c].tracked /\ Become(c, Undone(op[c], "undo_dirs", FALSE)) /\ UNCHANGED disk
    \/ /\ At(c, "undo_dirs") /\ op[c].dirs # <<>>
       /\ Become(c, Undone([op[c] EXCEPT !.dirs = SubSeq(@, 1, Len(@) - 1)], "undo_dirs", FALSE))
       /\ UNCHANGED disk
    \/ /\ At(c, "undo_lock")
       /\ Become(c, Undone([op[c] EXCEPT !.lock = "none"], "report", FALSE))
       /\ UNCHANGED disk

Fail(c) ==
    /\ op[c].pc \in FaultSteps
    /\ faults < scenario.faults /\ faults' = faults + 1
    /\ FailingCall(c)
    /\ UNCHANGED <<scenario, changes, touched>>

-----------------------------------------------------------------------------
(* Kills, and other programs.                                              *)

Crash(c) ==
    /\ c \in scenario.crashers /\ Running(c)
    /\ Go(c, "crashed")
    /\ UNCHANGED <<disk, world>>

Touch(n) ==
    /\ changes < scenario.changes /\ changes' = changes + 1
    /\ n \in EnvNames

ForeignNodes(n) == IF n \in Dirs THEN {Directory(Nobody), File(Nobody, "edited")}
                   ELSE {File(Nobody, "whole"), File(Nobody, "edited")}

\* Nobody creates or replaces a lock.
Create(n) ==
    /\ Touch(n) /\ n # "lock" /\ InPlace(n)
    /\ \E node \in ForeignNodes(n) :
          /\ node # entry[n]
          /\ entry' = [m \in Names |-> IF m = n THEN node ELSE IF m \in Below(n) THEN Nothing ELSE entry[m]]
    /\ touched' = touched \cup {n} \cup Below(n)
    /\ UNCHANGED stage

\* In place: a staged file that is linked already changes with its target.
Edit(n) ==
    /\ Touch(n) /\ entry[n].kind = "file" /\ entry[n].content = "whole"
    /\ Put(n, [entry[n] EXCEPT !.content = "edited"])
    /\ stage' = [c \in Commands |-> [t \in Targets |->
                   IF t = n /\ entry[n].by = c /\ stage[c][t] # "none" THEN "edited" ELSE stage[c][t]]]
    /\ touched' = touched \cup {n}

\* A lock is removed when its owner is known to be gone.
Delete(n) ==
    /\ Touch(n) /\ Exists(n)
    /\ n = "lock" => op[entry["lock"].by].pc = "crashed"
    /\ entry' = [m \in Names |-> IF m = n \/ m \in Below(n) THEN Nothing ELSE entry[m]]
    /\ touched' = touched \cup {n} \cup Below(n)
    /\ UNCHANGED stage

EnvStep ==
    /\ \E n \in Names : Create(n) \/ Edit(n) \/ Delete(n)
    /\ UNCHANGED <<staging, op, scenario, faults>>

Step(c) ==
    /\ \/ Look(c) \/ Reread(c) \/ CreateLock(c) \/ WriteLock(c) \/ MakeParent(c) \/ VerifyParent(c)
       \/ MakeStaging(c) \/ OpenStage(c) \/ WriteStage(c) \/ CheckTarget(c) \/ Link(c) \/ Unstage(c)
       \/ Verify(c) \/ RemoveStaging(c) \/ CloseLock(c) \/ Release(c)
       \/ UndoFile(c) \/ UndoStaged(c) \/ UndoStaging(c) \/ UndoDir(c) \/ UndoLock(c) \/ Report(c)
    /\ UNCHANGED world

Next == EnvStep \/ \E c \in Commands : Step(c) \/ Fail(c) \/ Crash(c)

Spec == Init /\ [][Next]_vars

-----------------------------------------------------------------------------
(* Properties.                                                             *)

\* A success lasts: the targets a command reported, those it found unchanged
\* included, stay as they are unless another program touches them.  No other
\* init takes them back in its rollback.
SuccessStands ==
    \A c \in Commands : op[c].result = "initialized" =>
       \A i \in DOMAIN op[c].assets :
          LET t == op[c].assets[i]
          IN t \notin touched => InPlace(t) /\ entry[t].kind = "file" /\ entry[t].content = "whole"

\* What a command has made and not taken back.
Made(c) == {n \in Names : entry[n].by = c}
Leftovers(c) == staging[c] \/ Made(c) # {} \/ \E t \in Targets : stage[c][t] # "none"

\* Nothing is left behind unsaid: what a command leaves is an initialization
\* it reports, or the answer says the cleanup is unconfirmed, or (killed) the
\* lock stands there and stops the next init.  "failed safely" and exit code 2
\* mean that nothing is left.
LeftoversAreAccounted ==
    \A c \in Commands : Leftovers(c) =>
       \/ Running(c)
       \/ op[c].result = "unconfirmed"
       \/ /\ op[c].result = "initialized" \/ (op[c].pc = "crashed" /\ op[c].err = "none")
          /\ ~staging[c] /\ "lock" \notin Made(c)
       \/ /\ op[c].pc = "crashed"
          /\ \/ "lock" \in Made(c) \cup touched     \* discoverable
             \/ ~Cleaned(c)                         \* killed before it could say so

\* What another program has put under a fixed name, or written into a file of
\* ours, the targets and the lock alike, is neither removed nor written over.
OthersWorkStays ==
    [][changes' # changes \/
       \A n \in Names : entry[n].content = "edited" \/ (Exists(n) /\ entry[n].by = Nobody)
                          => entry'[n] = entry[n]]_vars
=============================================================================
