----------------------- MODULE CodexHookLifecycleProofs -----------------------
(***************************************************************************)
(* CodexHookTransaction implements HookLifecycle: proofs about what the    *)
(* commands do to the receipt and the hook, for any number of commands,    *)
(* crashes and cancellations, and for any failing call but the few the     *)
(* theorems name, as long as no other program touches the three files.     *)
(* The last part is about what a refusal leaves and what other programs    *)
(* own, where others may create files under any of the names.              *)
(***************************************************************************)
EXTENDS CodexHookTransactionProofs

-----------------------------------------------------------------------------
(* The invariant: what lies on the disk, who holds the lock, and what the  *)
(* command that holds it knows of the two files at each of its steps.      *)

\* No call fails between the link of the hook and the note that it is there.
HookCallsSucceed ==
    FaultSteps \cap {"inspect_hook", "confirm_hook", "unstage_hook", "settle_hook"} = {}

\* A name or a staged name has its inode to itself, but for a file that is
\* being published, and a staged file is what its command built.
FilesInv ==
    /\ \A m, n \in FixedNames : Present(m) /\ entry[m] = entry[n] => m = n
    /\ \A c, d \in Commands, f, g \in Artifacts :
          stage[c][f] # NoInode /\ stage[c][f] = stage[d][g] => c = d /\ f = g
    /\ \A n \in FixedNames, c \in Commands, f \in Artifacts :
          stage[c][f] # NoInode /\ entry[n] = stage[c][f] => n = f
    /\ \A c \in Commands, f \in Artifacts :
          stage[c][f] # NoInode => content[stage[c][f]] = Bytes(f, c)
    /\ \A f \in Artifacts : Present(f) =>
          content[entry[f]].kind = f /\ content[entry[f]].by \in Commands
    /\ Present("lock") => content[entry["lock"]].by \in Commands

\* Whoever made the lock and has not let it go, dead or alive, is who it says.
HolderInv ==
    \A c \in Commands : op[c].lock # NoInode =>
       entry["lock"] = op[c].lock /\ content[entry["lock"]].by = c

Tracked(r, f) == /\ Present(f) /\ entry[f] = r.file[f]
                 /\ content[entry[f]] = Bytes(f, r.author)

\* The steps of an installation after it has staged its receipt, after it has
\* given the receipt its name, and after it has given the hook its own.
StagedReceipt == {"stage_hook", "probe", "check_publish", "guard_receipt", "link_receipt",
"inspect_receipt"}
PublishedReceipt == {"confirm_receipt", "unstage_receipt", "settle_receipt", "abort_check", "rollback",
                     "rollback_unlink", "guard_hook", "link_hook"}
PublishedHook == {"confirm_hook", "unstage_hook", "settle_hook"}
\* Where an installation may be that knows its receipt, and it alone, as published.
Settled == {"abort_check", "rollback", "rollback_unlink", "guard_hook", "link_hook", "inspect_hook"}
           \cup PublishedHook
Unpublishing == {"unpublish", "unpublish_unlink"}
\* The steps of a removal that knows both files, or the receipt alone.
TracksHook == {"guard_drop_hook", "drop_hook", "drop_hook_unlink"}
DropsReceipt == {"guard_drop_receipt", "drop_receipt", "drop_receipt_unlink"}

\* Where a command of either kind can be, and what it has made and holds.
OwnInv(c, r) ==
    /\ r.pc \in InstallSteps \cup Unpublishing => Install(c)
    /\ r.pc \in RemoveSteps => ~Install(c)
    /\ r.pc \in {"observe", "lock"} => r.lock = NoInode
    /\ r.pc \in HoldingSteps => r.lock # NoInode
    /\ r.pc \in LockedSteps \ {"write_lock", "abandon_lock"} /\ r.lock # NoInode =>
          content[r.lock] = Bytes("lock", c)
    /\ r.pc \in StagedReceipt \cup PublishedReceipt \cup PublishedHook \cup Unpublishing
                  \cup {"stage_receipt", "inspect_hook"} =>
          r.author = c
    /\ r.pc \in StagedReceipt => r.file["receipt"] = stage[c]["receipt"] /\ r.file["receipt"] # NoInode
    /\ r.pc \in (StagedReceipt \ {"stage_hook"}) \cup PublishedReceipt \cup {"inspect_hook"} =>
          r.file["hook"] = stage[c]["hook"] /\ r.file["hook"] # NoInode
    /\ Install(c) /\ r.pc = "catch" /\ r.settled = {"receipt"} => r.author = c /\ r.lock # NoInode
    /\ Install(c) /\ r.pc \in LockedSteps \cup {"observe", "lock"} /\ r.settled = {"receipt"} =>
          r.pc \in Settled \cup Unpublishing \cup {"catch", "cleanup", "release", "release_unlink"}

\* What it knows of the two files.
KnownInv(r, installs) ==
    /\ r.pc \in {"check_parents", "make_staging", "verify_staging", "stage_receipt"} \cup StagedReceipt =>
          ~Present("hook")
    /\ r.pc \in {"check_parents", "make_staging", "verify_staging", "stage_receipt"}
                  \cup (StagedReceipt \ {"inspect_receipt"}) =>
          ~Present("receipt")
    /\ r.pc = "inspect_receipt" /\ Present("receipt") => Tracked(r, "receipt")
    /\ r.pc \in PublishedReceipt \cup Unpublishing => ~Present("hook") /\ Tracked(r, "receipt")
    /\ r.pc = "inspect_hook" => Tracked(r, "receipt") /\ (Present("hook") => Tracked(r, "hook"))
    /\ r.pc \in PublishedHook => Tracked(r, "receipt") /\ Tracked(r, "hook")
    /\ installs /\ r.pc = "catch" /\ r.settled = {"receipt"} => ~Present("hook") /\ Tracked(r, "receipt")
    /\ r.pc = "track_receipt" /\ "hook" \notin r.todo => ~Present("hook")
    /\ r.pc \in {"track_hook"} \cup TracksHook => Tracked(r, "receipt")
    /\ r.pc \in TracksHook => Tracked(r, "hook")
    /\ r.pc \in DropsReceipt => ~Present("hook") /\ Tracked(r, "receipt")

LInv == /\ TypeOK /\ FilesInv /\ HolderInv
        /\ \A c \in Commands : OwnInv(c, op[c])
        /\ HookCallsSucceed => /\ Present("hook") => HookMatches
                               /\ \A c \in Commands : KnownInv(op[c], Install(c))

-----------------------------------------------------------------------------
(* A command moves and the disk stays.                                     *)

\* What a step leaves alone of a command's record.
Same(c) == /\ op'[c].lock = op[c].lock /\ op'[c].file = op[c].file
           /\ op'[c].author = op[c].author /\ op'[c].todo = op[c].todo
           /\ op'[c].settled = op[c].settled

LEMMA GoSame ==
    ASSUME TypeOK, NEW c \in Commands, NEW l, Go(c, l)
    PROVE  Others(c) /\ Same(c) /\ op'[c].pc = l
<1>1. Others(c) /\ op'[c] = [op[c] EXCEPT !.pc = l]
  BY BecomeFacts DEF Go
<1> QED
  BY <1>1, OpType DEF Operations, Same

LEMMA ThrowSame ==
    ASSUME TypeOK, NEW c \in Commands, NEW e, Throw(c, e)
    PROVE  Others(c) /\ Same(c) /\ op'[c].pc = "catch"
<1>1. Others(c) /\ op'[c] = [op[c] EXCEPT !.pc = "catch", !.err = e]
  BY BecomeFacts DEF Throw
<1> QED
  BY <1>1, OpType DEF Operations, Same

LEMMA ReportSame ==
    ASSUME TypeOK, NEW c \in Commands, NEW res, Report(c, res)
    PROVE  Others(c) /\ Same(c) /\ op'[c].pc = "done"
<1>1. Others(c) /\ op'[c] = [op[c] EXCEPT !.pc = "done", !.result = res]
  BY BecomeFacts DEF Report
<1> QED
  BY <1>1, OpType DEF Operations, Same

\* The variables of the lifecycle, as the disk shows them.
LifecycleSame == /\ AuthorOf("lock")' = AuthorOf("lock")
                 /\ AuthorOf("receipt")' = AuthorOf("receipt")
                 /\ AuthorOf("hook")' = AuthorOf("hook")

\* What is to be shown of every step.
Kept(c) == OwnInv(c, op'[c]) /\ (HookCallsSucceed => KnownInv(op'[c], Install(c)))

LEMMA StillStep ==
    ASSUME LInv, TypeOK', NEW c \in Commands, Others(c), UNCHANGED <<entry, content, stage>>,
           op'[c].lock \in {op[c].lock, NoInode}, Kept(c)
    PROVE  LInv' /\ LifecycleSame
<1>1. entry' = entry /\ content' = content /\ stage' = stage
  OBVIOUS
<1>2. FilesInv'
  BY <1>1 DEF LInv, FilesInv, Present
<1>3. HolderInv'
  BY <1>1 DEF LInv, HolderInv, Others
<1>4. \A d \in Commands : OwnInv(d, op[d])'
  <2>1. \A d \in Commands : OwnInv(d, op'[d])
    BY DEF LInv, Others, Kept
  <2> QED
    BY <1>1, <2>1 DEF OwnInv, Install
<1>5. HookCallsSucceed => \A d \in Commands : KnownInv(op[d], Install(d))'
  <2>1. HookCallsSucceed => \A d \in Commands : KnownInv(op'[d], Install(d))
    BY DEF LInv, Others, Kept
  <2> QED
    BY <1>1, <2>1 DEF KnownInv, Tracked, Present, Install
<1>6. HookCallsSucceed => (Present("hook") => HookMatches)'
  BY <1>1 DEF LInv, Present, HookMatches, Recorded, Holds
<1>7. LifecycleSame
  BY <1>1 DEF LifecycleSame, AuthorOf, Present
<1> QED
  BY <1>2, <1>3, <1>4, <1>5, <1>6, <1>7 DEF LInv, HookCallsSucceed

\* A command that throws from a step in which it has not yet enabled the hook.
LEMMA ThrowKept ==
    ASSUME LInv, NEW c \in Commands, op[c].pc \in InstallSteps \cup RemoveSteps,
           HookCallsSucceed => /\ op[c].pc \notin PublishedHook
                               /\ op[c].pc = "inspect_hook" => ~Present("hook"),
           Same(c), op'[c].pc = "catch"
    PROVE  Kept(c)
<1>1. OwnInv(c, op[c])
  BY DEF LInv
<1>2. ASSUME Install(c), op[c].settled = {"receipt"}
      PROVE  op[c].pc \in Settled /\ op[c].author = c /\ op[c].lock # NoInode
  <2>1. op[c].pc \in Settled
    BY <1>1, <1>2 DEF OwnInv, LockedSteps, InstallSteps, RemoveSteps, CheckSteps, Unpublishing
  <2> QED
    BY <1>1, <2>1 DEF OwnInv, Settled, PublishedReceipt, PublishedHook, HoldingSteps, InstallSteps
<1>3. OwnInv(c, op'[c])
  <2>1. "catch" \notin HoldingSteps \cup InstallSteps \cup RemoveSteps \cup Unpublishing \cup StagedReceipt
           \cup PublishedReceipt \cup PublishedHook
    BY DEF InstallSteps, CheckSteps, RemoveSteps, Unpublishing, StagedReceipt, PublishedReceipt,
      PublishedHook, HoldingSteps
  <2>2. op[c].pc \in LockedSteps \ {"write_lock", "abandon_lock"}
    BY DEF LockedSteps, InstallSteps, CheckSteps, RemoveSteps
  <2> QED
    BY <1>1, <1>2, <2>1, <2>2 DEF OwnInv, Same
<1>4. ASSUME HookCallsSucceed PROVE KnownInv(op'[c], Install(c))
  <2>1. "catch" \notin StagedReceipt \cup PublishedReceipt \cup Unpublishing \cup PublishedHook
           \cup TracksHook \cup DropsReceipt
    BY DEF Unpublishing, StagedReceipt, PublishedReceipt, PublishedHook, TracksHook, DropsReceipt
  <2>2. ASSUME Install(c), op[c].settled = {"receipt"}
        PROVE  ~Present("hook") /\ Tracked(op[c], "receipt")
    <3>1. op[c].pc \in PublishedReceipt \/ (op[c].pc = "inspect_hook" /\ ~Present("hook"))
      BY <1>2, <1>4, <2>2 DEF Settled, PublishedReceipt
    <3> QED
      BY <1>4, <3>1 DEF LInv, KnownInv
  <2> QED
    BY <2>1, <2>2 DEF KnownInv, Same, Tracked
<1> QED
  BY <1>3, <1>4 DEF Kept

Moves(c) == /\ Others(c) /\ UNCHANGED <<entry, content, stage>>
            /\ op'[c].lock \in {op[c].lock, NoInode} /\ Kept(c)

\* The named lock file is that of the command that holds it.
LEMMA HeldLock ==
    ASSUME LInv, NEW c \in Commands,
           op[c].pc \in HoldingSteps \ {"write_lock", "abandon_lock"}
    PROVE  LockErrors(c) = {}
<1>1. content[op[c].lock] = Bytes("lock", c) /\ op[c].lock # NoInode
  BY DEF LInv, OwnInv, HoldingSteps, LockedSteps
<1>2. entry["lock"] = op[c].lock
  BY <1>1 DEF LInv, HolderInv
<1> QED
  BY <1>1, <1>2 DEF LockErrors, Holds, Present

\* From one step of an installation or a removal to another, or to the catch.
LEMMA ThrowMoves ==
    ASSUME LInv, NEW c \in Commands, NEW e, Throw(c, e), UNCHANGED <<entry, content, stage>>,
           op[c].pc \in InstallSteps \cup RemoveSteps,
           HookCallsSucceed => /\ op[c].pc \notin PublishedHook
                               /\ op[c].pc = "inspect_hook" => ~Present("hook")
    PROVE  Moves(c)
<1>1. Others(c) /\ Same(c) /\ op'[c].pc = "catch"
  BY ThrowSame DEF LInv
<1>2. Kept(c)
  BY <1>1, ThrowKept
<1> QED
  BY <1>1, <1>2 DEF Moves, Same

-----------------------------------------------------------------------------
(* The steps that leave the disk alone.                                    *)

\* The steps that only look at something, and where they go from there.
Looks == {<<"make_staging", "verify_staging">>, <<"probe", "check_publish">>,
          <<"guard_receipt", "link_receipt">>, <<"guard_hook", "link_hook">>,
          <<"confirm_receipt", "unstage_receipt">>, <<"confirm_hook", "unstage_hook">>,
          <<"abort_check", "rollback">>, <<"abort_check", "guard_hook">>,
          <<"rollback", "rollback_unlink">>,
          <<"guard_drop_hook", "drop_hook">>, <<"guard_drop_receipt", "drop_receipt">>,
          <<"drop_hook", "drop_hook_unlink">>, <<"drop_receipt", "drop_receipt_unlink">>,
          <<"drop_hook", "dropped_hook">>, <<"drop_receipt", "dropped_receipt">>,
          <<"vacant", "release">>, <<"unpublish", "unpublish_unlink">>,
          <<"release", "release_unlink">>}

LEMMA LookMoves ==
    ASSUME LInv, NEW c \in Commands, NEW l, Go(c, l), <<op[c].pc, l>> \in Looks,
           UNCHANGED <<entry, content, stage>>
    PROVE  Moves(c)
<1>1. Others(c) /\ Same(c) /\ op'[c].pc = l
  BY GoSame DEF LInv
<1>2. OwnInv(c, op'[c])
  BY <1>1 DEF Looks, LInv, OwnInv, Same, HoldingSteps, LockedSteps, InstallSteps, RemoveSteps,
    CheckSteps,
    StagedReceipt, PublishedReceipt, PublishedHook, Settled, Unpublishing, TracksHook, DropsReceipt
<1>3. HookCallsSucceed => KnownInv(op'[c], Install(c))
  BY <1>1 DEF Looks, LInv, KnownInv, Same, Tracked,
    StagedReceipt, PublishedReceipt, PublishedHook, Unpublishing, TracksHook, DropsReceipt
<1> QED
  BY <1>1, <1>2, <1>3 DEF Moves, Kept, Same

LEMMA CheckInstallableMoves ==
    ASSUME LInv, NEW c \in Commands, CheckInstallable(c)
    PROVE  Moves(c)
<1>1. CASE \E e : Throw(c, e)
  BY <1>1, ThrowMoves DEF CheckInstallable, CheckSteps, InstallSteps, PublishedHook, disk
<1>2. CASE /\ Installable(Status(c))
           /\ Go(c, CASE At(c, "check_locked")  -> "check_parents"
                     [] At(c, "check_parents") -> "make_staging"
                     [] At(c, "check_publish") -> "guard_receipt")
  <2>1. /\ op[c].pc \in CheckSteps /\ UNCHANGED <<entry, content, stage>>
    BY DEF CheckInstallable, disk
  <2>2. ~Present("receipt") /\ ~Present("hook")
    BY <1>2 DEF Installable, Status, Unsafe, Ownership
  <2>3. PICK l : /\ l = (CASE At(c, "check_locked")  -> "check_parents"
                           [] At(c, "check_parents") -> "make_staging"
                           [] At(c, "check_publish") -> "guard_receipt")
                 /\ Go(c, l)
    BY <1>2
  <2>4. Others(c) /\ Same(c) /\ op'[c].pc = l
    BY <2>3, GoSame DEF LInv
  <2>5. \/ op[c].pc = "check_locked" /\ l = "check_parents"
        \/ op[c].pc = "check_parents" /\ l = "make_staging"
        \/ op[c].pc = "check_publish" /\ l = "guard_receipt"
    BY <2>1, <2>3 DEF At, CheckSteps
  <2>6. OwnInv(c, op'[c])
    BY <2>4, <2>5 DEF LInv, OwnInv, Same, HoldingSteps, LockedSteps, InstallSteps, RemoveSteps,
      CheckSteps, StagedReceipt, PublishedReceipt,
      PublishedHook, Settled, Unpublishing, TracksHook, DropsReceipt
  <2>7. KnownInv(op'[c], Install(c))
    BY <2>2, <2>4, <2>5 DEF KnownInv, LockedSteps, InstallSteps, RemoveSteps, CheckSteps,
      StagedReceipt, PublishedReceipt,
      PublishedHook, Settled, Unpublishing, TracksHook, DropsReceipt
  <2> QED
    BY <2>1, <2>4, <2>6, <2>7 DEF Moves, Kept, Same
<1> QED
  BY <1>1, <1>2 DEF CheckInstallable

LEMMA MakeStagingMoves ==
    ASSUME LInv, NEW c \in Commands, MakeStaging(c)
    PROVE  Moves(c)
<1>1. op[c].pc = "make_staging" /\ UNCHANGED <<entry, content, stage>>
  BY DEF MakeStaging, At
<1>2. CASE Throw(c, "other")
  BY <1>1, <1>2, ThrowMoves DEF InstallSteps, PublishedHook
<1>3. CASE Go(c, "verify_staging")
  BY <1>1, <1>3, LookMoves DEF Looks
<1> QED
  BY <1>2, <1>3 DEF MakeStaging

LEMMA VerifyStagingMoves ==
    ASSUME LInv, NEW c \in Commands, VerifyStaging(c)
    PROVE  Moves(c)
<1>1. op[c].pc = "verify_staging" /\ UNCHANGED <<entry, content, stage>>
  BY DEF VerifyStaging, At, disk
<1>2. CASE Throw(c, "other")
  BY <1>1, <1>2, ThrowMoves DEF InstallSteps, PublishedHook
<1>3. CASE Become(c, [op[c] EXCEPT !.pc = "stage_receipt", !.tracked = TRUE, !.author = c])
  <2>1. Others(c) /\ op'[c] = [op[c] EXCEPT !.pc = "stage_receipt", !.tracked = TRUE, !.author = c]
    BY <1>3, BecomeFacts DEF LInv
  <2>2. /\ op'[c].pc = "stage_receipt" /\ op'[c].author = c /\ op'[c].lock = op[c].lock
        /\ op'[c].file = op[c].file /\ op'[c].settled = op[c].settled
    BY <2>1, OpType DEF LInv, Operations
  <2>3. OwnInv(c, op'[c])
    BY <1>1, <2>2 DEF LInv, OwnInv, HoldingSteps, LockedSteps, InstallSteps, RemoveSteps,
      CheckSteps, StagedReceipt, PublishedReceipt,
      PublishedHook, Settled, Unpublishing, TracksHook, DropsReceipt
  <2>4. HookCallsSucceed => KnownInv(op'[c], Install(c))
    BY <1>1, <2>2 DEF LInv, KnownInv, LockedSteps, InstallSteps, RemoveSteps, CheckSteps,
      StagedReceipt, PublishedReceipt,
      PublishedHook, Settled, Unpublishing, TracksHook, DropsReceipt
  <2> QED
    BY <1>1, <2>1, <2>2, <2>3, <2>4 DEF Moves, Kept
<1> QED
  BY <1>2, <1>3 DEF VerifyStaging

\* A command that has nothing left to hold or to look after.
LEMMA RestMoves ==
    ASSUME LInv, NEW c \in Commands, Others(c), UNCHANGED <<entry, content, stage>>,
           op'[c].pc \in {"report", "done", "crashed"}, op'[c].lock \in {op[c].lock, NoInode}
    PROVE  Moves(c)
<1>1. OwnInv(c, op'[c])
  BY DEF OwnInv, HoldingSteps, LockedSteps, InstallSteps, RemoveSteps, CheckSteps,
    StagedReceipt, PublishedReceipt, PublishedHook, Unpublishing
<1>2. KnownInv(op'[c], Install(c))
  BY DEF KnownInv, StagedReceipt, PublishedReceipt, PublishedHook, Unpublishing, TracksHook,
    DropsReceipt
<1> QED
  BY <1>1, <1>2 DEF Moves, Kept

\* A command that gives up what it has staged.
LEMMA CleanupMoves ==
    ASSUME LInv, NEW c \in Commands, Others(c), UNCHANGED <<entry, content, stage>>,
           op[c].pc \in LockedSteps \ {"write_lock", "abandon_lock"},
           op'[c].pc = "cleanup", op'[c].lock = op[c].lock
    PROVE  Moves(c)
<1>1. OwnInv(c, op'[c])
  BY DEF LInv, OwnInv, HoldingSteps, LockedSteps, InstallSteps, RemoveSteps, CheckSteps,
    StagedReceipt, PublishedReceipt, PublishedHook, Unpublishing
<1>2. KnownInv(op'[c], Install(c))
  BY DEF KnownInv, StagedReceipt, PublishedReceipt, PublishedHook, Unpublishing, TracksHook,
    DropsReceipt
<1> QED
  BY <1>1, <1>2 DEF Moves, Kept

LEMMA ObserveFirstMoves ==
    ASSUME LInv, NEW c \in Commands, ObserveFirst(c)
    PROVE  Moves(c)
<1>1. op[c].pc = "observe" /\ UNCHANGED <<entry, content, stage>>
  BY DEF ObserveFirst, At, disk
<1>2. CASE \E res : Report(c, res)
  <2>1. Others(c) /\ Same(c) /\ op'[c].pc = "done"
    BY <1>2, ReportSame DEF LInv
  <2> QED
    BY <1>1, <2>1, RestMoves DEF Same
<1>3. CASE Go(c, "lock")
  <2>1. Others(c) /\ Same(c) /\ op'[c].pc = "lock"
    BY <1>3, GoSame DEF LInv
  <2>2. OwnInv(c, op'[c])
    BY <1>1, <2>1 DEF LInv, OwnInv, Same, HoldingSteps, LockedSteps, InstallSteps, RemoveSteps,
      CheckSteps,
      StagedReceipt, PublishedReceipt, PublishedHook, Settled, Unpublishing
  <2>3. KnownInv(op'[c], Install(c))
    BY <2>1 DEF KnownInv, StagedReceipt, PublishedReceipt, PublishedHook, Unpublishing, TracksHook,
      DropsReceipt
  <2> QED
    BY <1>1, <2>1, <2>2, <2>3 DEF Moves, Kept, Same
<1> QED
  BY <1>2, <1>3 DEF ObserveFirst

LEMMA ProbeMoves ==
    ASSUME LInv, NEW c \in Commands, Probe(c)
    PROVE  Moves(c)
<1>1. op[c].pc = "probe" /\ UNCHANGED <<entry, content, stage>>
  BY DEF Probe, At
<1>2. CASE Go(c, "check_publish")
  BY <1>1, <1>2, LookMoves DEF Looks
<1>3. CASE \E e : Throw(c, e)
  BY <1>1, <1>3, ThrowMoves DEF InstallSteps, PublishedHook
<1> QED
  BY <1>2, <1>3 DEF Probe

LEMMA GuardPublishMoves ==
    ASSUME LInv, NEW c \in Commands, NEW f \in Artifacts, GuardPublish(c, f)
    PROVE  Moves(c)
<1>1. op[c].pc \in {"guard_receipt", "guard_hook"} /\ op[c].pc = GuardStep[f] /\ UNCHANGED <<entry, content, stage>>
  BY DEF GuardPublish, At, disk, GuardStep, Artifacts
<1>2. CASE Go(c, LinkStep[f])
  <2>1. <<op[c].pc, LinkStep[f]>> \in Looks
    BY <1>1 DEF Looks, GuardStep, LinkStep, Artifacts
  <2> QED
    BY <1>1, <1>2, <2>1, LookMoves
<1>3. CASE \E e : Throw(c, e)
  BY <1>1, <1>3, ThrowMoves DEF InstallSteps, PublishedHook
<1> QED
  BY <1>2, <1>3 DEF GuardPublish

LEMMA InspectPublishMoves ==
    ASSUME LInv, NEW c \in Commands, NEW f \in Artifacts, InspectPublish(c, f)
    PROVE  Moves(c)
<1>1. op[c].pc \in {"inspect_receipt", "inspect_hook"} /\ op[c].pc = InspectStep[f] /\ UNCHANGED <<entry, content, stage>>
  BY DEF InspectPublish, At, disk, InspectStep, Artifacts
<1>2. CASE Present(f) /\ entry[f] = op[c].file[f] /\ Go(c, ConfirmStep[f])
  <2>1. Others(c) /\ Same(c) /\ op'[c].pc = ConfirmStep[f]
    BY <1>2, GoSame DEF LInv
  <2>2. CASE f = "receipt"
    <3>1. op[c].pc = "inspect_receipt" /\ op'[c].pc = "confirm_receipt" /\ Present("receipt")
      BY <1>1, <1>2, <2>1, <2>2 DEF InspectStep, ConfirmStep, Artifacts
    <3>2. OwnInv(c, op'[c])
      BY <2>1, <3>1 DEF LInv, OwnInv, Same, HoldingSteps, LockedSteps, InstallSteps, RemoveSteps,
        CheckSteps,
        StagedReceipt, PublishedReceipt, PublishedHook, Settled, Unpublishing
    <3>3. HookCallsSucceed => KnownInv(op'[c], Install(c))
      BY <2>1, <3>1 DEF LInv, KnownInv, Same, Tracked,
        StagedReceipt, PublishedReceipt, PublishedHook, Unpublishing, TracksHook, DropsReceipt
    <3> QED
      BY <1>1, <2>1, <3>2, <3>3 DEF Moves, Kept, Same
  <2>3. CASE f = "hook"
    <3>1. op[c].pc = "inspect_hook" /\ op'[c].pc = "confirm_hook" /\ Present("hook")
      BY <1>1, <1>2, <2>1, <2>3 DEF InspectStep, ConfirmStep, Artifacts
    <3>2. OwnInv(c, op'[c])
      BY <2>1, <3>1 DEF LInv, OwnInv, Same, HoldingSteps, LockedSteps, InstallSteps, RemoveSteps,
        CheckSteps,
        StagedReceipt, PublishedReceipt, PublishedHook, Settled, Unpublishing
    <3>3. HookCallsSucceed => KnownInv(op'[c], Install(c))
      BY <2>1, <3>1 DEF LInv, KnownInv, Same, Tracked,
        StagedReceipt, PublishedReceipt, PublishedHook, Unpublishing, TracksHook, DropsReceipt
    <3> QED
      BY <1>1, <2>1, <3>2, <3>3 DEF Moves, Kept, Same
  <2> QED
    BY <2>2, <2>3 DEF Artifacts
<1>3. CASE /\ \E e : Throw(c, e)
           /\ ~Present(f) \/ entry[f] # op[c].file[f] \/ Faulty(c)
  \* A hook that is there is its own: no call of its failed.
  <2>1. HookCallsSucceed /\ op[c].pc = "inspect_hook" => ~Present("hook")
    <3>1. ASSUME HookCallsSucceed, op[c].pc = "inspect_hook" PROVE ~Present("hook")
      <4>1. f = "hook"
        BY <1>1, <3>1 DEF InspectStep, Artifacts
      <4>2. ~Faulty(c)
        BY <3>1 DEF Faulty, HookCallsSucceed
      <4>3. Present("hook") => entry["hook"] = op[c].file["hook"]
        BY <3>1 DEF LInv, KnownInv, Tracked
      <4> QED
        BY <1>3, <4>1, <4>2, <4>3
    <3> QED
      BY <3>1
  <2> QED
    BY <1>1, <1>3, <2>1, ThrowMoves DEF InstallSteps, PublishedHook
<1> QED
  BY <1>2, <1>3 DEF InspectPublish

LEMMA ConfirmPublishMoves ==
    ASSUME LInv, NEW c \in Commands, NEW f \in Artifacts, ConfirmPublish(c, f)
    PROVE  Moves(c)
<1>1. op[c].pc \in {"confirm_receipt", "confirm_hook"} /\ op[c].pc = ConfirmStep[f] /\ UNCHANGED <<entry, content, stage>>
  BY DEF ConfirmPublish, At, disk, ConfirmStep, Artifacts
<1>2. CASE Go(c, UnstageStep[f])
  <2>1. <<op[c].pc, UnstageStep[f]>> \in Looks
    BY <1>1 DEF Looks, ConfirmStep, UnstageStep, Artifacts
  <2> QED
    BY <1>1, <1>2, <2>1, LookMoves
<1>3. CASE /\ \E e : Throw(c, e)
           /\ LockErrors(c) # {} \/ Fault(c) # {} \/ ~StillTracked(c, f)
  <2>1. HookCallsSucceed => op[c].pc # "confirm_hook"
    <3>1. ASSUME HookCallsSucceed, op[c].pc = "confirm_hook" PROVE FALSE
      <4>1. f = "hook"
        BY <1>1, <3>1 DEF ConfirmStep, Artifacts
      <4>2. Fault(c) = {}
        BY <3>1 DEF Fault, Faulty, HookCallsSucceed
      <4>3. StillTracked(c, f)
        BY <3>1, <4>1 DEF LInv, KnownInv, PublishedHook, Tracked, StillTracked
      <4>4. LockErrors(c) = {}
        BY <3>1, HeldLock DEF HoldingSteps, InstallSteps
      <4> QED
        BY <1>3, <4>2, <4>3, <4>4
    <3> QED
      BY <3>1
  <2> QED
    BY <1>1, <1>3, <2>1, ThrowMoves DEF InstallSteps, PublishedHook
<1> QED
  BY <1>2, <1>3 DEF ConfirmPublish

LEMMA SettlePublishMoves ==
    ASSUME LInv, NEW c \in Commands, NEW f \in Artifacts, SettlePublish(c, f)
    PROVE  Moves(c)
<1>1. op[c].pc \in {"settle_receipt", "settle_hook"} /\ op[c].pc = SettleStep[f] /\ UNCHANGED <<entry, content, stage>>
  BY DEF SettlePublish, At, disk, SettleStep, Artifacts
<1>2. CASE Become(c, [op[c] EXCEPT !.pc = AfterSettle[f],
                                   !.settled = @ \cup {f}, !.todo = @ \ {f}])
  <2>1. Others(c) /\ op'[c] = [op[c] EXCEPT !.pc = AfterSettle[f],
                                   !.settled = @ \cup {f}, !.todo = @ \ {f}]
    BY <1>2, BecomeFacts DEF LInv
  <2>2. /\ op'[c].pc = AfterSettle[f] /\ op'[c].lock = op[c].lock
        /\ op'[c].file = op[c].file /\ op'[c].author = op[c].author
    BY <2>1, OpType DEF LInv, Operations
  <2>3. CASE f = "hook"
    BY <1>1, <2>1, <2>2, <2>3, CleanupMoves DEF AfterSettle, Artifacts, LockedSteps, InstallSteps
  <2>4. CASE f = "receipt"
    <3>1. op[c].pc = "settle_receipt" /\ op'[c].pc = "abort_check"
      BY <1>1, <2>2, <2>4 DEF SettleStep, AfterSettle, Artifacts
    <3>2. OwnInv(c, op'[c])
      BY <2>2, <3>1 DEF LInv, OwnInv, HoldingSteps, LockedSteps, InstallSteps, RemoveSteps,
        CheckSteps,
        StagedReceipt, PublishedReceipt, PublishedHook, Settled, Unpublishing
    <3>3. HookCallsSucceed => KnownInv(op'[c], Install(c))
      BY <2>2, <3>1 DEF LInv, KnownInv, Tracked,
        StagedReceipt, PublishedReceipt, PublishedHook, Unpublishing, TracksHook, DropsReceipt
    <3> QED
      BY <1>1, <2>1, <2>2, <3>2, <3>3 DEF Moves, Kept
  <2> QED
    BY <2>3, <2>4 DEF Artifacts
<1>3. CASE /\ \E e : Throw(c, e)
           /\ LockErrors(c) # {} \/ Fault(c) # {} \/ ~StillTracked(c, f)
  <2>1. HookCallsSucceed => op[c].pc # "settle_hook"
    <3>1. ASSUME HookCallsSucceed, op[c].pc = "settle_hook" PROVE FALSE
      <4>1. f = "hook"
        BY <1>1, <3>1 DEF SettleStep, Artifacts
      <4>2. Fault(c) = {}
        BY <3>1 DEF Fault, Faulty, HookCallsSucceed
      <4>3. StillTracked(c, f)
        BY <3>1, <4>1 DEF LInv, KnownInv, PublishedHook, Tracked, StillTracked
      <4>4. LockErrors(c) = {}
        BY <3>1, HeldLock DEF HoldingSteps, InstallSteps
      <4> QED
        BY <1>3, <4>2, <4>3, <4>4
    <3> QED
      BY <3>1
  <2> QED
    BY <1>1, <1>3, <2>1, ThrowMoves DEF InstallSteps, PublishedHook
<1> QED
  BY <1>2, <1>3 DEF SettlePublish

LEMMA AbortCheckMoves ==
    ASSUME LInv, NEW c \in Commands, AbortCheck(c)
    PROVE  Moves(c)
<1>1. op[c].pc = "abort_check" /\ UNCHANGED <<entry, content, stage>>
  BY DEF AbortCheck, At, disk
<1>2. Go(c, "rollback") \/ Go(c, "guard_hook")
  BY DEF AbortCheck
<1>3. <<op[c].pc, "rollback">> \in Looks /\ <<op[c].pc, "guard_hook">> \in Looks
  BY <1>1 DEF Looks
<1> QED
  BY <1>1, <1>2, <1>3, LookMoves

\* A rollback forgets that the receipt was published, whatever became of it.
LEMMA RolledBackFields ==
    ASSUME LInv, NEW c \in Commands, NEW e, RolledBack(c, e), op[c].pc \in {"rollback", "rollback_unlink"}
    PROVE  /\ Others(c) /\ op'[c].lock = op[c].lock
           /\ OwnInv(c, op'[c]) /\ KnownInv(op'[c], Install(c))
<1>1. /\ Others(c)
      /\ \/ op'[c] = [op[c] EXCEPT !.pc = "rolled_back", !.settled = {}, !.changed = @ \ {"receipt"}]
         \/ op'[c] = [op[c] EXCEPT !.pc = "catch", !.settled = {}, !.err = e]
  BY BecomeFacts DEF RolledBack, LInv
<1>2. op'[c].pc \in {"rolled_back", "catch"} /\ op'[c].settled = {} /\ op'[c].lock = op[c].lock
  BY <1>1, OpType DEF Operations, LInv
<1>3. OwnInv(c, op'[c])
  BY <1>2 DEF LInv, OwnInv, HoldingSteps, LockedSteps, InstallSteps, RemoveSteps, CheckSteps,
    StagedReceipt, PublishedReceipt, PublishedHook, Settled, Unpublishing
<1>4. KnownInv(op'[c], Install(c))
  BY <1>2 DEF KnownInv, StagedReceipt, PublishedReceipt, PublishedHook, Unpublishing, TracksHook,
    DropsReceipt
<1> QED
  BY <1>1, <1>2, <1>3, <1>4

LEMMA RollbackInspectMoves ==
    ASSUME LInv, NEW c \in Commands, RollbackInspect(c)
    PROVE  Moves(c)
<1>1. op[c].pc = "rollback" /\ UNCHANGED <<entry, content, stage>>
  BY DEF RollbackInspect, Inspect, At, disk
<1>2. CASE Go(c, "rollback_unlink")
  BY <1>1, <1>2, LookMoves DEF Looks
<1>3. CASE \E e : RolledBack(c, e)
  BY <1>1, <1>3, RolledBackFields DEF Moves, Kept
<1> QED
  BY <1>2, <1>3 DEF RollbackInspect, Inspect

LEMMA RollbackCheckMoves ==
    ASSUME LInv, NEW c \in Commands, RollbackCheck(c)
    PROVE  Moves(c)
<1>1. op[c].pc = "rolled_back" /\ UNCHANGED <<entry, content, stage>>
  BY DEF RollbackCheck, At, disk
<1>2. \E e : Throw(c, e)
  BY DEF RollbackCheck
<1> QED
  BY <1>1, <1>2, ThrowMoves DEF InstallSteps, PublishedHook

LEMMA SurveyMoves ==
    ASSUME LInv, NEW c \in Commands, Survey(c)
    PROVE  Moves(c)
<1>1. op[c].pc = "survey" /\ UNCHANGED <<entry, content, stage>>
  BY DEF Survey, At, disk
<1>2. CASE \E e : Throw(c, e)
  BY <1>1, <1>2, ThrowMoves DEF RemoveSteps, PublishedHook
<1>3. CASE \E s \in Observations(c, c) :
             /\ Removable(s)
             /\ Become(c, [op[c] EXCEPT !.pc = "track_receipt",
                             !.todo = IF s.ownership = "owned_exact" THEN Artifacts ELSE {"receipt"}])
  <2>1. PICK s \in Observations(c, c) :
             /\ Removable(s)
             /\ Become(c, [op[c] EXCEPT !.pc = "track_receipt",
                             !.todo = IF s.ownership = "owned_exact" THEN Artifacts ELSE {"receipt"}])
    BY <1>3
  <2>2. s = Status(c) /\ s.ownership = Ownership
    <3>1. s = Unsafe \/ s = Status(c)
      BY <2>1 DEF Observations
    <3> QED
      BY <2>1, <3>1 DEF Removable, Unsafe, Status
  <2>3. s.ownership = "owned_exact" \/ ~Present("hook")
    BY <2>1, <2>2 DEF Removable, Ownership
  <2>4. /\ Others(c)
        /\ op'[c] = [op[c] EXCEPT !.pc = "track_receipt",
                       !.todo = IF s.ownership = "owned_exact" THEN Artifacts ELSE {"receipt"}]
    BY <2>1, BecomeFacts DEF LInv
  <2>5. /\ op'[c].pc = "track_receipt" /\ op'[c].lock = op[c].lock /\ op'[c].settled = op[c].settled
        /\ op'[c].todo = IF s.ownership = "owned_exact" THEN Artifacts ELSE {"receipt"}
    BY <2>4, OpType DEF LInv, Operations
  <2>6. OwnInv(c, op'[c])
    BY <1>1, <2>5 DEF LInv, OwnInv, HoldingSteps, LockedSteps, InstallSteps, RemoveSteps,
      CheckSteps,
      StagedReceipt, PublishedReceipt, PublishedHook, Settled, Unpublishing
  <2>7. KnownInv(op'[c], Install(c))
    BY <2>3, <2>5 DEF KnownInv, Artifacts,
      StagedReceipt, PublishedReceipt, PublishedHook, Unpublishing, TracksHook, DropsReceipt
  <2> QED
    BY <1>1, <2>4, <2>5, <2>6, <2>7 DEF Moves, Kept
<1> QED
  BY <1>2, <1>3 DEF Survey

LEMMA TrackReceiptMoves ==
    ASSUME LInv, NEW c \in Commands, TrackReceipt(c)
    PROVE  Moves(c)
<1>1. op[c].pc = "track_receipt" /\ UNCHANGED <<entry, content, stage>>
  BY DEF TrackReceipt, At, disk
<1>2. CASE \E e : Throw(c, e)
  BY <1>1, <1>2, ThrowMoves DEF RemoveSteps, PublishedHook
<1>3. CASE /\ Recorded
           /\ Become(c, [op[c] EXCEPT !.file["receipt"] = entry["receipt"],
                                      !.author = content[entry["receipt"]].by,
                                      !.pc = IF "hook" \in op[c].todo THEN "track_hook" ELSE "inactive"])
  <2>1. /\ Others(c)
        /\ op'[c] = [op[c] EXCEPT !.file["receipt"] = entry["receipt"],
                                      !.author = content[entry["receipt"]].by,
                                      !.pc = IF "hook" \in op[c].todo THEN "track_hook" ELSE "inactive"]
    BY <1>3, BecomeFacts DEF LInv
  <2>2. op[c] \in Operations /\ op[c].file \in [Artifacts -> Inodes \cup {NoInode}]
    BY OpType DEF LInv, Operations
  <2>3. /\ op'[c].pc \in {"track_hook", "inactive"} /\ op'[c].lock = op[c].lock /\ op'[c].settled = op[c].settled
        /\ op'[c].author = content[entry["receipt"]].by
    BY <2>1, <2>2 DEF Operations
  <2>4. op'[c].file["receipt"] = entry["receipt"]
    <3>1. op'[c].file = [op[c].file EXCEPT !["receipt"] = entry["receipt"]]
      BY <2>1, <2>2 DEF Operations
    <3> QED
      BY <2>2, <3>1 DEF Artifacts
  <2>5. Tracked(op'[c], "receipt")
    <3>1. entry["receipt"] \in Inodes /\ content[entry["receipt"]].kind = "receipt"
      BY <1>3 DEF Recorded, Present, LInv, TypeOK, FixedNames, Artifacts
    <3>2. content[entry["receipt"]] \in Contents
      BY <3>1 DEF LInv, TypeOK
    <3>3. content[entry["receipt"]] = Bytes("receipt", content[entry["receipt"]].by)
      BY <3>1, <3>2 DEF Contents, Bytes
    <3> QED
      BY <1>3, <2>3, <2>4, <3>3 DEF Tracked, Recorded
  <2>6. OwnInv(c, op'[c])
    BY <1>1, <2>3 DEF LInv, OwnInv, HoldingSteps, LockedSteps, InstallSteps, RemoveSteps,
      CheckSteps,
      StagedReceipt, PublishedReceipt, PublishedHook, Settled, Unpublishing
  <2>7. KnownInv(op'[c], Install(c))
    BY <2>3, <2>5 DEF KnownInv,
      StagedReceipt, PublishedReceipt, PublishedHook, Unpublishing, TracksHook, DropsReceipt
  <2> QED
    BY <1>1, <2>1, <2>3, <2>6, <2>7 DEF Moves, Kept
<1> QED
  BY <1>2, <1>3 DEF TrackReceipt

LEMMA TrackHookMoves ==
    ASSUME LInv, NEW c \in Commands, TrackHook(c)
    PROVE  Moves(c)
<1>1. op[c].pc = "track_hook" /\ UNCHANGED <<entry, content, stage>>
  BY DEF TrackHook, At, disk
<1>2. CASE \E e : Throw(c, e)
  BY <1>1, <1>2, ThrowMoves DEF RemoveSteps, PublishedHook
<1>3. CASE /\ Holds("hook", "hook", op[c].author)
           /\ Become(c, [op[c] EXCEPT !.pc = "guard_drop_hook", !.file["hook"] = entry["hook"]])
  <2>1. /\ Others(c)
        /\ op'[c] = [op[c] EXCEPT !.pc = "guard_drop_hook", !.file["hook"] = entry["hook"]]
    BY <1>3, BecomeFacts DEF LInv
  <2>2. op[c] \in Operations /\ op[c].file \in [Artifacts -> Inodes \cup {NoInode}]
    BY OpType DEF LInv, Operations
  <2>3. /\ op'[c].pc = "guard_drop_hook" /\ op'[c].lock = op[c].lock /\ op'[c].settled = op[c].settled
        /\ op'[c].author = op[c].author
    BY <2>1, <2>2 DEF Operations
  <2>4. op'[c].file["receipt"] = op[c].file["receipt"] /\ op'[c].file["hook"] = entry["hook"]
    <3>1. op'[c].file = [op[c].file EXCEPT !["hook"] = entry["hook"]]
      BY <2>1, <2>2 DEF Operations
    <3> QED
      BY <2>2, <3>1 DEF Artifacts
  <2>5. Tracked(op'[c], "hook")
    BY <1>3, <2>3, <2>4 DEF Tracked, Holds
  <2>6. HookCallsSucceed => Tracked(op'[c], "receipt")
    BY <1>1, <2>3, <2>4 DEF Tracked, LInv, KnownInv
  <2>7. OwnInv(c, op'[c])
    BY <1>1, <2>3 DEF LInv, OwnInv, HoldingSteps, LockedSteps, InstallSteps, RemoveSteps,
      CheckSteps,
      StagedReceipt, PublishedReceipt, PublishedHook, Settled, Unpublishing
  <2>8. HookCallsSucceed => KnownInv(op'[c], Install(c))
    BY <2>3, <2>5, <2>6 DEF KnownInv,
      StagedReceipt, PublishedReceipt, PublishedHook, Unpublishing, TracksHook, DropsReceipt
  <2> QED
    BY <1>1, <2>1, <2>3, <2>7, <2>8 DEF Moves, Kept
<1> QED
  BY <1>2, <1>3 DEF TrackHook

LEMMA GuardDropMoves ==
    ASSUME LInv, NEW c \in Commands, NEW f \in Artifacts, GuardDrop(c, f)
    PROVE  Moves(c)
<1>1. /\ op[c].pc \in {"guard_drop_receipt", "guard_drop_hook"} /\ op[c].pc = GuardDropStep[f]
      /\ UNCHANGED <<entry, content, stage>>
  BY DEF GuardDrop, At, disk, GuardDropStep, Artifacts
<1>2. CASE Go(c, DropStep[f])
  <2>1. <<op[c].pc, DropStep[f]>> \in Looks
    BY <1>1 DEF Looks, GuardDropStep, DropStep, Artifacts
  <2> QED
    BY <1>1, <1>2, <2>1, LookMoves
<1>3. CASE \E e : Throw(c, e)
  BY <1>1, <1>3, ThrowMoves DEF RemoveSteps, PublishedHook
<1> QED
  BY <1>2, <1>3 DEF GuardDrop

LEMMA DropInspectMoves ==
    ASSUME LInv, NEW c \in Commands, NEW f \in Artifacts, DropInspect(c, f)
    PROVE  Moves(c)
<1>1. /\ op[c].pc \in {"drop_receipt", "drop_hook"} /\ op[c].pc = DropStep[f]
      /\ UNCHANGED <<entry, content, stage>>
  BY DEF DropInspect, Inspect, At, disk, DropStep, Artifacts
<1>2. CASE Go(c, DropUnlinkStep[f]) \/ Go(c, DroppedStep[f])
  <2>1. <<op[c].pc, DropUnlinkStep[f]>> \in Looks /\ <<op[c].pc, DroppedStep[f]>> \in Looks
    BY <1>1 DEF Looks, DroppedStep, DropUnlinkStep, DropStep, Artifacts
  <2> QED
    BY <1>1, <1>2, <2>1, LookMoves
<1>3. CASE \E e : Throw(c, e)
  BY <1>1, <1>3, ThrowMoves DEF RemoveSteps, PublishedHook
<1> QED
  BY <1>2, <1>3 DEF DropInspect, Inspect

LEMMA SettleDropMoves ==
    ASSUME LInv, NEW c \in Commands, NEW f \in Artifacts, SettleDrop(c, f)
    PROVE  Moves(c)
<1>1. op[c].pc \in {"dropped_receipt", "dropped_hook"} /\ UNCHANGED <<entry, content, stage>>
  BY DEF SettleDrop, At, disk, DroppedStep, Artifacts
<1>2. CASE \E e : Throw(c, e)
  BY <1>1, <1>2, ThrowMoves DEF RemoveSteps, PublishedHook
<1>3. CASE Become(c, [op[c] EXCEPT !.pc = IF f = "hook" THEN "inactive" ELSE "vacant", !.settled = @ \cup {f}])
  <2>1. /\ Others(c)
        /\ op'[c] = [op[c] EXCEPT !.pc = IF f = "hook" THEN "inactive" ELSE "vacant", !.settled = @ \cup {f}]
    BY <1>3, BecomeFacts DEF LInv
  <2>2. op'[c].pc \in {"inactive", "vacant"} /\ op'[c].lock = op[c].lock
    BY <2>1, OpType DEF LInv, Operations
  <2>3. OwnInv(c, op'[c])
    BY <1>1, <2>2 DEF LInv, OwnInv, HoldingSteps, LockedSteps, InstallSteps, RemoveSteps,
      CheckSteps,
      StagedReceipt, PublishedReceipt, PublishedHook, Settled, Unpublishing
  <2>4. KnownInv(op'[c], Install(c))
    BY <2>2 DEF KnownInv, StagedReceipt, PublishedReceipt, PublishedHook, Unpublishing, TracksHook,
      DropsReceipt
  <2> QED
    BY <1>1, <2>1, <2>2, <2>3, <2>4 DEF Moves, Kept
<1> QED
  BY <1>2, <1>3 DEF SettleDrop

LEMMA CheckInactiveMoves ==
    ASSUME LInv, NEW c \in Commands, CheckInactive(c)
    PROVE  Moves(c)
<1>1. op[c].pc = "inactive" /\ UNCHANGED <<entry, content, stage>>
  BY DEF CheckInactive, At, disk
<1>2. CASE \E e : Throw(c, e)
  BY <1>1, <1>2, ThrowMoves DEF RemoveSteps, PublishedHook
<1>3. CASE \E s \in Observations(c, c) :
             s.ownership = "owned_inactive" /\ StillTracked(c, "receipt") /\ Go(c, "guard_drop_receipt")
  <2>1. Others(c) /\ Same(c) /\ op'[c].pc = "guard_drop_receipt"
    BY <1>3, GoSame DEF LInv
  <2>2. ~Present("hook")
    BY <1>3 DEF Observations, Status, Unsafe, Ownership
  <2>3. Tracked(op'[c], "receipt")
    BY <1>3, <2>1 DEF StillTracked, Tracked, Same
  <2>4. OwnInv(c, op'[c])
    BY <1>1, <2>1 DEF LInv, OwnInv, Same, HoldingSteps, LockedSteps, InstallSteps, RemoveSteps,
      CheckSteps,
      StagedReceipt, PublishedReceipt, PublishedHook, Settled, Unpublishing
  <2>5. KnownInv(op'[c], Install(c))
    BY <2>1, <2>2, <2>3 DEF KnownInv,
      StagedReceipt, PublishedReceipt, PublishedHook, Unpublishing, TracksHook, DropsReceipt
  <2> QED
    BY <1>1, <2>1, <2>4, <2>5 DEF Moves, Kept, Same
<1> QED
  BY <1>2, <1>3 DEF CheckInactive

LEMMA CheckVacantMoves ==
    ASSUME LInv, NEW c \in Commands, CheckVacant(c)
    PROVE  Moves(c)
<1>1. op[c].pc = "vacant" /\ UNCHANGED <<entry, content, stage>>
  BY DEF CheckVacant, At, disk
<1>2. CASE \E e : Throw(c, e)
  BY <1>1, <1>2, ThrowMoves DEF RemoveSteps, PublishedHook
<1>3. CASE Go(c, "release")
  BY <1>1, <1>3, LookMoves DEF Looks
<1> QED
  BY <1>2, <1>3 DEF CheckVacant

\* The catch goes to the undoing of a published receipt, or past it.
LEMMA CatchMoves ==
    ASSUME LInv, NEW c \in Commands, Catch(c)
    PROVE  Moves(c)
<1>1. op[c].pc = "catch" /\ UNCHANGED <<entry, content, stage>>
  BY DEF Catch, At, disk
<1>2. PICK l : /\ Go(c, l)
               /\ l = IF ~Install(c) THEN NextCleanup(c)
                      ELSE IF NeedsUnpublish(c) THEN "unpublish" ELSE "cleanup"
  BY DEF Catch
<1>3. Others(c) /\ Same(c) /\ op'[c].pc = l
  BY <1>2, GoSame DEF LInv
<1>4. CASE Install(c) /\ op[c].settled = {"receipt"}
  <2>1. op'[c].pc = "unpublish"
    BY <1>2, <1>3, <1>4 DEF NeedsUnpublish
  <2>2. OwnInv(c, op'[c])
    BY <1>1, <1>3, <1>4, <2>1 DEF LInv, OwnInv, Same, HoldingSteps, LockedSteps, InstallSteps,
      RemoveSteps, CheckSteps,
      StagedReceipt, PublishedReceipt, PublishedHook, Settled, Unpublishing
  <2>3. HookCallsSucceed => KnownInv(op'[c], Install(c))
    BY <1>1, <1>3, <1>4, <2>1 DEF LInv, KnownInv, Same, Tracked,
      StagedReceipt, PublishedReceipt, PublishedHook, Unpublishing, TracksHook, DropsReceipt
  <2> QED
    BY <1>1, <1>3, <2>2, <2>3 DEF Moves, Kept, Same
<1>5. CASE Install(c) /\ op[c].settled # {"receipt"}
  <2>1. op'[c].pc = "cleanup"
    BY <1>2, <1>3, <1>5 DEF NeedsUnpublish
  <2> QED
    BY <1>1, <1>3, <2>1, CleanupMoves DEF Same, LockedSteps
<1>6. CASE ~Install(c)
  <2>1. \/ op'[c].pc = "report"
        \/ op'[c].pc = "release" /\ op[c].lock # NoInode
    BY <1>2, <1>3, <1>6 DEF NextCleanup
  <2>2. CASE op'[c].pc = "report"
    BY <1>1, <1>3, <2>2, RestMoves DEF Same
  <2>3. CASE op'[c].pc = "release" /\ op[c].lock # NoInode
    <3>1. OwnInv(c, op'[c])
      BY <1>1, <1>3, <1>6, <2>3 DEF LInv, OwnInv, Same, HoldingSteps, LockedSteps, InstallSteps,
        RemoveSteps, CheckSteps,
        StagedReceipt, PublishedReceipt, PublishedHook, Settled, Unpublishing
    <3>2. KnownInv(op'[c], Install(c))
      BY <2>3 DEF KnownInv, StagedReceipt, PublishedReceipt, PublishedHook, Unpublishing,
        TracksHook, DropsReceipt
    <3> QED
      BY <1>1, <1>3, <3>1, <3>2 DEF Moves, Kept, Same
  <2> QED
    BY <2>1, <2>2, <2>3
<1> QED
  BY <1>4, <1>5, <1>6

\* Undone or not, the command goes on to clean up.
LEMMA UnpublishedFields ==
    ASSUME LInv, NEW c \in Commands, Unpublished(c) \/ NotUnpublished(c)
    PROVE  Others(c) /\ op'[c].pc = "cleanup" /\ op'[c].lock = op[c].lock
<1>1. /\ Others(c)
      /\ \/ op'[c] = [op[c] EXCEPT !.pc = "cleanup", !.changed = @ \ {"receipt"}]
         \/ op'[c] = [op[c] EXCEPT !.pc = "cleanup", !.confirmed = FALSE]
  BY BecomeFacts DEF Unpublished, NotUnpublished, LInv
<1> QED
  BY <1>1, OpType DEF LInv, Operations

LEMMA UnpublishInspectMoves ==
    ASSUME LInv, NEW c \in Commands, UnpublishInspect(c)
    PROVE  Moves(c)
<1>1. op[c].pc = "unpublish" /\ UNCHANGED <<entry, content, stage>>
  BY DEF UnpublishInspect, Inspect, At, disk
<1>2. CASE Go(c, "unpublish_unlink")
  BY <1>1, <1>2, LookMoves DEF Looks
<1>3. CASE Unpublished(c) \/ NotUnpublished(c)
  BY <1>1, <1>3, UnpublishedFields, CleanupMoves DEF LockedSteps
<1> QED
  BY <1>2, <1>3 DEF UnpublishInspect, Inspect

LEMMA ReleasedFields ==
    ASSUME LInv, NEW c \in Commands, NEW ok, Released(c, ok)
    PROVE  Others(c) /\ op'[c].pc = "report" /\ op'[c].lock = NoInode
<1>1. Others(c) /\ op'[c] = [op[c] EXCEPT !.pc = "report", !.lock = NoInode, !.confirmed = @ /\ ok]
  BY BecomeFacts DEF Released, LInv
<1> QED
  BY <1>1, OpType DEF LInv, Operations

LEMMA ReleaseInspectMoves ==
    ASSUME LInv, NEW c \in Commands, ReleaseInspect(c)
    PROVE  Moves(c)
<1>1. op[c].pc = "release" /\ UNCHANGED <<entry, content, stage>>
  BY DEF ReleaseInspect, At, disk
<1>2. CASE Go(c, "release_unlink")
  BY <1>1, <1>2, LookMoves DEF Looks
<1>3. CASE Released(c, FALSE)
  BY <1>1, <1>3, ReleasedFields, RestMoves
<1> QED
  BY <1>2, <1>3 DEF ReleaseInspect

LEMMA ReleaseConfirmMoves ==
    ASSUME LInv, NEW c \in Commands, ReleaseConfirm(c)
    PROVE  Moves(c)
<1>1. UNCHANGED <<entry, content, stage>> /\ \E ok : Released(c, ok)
  BY DEF ReleaseConfirm, disk
<1> QED
  BY <1>1, ReleasedFields, RestMoves

LEMMA ReportOutcomeMoves ==
    ASSUME LInv, NEW c \in Commands, ReportOutcome(c)
    PROVE  Moves(c)
<1>1. UNCHANGED <<entry, content, stage>> /\ \E res : Report(c, res)
  BY DEF ReportOutcome, disk
<1>2. Others(c) /\ Same(c) /\ op'[c].pc = "done"
  BY <1>1, ReportSame DEF LInv
<1> QED
  BY <1>1, <1>2, RestMoves DEF Same

LEMMA CancelMoves ==
    ASSUME LInv, NEW c \in Commands, Cancel(c)
    PROVE  Moves(c)
<1>1. UNCHANGED <<entry, content, stage>> /\ Others(c) /\ op'[c] = [op[c] EXCEPT !.aborted = TRUE]
  BY BecomeFacts DEF Cancel, disk, LInv
<1>2. Same(c) /\ op'[c].pc = op[c].pc
  BY <1>1, OpType DEF LInv, Operations, Same
<1>3. OwnInv(c, op'[c])
  BY <1>2 DEF LInv, OwnInv, Same
<1>4. HookCallsSucceed => KnownInv(op'[c], Install(c))
  BY <1>2 DEF LInv, KnownInv, Same, Tracked
<1> QED
  BY <1>1, <1>2, <1>3, <1>4 DEF Moves, Kept, Same

LEMMA CrashMoves ==
    ASSUME LInv, NEW c \in Commands, Crash(c)
    PROVE  Moves(c)
<1>1. UNCHANGED <<entry, content, stage>>
  BY DEF Crash, disk
<1>2. Others(c) /\ Same(c) /\ op'[c].pc = "crashed"
  BY GoSame DEF Crash, LInv
<1> QED
  BY <1>1, <1>2, RestMoves DEF Same

-----------------------------------------------------------------------------
(* The steps that change the disk.                                         *)

\* While one command has its lock, or makes it, the others know nothing.
LEMMA Bystanders ==
    ASSUME LInv, NEW c \in Commands, Others(c), op[c].lock # NoInode \/ ~Present("lock"),
           \A d \in Commands : d # c => stage'[d] = stage[d],
           NEW d \in Commands, d # c
    PROVE  /\ op[d].lock = NoInode /\ op'[d].lock = NoInode
           /\ OwnInv(d, op[d])' /\ KnownInv(op[d], Install(d))'
<1>1. op'[d] = op[d] /\ stage'[d] = stage[d]
  BY DEF Others
<1>2. op[d].lock = NoInode
  BY DEF LInv, HolderInv, Present
<1>3. OwnInv(d, op[d])
  BY DEF LInv
<1>4. OwnInv(d, op[d])'
  BY <1>1, <1>2, <1>3 DEF OwnInv, Install
<1>5. op[d].pc \notin HoldingSteps
  BY <1>2, <1>3 DEF OwnInv
<1>6. ~(Install(d) /\ op[d].pc = "catch" /\ op[d].settled = {"receipt"})
  BY <1>2, <1>3 DEF OwnInv
<1>7. KnownInv(op[d], Install(d))'
  <2>1. /\ op'[d].pc \notin HoldingSteps
        /\ ~(Install(d)' /\ op'[d].pc = "catch" /\ op'[d].settled = {"receipt"})
    BY <1>1, <1>5, <1>6 DEF Install
  <2> QED
    BY <2>1 DEF KnownInv, HoldingSteps, InstallSteps, RemoveSteps, CheckSteps,
      StagedReceipt, PublishedReceipt, PublishedHook, Unpublishing, TracksHook, DropsReceipt
<1> QED
  BY <1>1, <1>2, <1>4, <1>7

\* A step of the command that holds the lock.
LEMMA HolderStep ==
    ASSUME LInv, TypeOK', FilesInv', NEW c \in Commands, Others(c),
           op[c].lock # NoInode \/ ~Present("lock"),
           \A d \in Commands : d # c => stage'[d] = stage[d],
           op'[c].lock # NoInode => entry'["lock"] = op'[c].lock /\ content'[entry'["lock"]].by = c,
           OwnInv(c, op[c])',
           HookCallsSucceed => (Present("hook") => HookMatches)' /\ KnownInv(op[c], Install(c))'
    PROVE  LInv'
<1>1. HolderInv'
  BY Bystanders DEF HolderInv
<1>2. \A d \in Commands : OwnInv(d, op[d])'
  BY Bystanders
<1>3. HookCallsSucceed => \A d \in Commands : KnownInv(op[d], Install(d))'
  BY Bystanders
<1> QED
  BY <1>1, <1>2, <1>3 DEF LInv, HookCallsSucceed

\* The two files as they are, when nobody touches them.
LEMMA HookKept ==
    ASSUME LInv, HookCallsSucceed,
           \A f \in Artifacts : entry'[f] = entry[f] /\ (Present(f) => content'[entry[f]] = content[entry[f]])
    PROVE  (Present("hook") => HookMatches)'
<1>1. Present("hook") => HookMatches
  BY DEF LInv
<1> QED
  BY <1>1 DEF HookMatches, Recorded, Holds, Present, Artifacts

\* A command whose staged names go and whose next step needs none of them.
LEMMA UnstagingStep ==
    ASSUME LInv, TypeOK', NEW c \in Commands, Others(c), UNCHANGED <<entry, content>>,
           \A d \in Commands : d # c => stage'[d] = stage[d],
           \A f \in Artifacts : stage'[c][f] \in {stage[c][f], NoInode},
           op'[c].lock \in {op[c].lock, NoInode},
           OwnInv(c, op[c])', HookCallsSucceed => KnownInv(op[c], Install(c))'
    PROVE  LInv' /\ LifecycleSame
<1>1. \A d \in Commands, f \in Artifacts : stage'[d][f] \in {stage[d][f], NoInode}
  OBVIOUS
<1>2. FilesInv'
  <2>1. entry' = entry /\ content' = content
    OBVIOUS
  <2>2. /\ \A m, n \in FixedNames : Present(m)' /\ entry'[m] = entry'[n] => m = n
        /\ \A f \in Artifacts : Present(f)' => content'[entry'[f]].kind = f /\ content'[entry'[f]].by \in Commands
        /\ Present("lock")' => content'[entry'["lock"]].by \in Commands
    BY <2>1 DEF LInv, FilesInv, Present
  <2>3. \A d, e \in Commands, f, g \in Artifacts :
          stage'[d][f] # NoInode /\ stage'[d][f] = stage'[e][g] => d = e /\ f = g
    BY <1>1 DEF LInv, FilesInv
  <2>4. \A n \in FixedNames, d \in Commands, f \in Artifacts :
          stage'[d][f] # NoInode /\ entry'[n] = stage'[d][f] => n = f
    BY <1>1, <2>1 DEF LInv, FilesInv
  <2>5. \A d \in Commands, f \in Artifacts :
          stage'[d][f] # NoInode => content'[stage'[d][f]] = Bytes(f, d)
    BY <1>1, <2>1 DEF LInv, FilesInv
  <2> QED
    BY <2>2, <2>3, <2>4, <2>5 DEF FilesInv
<1>3. HolderInv'
  BY DEF LInv, HolderInv, Others
<1>4. \A d \in Commands : OwnInv(d, op[d])'
  BY DEF LInv, Others, OwnInv, Install
<1>5. HookCallsSucceed => \A d \in Commands : KnownInv(op[d], Install(d))'
  BY DEF LInv, Others, KnownInv, Tracked, Present, Install
<1>6. HookCallsSucceed => (Present("hook") => HookMatches)'
  BY DEF LInv, Present, HookMatches, Recorded, Holds
<1>7. LifecycleSame
  BY DEF LifecycleSame, AuthorOf, Present
<1> QED
  BY <1>2, <1>3, <1>4, <1>5, <1>6, <1>7 DEF LInv, HookCallsSucceed

\* What every step of a command comes to.
Lifecycles == Lifecycle!Next \/ LifecycleSame
Serves(c) == LInv' /\ (HookCallsSucceed => Lifecycles)

LEMMA MovesServe ==
    ASSUME LInv, TypeOK', NEW c \in Commands, Moves(c)
    PROVE  Serves(c)
  BY StillStep DEF Moves, Serves, Lifecycles

LEMMA CleanupServes ==
    ASSUME LInv, TypeOK', NEW c \in Commands, Cleanup(c)
    PROVE  Serves(c)
<1>1. op[c].pc = "cleanup" /\ UNCHANGED <<entry, content>>
  BY DEF Cleanup, At
<1>2. /\ \A d \in Commands : d # c => stage'[d] = stage[d]
      /\ \A f \in Artifacts : stage'[c][f] \in {stage[c][f], NoInode}
  <2>1. PICK gone \in SUBSET op[c].todo :
          stage' = [stage EXCEPT ![c] = [f \in Artifacts |-> IF f \in gone THEN NoInode ELSE @[f]]]
    BY DEF Cleanup
  <2> QED
    BY <2>1 DEF LInv, TypeOK
<1>3. /\ Others(c) /\ op'[c].pc = NextCleanup(c) /\ op'[c].lock = op[c].lock
      /\ op'[c].settled = op[c].settled
  <2>1. /\ Others(c)
        /\ \E b : op'[c] = [op[c] EXCEPT !.pc = NextCleanup(c), !.confirmed = b]
    BY BecomeFacts DEF Cleanup, LInv
  <2> QED
    BY <2>1, OpType DEF LInv, Operations
<1>4. \/ op'[c].pc = "report"
      \/ op'[c].pc = "release" /\ op[c].lock # NoInode
  BY <1>3 DEF NextCleanup
<1>5. OwnInv(c, op[c])'
  BY <1>1, <1>3, <1>4 DEF LInv, OwnInv, Install, HoldingSteps, LockedSteps, InstallSteps,
    RemoveSteps, CheckSteps,
    StagedReceipt, PublishedReceipt, PublishedHook, Settled, Unpublishing
<1>6. KnownInv(op[c], Install(c))'
  BY <1>4 DEF KnownInv, StagedReceipt, PublishedReceipt, PublishedHook, Unpublishing, TracksHook,
    DropsReceipt
<1> QED
  BY <1>1, <1>2, <1>3, <1>5, <1>6, UnstagingStep DEF Serves, Lifecycles

LEMMA UnstageServes ==
    ASSUME LInv, TypeOK', NEW c \in Commands, NEW f \in Artifacts, Unstage(c, f)
    PROVE  Serves(c)
<1>1. /\ op[c].pc \in {"unstage_receipt", "unstage_hook"} /\ op[c].pc = UnstageStep[f]
      /\ UNCHANGED <<entry, content>>
  BY DEF Unstage, At, UnstageStep, Artifacts
<1>2. /\ \A d \in Commands : d # c => stage'[d] = stage[d]
      /\ \A g \in Artifacts : stage'[c][g] \in {stage[c][g], NoInode}
      /\ \A g \in Artifacts : g # f => stage'[c][g] = stage[c][g]
  BY DEF Unstage, LInv, TypeOK
<1>3. CASE Go(c, SettleStep[f])
  <2>1. Others(c) /\ Same(c) /\ op'[c].pc = SettleStep[f]
    BY <1>3, GoSame DEF LInv
  <2>2. CASE f = "receipt"
    <3>1. op[c].pc = "unstage_receipt" /\ op'[c].pc = "settle_receipt" /\ stage'[c]["hook"] = stage[c]["hook"]
      BY <1>1, <1>2, <2>1, <2>2 DEF UnstageStep, SettleStep, Artifacts
    <3>2. OwnInv(c, op[c])'
      BY <1>1, <2>1, <3>1 DEF LInv, OwnInv, Same, Install, HoldingSteps, LockedSteps, InstallSteps,
        RemoveSteps, CheckSteps,
        StagedReceipt, PublishedReceipt, PublishedHook, Settled, Unpublishing
    <3>3. HookCallsSucceed => KnownInv(op[c], Install(c))'
      BY <1>1, <2>1, <3>1 DEF LInv, KnownInv, Same, Tracked, Present, Install,
        StagedReceipt, PublishedReceipt, PublishedHook, Unpublishing, TracksHook, DropsReceipt
    <3> QED
      BY <1>1, <1>2, <2>1, <3>2, <3>3, UnstagingStep DEF Serves, Lifecycles, Same
  <2>3. CASE f = "hook"
    <3>1. op[c].pc = "unstage_hook" /\ op'[c].pc = "settle_hook"
      BY <1>1, <2>1, <2>3 DEF UnstageStep, SettleStep, Artifacts
    <3>2. OwnInv(c, op[c])'
      BY <1>1, <2>1, <3>1 DEF LInv, OwnInv, Same, Install, HoldingSteps, LockedSteps, InstallSteps,
        RemoveSteps, CheckSteps,
        StagedReceipt, PublishedReceipt, PublishedHook, Settled, Unpublishing
    <3>3. HookCallsSucceed => KnownInv(op[c], Install(c))'
      BY <1>1, <2>1, <3>1 DEF LInv, KnownInv, Same, Tracked, Present, Install,
        StagedReceipt, PublishedReceipt, PublishedHook, Unpublishing, TracksHook, DropsReceipt
    <3> QED
      BY <1>1, <1>2, <2>1, <3>2, <3>3, UnstagingStep DEF Serves, Lifecycles, Same
  <2> QED
    BY <2>2, <2>3 DEF Artifacts
<1>4. CASE Faulty(c) /\ Throw(c, "recovery")
  <2>1. Others(c) /\ Same(c) /\ op'[c].pc = "catch"
    BY <1>4, ThrowSame DEF LInv
  <2>2. HookCallsSucceed => op[c].pc \notin PublishedHook /\ op[c].pc # "inspect_hook"
    BY <1>1, <1>4 DEF Faulty, HookCallsSucceed, PublishedHook
  <2>3. Kept(c)
    BY <1>1, <2>1, <2>2, ThrowKept DEF InstallSteps
  <2>4. OwnInv(c, op[c])'
    BY <1>1, <2>1, <2>3 DEF Kept, OwnInv, Install,
      StagedReceipt, PublishedReceipt
  <2>5. HookCallsSucceed => KnownInv(op[c], Install(c))'
    BY <1>1, <2>3 DEF Kept, KnownInv, Tracked, Present, Install
  <2> QED
    BY <1>1, <1>2, <2>1, <2>4, <2>5, UnstagingStep DEF Serves, Lifecycles, Same
<1> QED
  BY <1>3, <1>4 DEF Unstage

\* A staged file is a new inode, nobody's before.
LEMMA CreateStageFileServes ==
    ASSUME LInv, TypeOK', NEW c \in Commands, NEW f \in Artifacts, CreateStageFile(c, f)
    PROVE  Serves(c)
<1>1. /\ op[c].pc \in {"stage_receipt", "stage_hook"} /\ op[c].pc = StageStep[f]
      /\ entry' = entry
  <2>1. op[c].pc = StageStep[f] /\ entry' = entry
    BY DEF CreateStageFile, At
  <2> QED
    BY <2>1 DEF StageStep, Artifacts
<1>2. CASE UNCHANGED <<content, stage>> /\ \E e : Throw(c, e)
  <2>1. Moves(c)
    BY <1>1, <1>2, ThrowMoves DEF InstallSteps, PublishedHook
  <2> QED
    BY <2>1, MovesServe
<1>3. CASE \E i \in FreeInodes :
                /\ content' = [content EXCEPT ![i] = Bytes(f, c)]
                /\ stage' = [stage EXCEPT ![c][f] = i]
                /\ Become(c, [op[c] EXCEPT !.pc = IF f = "receipt" THEN "stage_hook" ELSE "probe",
                                           !.file[f] = i, !.todo = @ \cup {f}])
  <2>1. PICK i \in FreeInodes :
                /\ content' = [content EXCEPT ![i] = Bytes(f, c)]
                /\ stage' = [stage EXCEPT ![c][f] = i]
                /\ Become(c, [op[c] EXCEPT !.pc = IF f = "receipt" THEN "stage_hook" ELSE "probe",
                                           !.file[f] = i, !.todo = @ \cup {f}])
    BY <1>3
  <2>2. /\ i \in Inodes /\ i # NoInode
        /\ \A n \in FixedNames : entry[n] # i
        /\ \A d \in Commands, g \in Artifacts : stage[d][g] # i
    BY FilesAssumption DEF FreeInodes, Staged
  <2>3. /\ \A d \in Commands, g \in Artifacts :
              stage'[d][g] = IF d = c /\ g = f THEN i ELSE stage[d][g]
        /\ content'[i] = Bytes(f, c)
        /\ \A j \in Inodes : j # i => content'[j] = content[j]
    BY <2>1, <2>2 DEF LInv, TypeOK
  <2>4. /\ Others(c)
        /\ op'[c] = [op[c] EXCEPT !.pc = IF f = "receipt" THEN "stage_hook" ELSE "probe",
                                  !.file[f] = i, !.todo = @ \cup {f}]
    BY <2>1, BecomeFacts DEF LInv
  <2>5. op[c] \in Operations /\ op[c].file \in [Artifacts -> Inodes \cup {NoInode}]
    BY OpType DEF LInv, Operations
  <2>6. /\ op'[c].pc = IF f = "receipt" THEN "stage_hook" ELSE "probe"
        /\ op'[c].lock = op[c].lock /\ op'[c].author = op[c].author /\ op'[c].settled = op[c].settled
        /\ \A g \in Artifacts : op'[c].file[g] = IF g = f THEN i ELSE op[c].file[g]
    <3>1. op'[c].file = [op[c].file EXCEPT ![f] = i]
      BY <2>4, <2>5 DEF Operations
    <3>2. \A g \in Artifacts : op'[c].file[g] = IF g = f THEN i ELSE op[c].file[g]
      BY <2>5, <3>1
    <3> QED
      BY <2>4, <2>5, <3>2 DEF Operations
  <2>7. \A n \in FixedNames : Present(n) => entry[n] \in Inodes /\ content'[entry[n]] = content[entry[n]]
    BY <2>2, <2>3 DEF LInv, TypeOK, Present
  <2>8. FilesInv'
    <3>1. /\ \A m, n \in FixedNames : Present(m)' /\ entry'[m] = entry'[n] => m = n
          /\ \A g \in Artifacts : Present(g)' => content'[entry'[g]].kind = g /\ content'[entry'[g]].by \in Commands
          /\ Present("lock")' => content'[entry'["lock"]].by \in Commands
      BY <1>1, <2>7 DEF LInv, FilesInv, Present, FixedNames
    <3>2. \A d, e \in Commands, g, h \in Artifacts :
             stage'[d][g] # NoInode /\ stage'[d][g] = stage'[e][h] => d = e /\ g = h
      BY <2>2, <2>3 DEF LInv, FilesInv
    <3>3. \A n \in FixedNames, d \in Commands, g \in Artifacts :
             stage'[d][g] # NoInode /\ entry'[n] = stage'[d][g] => n = g
      BY <1>1, <2>2, <2>3 DEF LInv, FilesInv
    <3>4. \A d \in Commands, g \in Artifacts :
             stage'[d][g] # NoInode => content'[stage'[d][g]] = Bytes(g, d)
      <4> TAKE d \in Commands, g \in Artifacts
      <4>1. stage[d][g] \in Inodes \cup {NoInode}
        BY DEF LInv, TypeOK
      <4> QED
        BY <2>2, <2>3, <4>1 DEF LInv, FilesInv
    <3> QED
      BY <3>1, <3>2, <3>3, <3>4 DEF FilesInv
  <2>9. op[c].lock # NoInode /\ entry["lock"] = op[c].lock /\ content[entry["lock"]].by = c
    <3>1. op[c].lock # NoInode
      BY <1>1 DEF LInv, OwnInv, HoldingSteps, InstallSteps
    <3> QED
      BY <3>1 DEF LInv, HolderInv
  <2>10. content'[op[c].lock] = content[op[c].lock]
    BY <2>7, <2>9 DEF Present, FixedNames
  <2>11. OwnInv(c, op[c])'
    <3>1. CASE f = "receipt"
      <4>1. op[c].pc = "stage_receipt" /\ op'[c].pc = "stage_hook"
        BY <1>1, <2>6, <3>1 DEF StageStep, Artifacts
      <4>2. op'[c].file["receipt"] = stage'[c]["receipt"] /\ op'[c].file["receipt"] # NoInode
        BY <2>2, <2>3, <2>6, <3>1 DEF Artifacts
      <4> QED
        BY <2>6, <2>10, <4>1, <4>2 DEF LInv, OwnInv, Install, HoldingSteps, LockedSteps,
          InstallSteps, RemoveSteps, CheckSteps,
          StagedReceipt, PublishedReceipt, PublishedHook, Settled, Unpublishing
    <3>2. CASE f = "hook"
      <4>1. op[c].pc = "stage_hook" /\ op'[c].pc = "probe"
        BY <1>1, <2>6, <3>2 DEF StageStep, Artifacts
      <4>2. /\ op'[c].file["hook"] = stage'[c]["hook"] /\ op'[c].file["hook"] # NoInode
            /\ op'[c].file["receipt"] = op[c].file["receipt"] /\ stage'[c]["receipt"] = stage[c]["receipt"]
        BY <2>2, <2>3, <2>6, <3>2 DEF Artifacts
      <4> QED
        BY <2>6, <2>10, <4>1, <4>2 DEF LInv, OwnInv, Install, HoldingSteps, LockedSteps,
          InstallSteps, RemoveSteps, CheckSteps,
          StagedReceipt, PublishedReceipt, PublishedHook, Settled, Unpublishing
    <3> QED
      BY <3>1, <3>2 DEF Artifacts
  <2>12. HookCallsSucceed => KnownInv(op[c], Install(c))'
    <3>1. HookCallsSucceed => ~Present("receipt") /\ ~Present("hook")
      BY <1>1 DEF LInv, KnownInv, StagedReceipt
    <3>2. op'[c].pc \in {"stage_hook", "probe"}
      BY <2>6
    <3> QED
      BY <1>1, <3>1, <3>2 DEF KnownInv, Present,
        StagedReceipt, PublishedReceipt, PublishedHook, Unpublishing, TracksHook, DropsReceipt
  <2>13. HookCallsSucceed => (Present("hook") => HookMatches)'
    BY <1>1, <2>7, HookKept DEF FixedNames
  <2>14. LInv'
    <3>1. \A d \in Commands : d # c => stage'[d] = stage[d]
      BY <2>1 DEF LInv, TypeOK
    <3>2. entry'["lock"] = op'[c].lock /\ content'[entry'["lock"]].by = c
      BY <1>1, <2>6, <2>9, <2>10
    <3> QED
      BY <2>4, <2>8, <2>9, <2>11, <2>12, <2>13, <3>1, <3>2, HolderStep
  <2>15. LifecycleSame
    BY <1>1, <2>7 DEF LifecycleSame, AuthorOf, Present, FixedNames, Artifacts
  <2> QED
    BY <2>14, <2>15 DEF Serves, Lifecycles
<1> QED
  BY <1>2, <1>3 DEF CreateStageFile

\* The holder of the lock, as the lock file names it.
LEMMA HolderNamed ==
    ASSUME LInv, NEW c \in Commands, op[c].lock # NoInode
    PROVE  /\ entry["lock"] = op[c].lock /\ Present("lock")
           /\ content[entry["lock"]].by = c /\ AuthorOf("lock") = c
  BY DEF LInv, HolderInv, AuthorOf, Present

\* A link gives the staged file its name: the claim of the record, and then
\* the enabling of the hook.
LEMMA LinkServes ==
    ASSUME LInv, TypeOK', NEW c \in Commands, NEW f \in Artifacts, Link(c, f)
    PROVE  Serves(c)
<1>1. /\ op[c].pc \in {"link_receipt", "link_hook"} /\ op[c].pc = LinkStep[f]
      /\ content' = content /\ stage' = stage
  <2>1. op[c].pc = LinkStep[f] /\ content' = content /\ stage' = stage
    BY DEF Link, At
  <2> QED
    BY <2>1 DEF LinkStep, Artifacts
<1>2. op[c].lock # NoInode /\ op[c].author = c /\ Install(c) /\ Kind[c] = "install"
  BY <1>1 DEF LInv, OwnInv, HoldingSteps, InstallSteps, StagedReceipt, PublishedReceipt, Install
<1>3. op[c].file[f] = stage[c][f] /\ stage[c][f] # NoInode
  BY <1>1 DEF LInv, OwnInv, LinkStep, Artifacts, StagedReceipt, PublishedReceipt
<1>4. content[stage[c][f]] = Bytes(f, c)
  BY <1>3 DEF LInv, FilesInv
<1>5. CASE entry' = entry /\ Go(c, InspectStep[f])
  <2>1. Others(c) /\ Same(c) /\ op'[c].pc = InspectStep[f]
    BY <1>5, GoSame DEF LInv
  <2>2. CASE f = "receipt"
    <3>1. op[c].pc = "link_receipt" /\ op'[c].pc = "inspect_receipt"
      BY <1>1, <2>1, <2>2 DEF InspectStep, LinkStep, Artifacts
    <3>2. OwnInv(c, op'[c])
      BY <2>1, <3>1 DEF LInv, OwnInv, Same, HoldingSteps, LockedSteps, InstallSteps, RemoveSteps,
        CheckSteps,
        StagedReceipt, PublishedReceipt, PublishedHook, Settled, Unpublishing
    <3>3. HookCallsSucceed => KnownInv(op'[c], Install(c))
      BY <2>1, <3>1 DEF LInv, KnownInv,
        StagedReceipt, PublishedReceipt, PublishedHook, Unpublishing, TracksHook, DropsReceipt
    <3> QED
      BY <1>1, <1>5, <2>1, <3>2, <3>3, MovesServe DEF Moves, Kept, Same
  <2>3. CASE f = "hook"
    <3>1. op[c].pc = "link_hook" /\ op'[c].pc = "inspect_hook"
      BY <1>1, <2>1, <2>3 DEF InspectStep, LinkStep, Artifacts
    <3>2. OwnInv(c, op'[c])
      BY <2>1, <3>1 DEF LInv, OwnInv, Same, HoldingSteps, LockedSteps, InstallSteps, RemoveSteps,
        CheckSteps,
        StagedReceipt, PublishedReceipt, PublishedHook, Settled, Unpublishing
    <3>3. HookCallsSucceed => KnownInv(op'[c], Install(c))
      BY <2>1, <3>1 DEF LInv, KnownInv, Same, Tracked,
        StagedReceipt, PublishedReceipt, PublishedHook, Unpublishing, TracksHook, DropsReceipt
    <3> QED
      BY <1>1, <1>5, <2>1, <3>2, <3>3, MovesServe DEF Moves, Kept, Same
  <2> QED
    BY <2>2, <2>3 DEF Artifacts
<1>6. CASE /\ ~Present(f)
           /\ entry' = [entry EXCEPT ![f] = op[c].file[f]]
           /\ \E l \in {ConfirmStep[f], InspectStep[f]} :
                Become(c, [op[c] EXCEPT !.pc = l, !.changed = @ \cup {f}])
  <2>1. PICK l \in {ConfirmStep[f], InspectStep[f]} :
           /\ Others(c) /\ op'[c] = [op[c] EXCEPT !.pc = l, !.changed = @ \cup {f}]
    BY <1>6, BecomeFacts DEF LInv
  <2>2. Others(c) /\ Same(c) /\ op'[c].pc = l
    BY <2>1, OpType DEF LInv, Operations, Same
  <2>3. /\ entry'[f] = stage[c][f]
        /\ \A n \in FixedNames : n # f => entry'[n] = entry[n]
    BY <1>3, <1>6 DEF LInv, TypeOK, FixedNames
  <2>4. FilesInv'
    <3>1. \A m, n \in FixedNames : Present(m)' /\ entry'[m] = entry'[n] => m = n
      BY <1>3, <2>3 DEF LInv, FilesInv, Present
    <3>2. \A d, e \in Commands, g, h \in Artifacts :
             stage'[d][g] # NoInode /\ stage'[d][g] = stage'[e][h] => d = e /\ g = h
      BY <1>1 DEF LInv, FilesInv
    <3>3. \A n \in FixedNames, d \in Commands, g \in Artifacts :
             stage'[d][g] # NoInode /\ entry'[n] = stage'[d][g] => n = g
      BY <1>1, <1>3, <2>3 DEF LInv, FilesInv
    <3>4. \A d \in Commands, g \in Artifacts :
             stage'[d][g] # NoInode => content'[stage'[d][g]] = Bytes(g, d)
      BY <1>1 DEF LInv, FilesInv
    <3>5. \A g \in Artifacts : Present(g)' => content'[entry'[g]].kind = g /\ content'[entry'[g]].by \in Commands
      BY <1>1, <1>4, <2>3 DEF LInv, FilesInv, Present, Bytes, FixedNames
    <3>6. Present("lock")' => content'[entry'["lock"]].by \in Commands
      BY <1>1, <2>3 DEF LInv, FilesInv, Present, FixedNames, Artifacts
    <3> QED
      BY <3>1, <3>2, <3>3, <3>4, <3>5, <3>6 DEF FilesInv
  <2>5. entry'["lock"] = op'[c].lock /\ content'[entry'["lock"]].by = c
    BY <1>1, <1>2, <2>2, <2>3, HolderNamed DEF Same, FixedNames, Artifacts
  <2>6. CASE f = "receipt"
    <3>1. op[c].pc = "link_receipt" /\ op'[c].pc \in {"confirm_receipt", "inspect_receipt"}
      BY <1>1, <2>2, <2>6 DEF InspectStep, ConfirmStep, LinkStep, Artifacts
    <3>2. entry'["receipt"] = stage[c]["receipt"] /\ entry'["hook"] = entry["hook"]
      BY <2>3, <2>6 DEF FixedNames, Artifacts
    <3>3. Tracked(op[c], "receipt")'
      BY <1>1, <1>2, <1>3, <1>4, <2>2, <2>6, <3>2 DEF Tracked, Present, Same
    <3>4. OwnInv(c, op[c])'
      BY <1>1, <2>2, <3>1 DEF LInv, OwnInv, Same, Install, HoldingSteps, LockedSteps, InstallSteps,
        RemoveSteps, CheckSteps,
        StagedReceipt, PublishedReceipt, PublishedHook, Settled, Unpublishing
    <3>5. HookCallsSucceed => ~Present("hook")
      BY <3>1 DEF LInv, KnownInv, StagedReceipt
    <3>6. HookCallsSucceed => KnownInv(op[c], Install(c))'
      BY <3>1, <3>2, <3>3, <3>5 DEF KnownInv, Present, Tracked,
        StagedReceipt, PublishedReceipt, PublishedHook, Unpublishing, TracksHook, DropsReceipt
    <3>7. LInv'
      BY <1>1, <1>2, <2>2, <2>4, <2>5, <3>2, <3>4, <3>5, <3>6, HolderStep DEF Present
    <3>8. HookCallsSucceed => Lifecycle!Claim(c)
      <4>1. AuthorOf("lock") = c /\ AuthorOf("lock")' = c
        BY <1>2, <2>2, <2>5, HolderNamed DEF AuthorOf, Present, Same
      <4>2. AuthorOf("receipt") = Nobody
        BY <1>6, <2>6 DEF AuthorOf
      <4>3. AuthorOf("receipt")' = c
        BY <1>1, <1>3, <1>4, <2>6, <3>2 DEF AuthorOf, Present, Bytes
      <4>4. HookCallsSucceed => AuthorOf("hook") = Nobody /\ AuthorOf("hook")' = Nobody
        BY <3>2, <3>5 DEF AuthorOf, Present
      <4> QED
        BY <1>2, <4>1, <4>2, <4>3, <4>4 DEF Lifecycle!Claim
    <3> QED
      BY <3>7, <3>8 DEF Serves, Lifecycles, Lifecycle!Next
  <2>7. CASE f = "hook"
    <3>1. op[c].pc = "link_hook" /\ op'[c].pc \in {"confirm_hook", "inspect_hook"}
      BY <1>1, <2>2, <2>7 DEF InspectStep, ConfirmStep, LinkStep, Artifacts
    <3>2. entry'["hook"] = stage[c]["hook"] /\ entry'["receipt"] = entry["receipt"]
      BY <2>3, <2>7 DEF FixedNames, Artifacts
    <3>3. Tracked(op[c], "hook")'
      BY <1>1, <1>2, <1>3, <1>4, <2>2, <2>7, <3>2 DEF Tracked, Present, Same
    <3>4. HookCallsSucceed => Tracked(op[c], "receipt") /\ ~Present("hook")
      BY <3>1 DEF LInv, KnownInv, PublishedReceipt
    <3>5. HookCallsSucceed => Tracked(op[c], "receipt")'
      BY <1>1, <2>2, <3>2, <3>4 DEF Tracked, Present, Same
    <3>6. OwnInv(c, op[c])'
      BY <1>1, <2>2, <3>1 DEF LInv, OwnInv, Same, Install, HoldingSteps, LockedSteps, InstallSteps,
        RemoveSteps, CheckSteps,
        StagedReceipt, PublishedReceipt, PublishedHook, Settled, Unpublishing
    <3>7. HookCallsSucceed => KnownInv(op[c], Install(c))'
      BY <3>1, <3>3, <3>5 DEF KnownInv, Present, Tracked,
        StagedReceipt, PublishedReceipt, PublishedHook, Unpublishing, TracksHook, DropsReceipt
    <3>8. HookCallsSucceed => (Present("hook") => HookMatches)'
      BY <1>2, <2>2, <3>3, <3>5 DEF HookMatches, Recorded, Holds, Tracked, Same, Bytes, Present
    <3>9. LInv'
      BY <1>1, <1>2, <2>2, <2>4, <2>5, <3>6, <3>7, <3>8, HolderStep
    <3>10. HookCallsSucceed => Lifecycle!Enable(c)
      <4>1. AuthorOf("lock") = c /\ AuthorOf("lock")' = c
        BY <1>2, <2>2, <2>5, HolderNamed DEF AuthorOf, Present, Same
      <4>2. AuthorOf("hook") = Nobody
        BY <1>6, <2>7 DEF AuthorOf
      <4>3. AuthorOf("hook")' = c
        BY <1>1, <1>3, <1>4, <2>7, <3>2 DEF AuthorOf, Present, Bytes
      <4>4. HookCallsSucceed => AuthorOf("receipt") = c /\ AuthorOf("receipt")' = c
        BY <1>1, <1>2, <3>2, <3>4 DEF AuthorOf, Present, Tracked, Bytes
      <4> QED
        BY <1>2, <4>1, <4>2, <4>3, <4>4 DEF Lifecycle!Enable
    <3> QED
      BY <3>9, <3>10 DEF Serves, Lifecycles, Lifecycle!Next
  <2> QED
    BY <2>6, <2>7 DEF Artifacts
<1> QED
  BY <1>5, <1>6 DEF Link, NoReplace

\* The command that is about to unlink an artifact, and what it goes to.
UnlinkSteps == {"rollback_unlink", "unpublish_unlink", "drop_hook_unlink", "drop_receipt_unlink"}
UnlinkedAt(f) == IF f = "hook" THEN {"drop_hook_unlink"} ELSE UnlinkSteps \ {"drop_hook_unlink"}

\* The unlinking of an artifact: the hook is disabled, or the record disclaimed.
LEMMA UnlinkServes ==
    ASSUME LInv, TypeOK', NEW c \in Commands, NEW f \in Artifacts, op[c].pc \in UnlinkedAt(f),
           Present(f), entry' = [entry EXCEPT ![f] = NoInode], content' = content, stage' = stage,
           Others(c), op'[c].lock = op[c].lock,
           op'[c].pc \in {"rolled_back", "catch", "cleanup", "dropped_receipt", "dropped_hook"},
           OwnInv(c, op'[c]), ~(Install(c) /\ op'[c].pc = "catch" /\ op'[c].settled = {"receipt"})
    PROVE  Serves(c)
<1>1. op[c].lock # NoInode
  BY DEF LInv, OwnInv, HoldingSteps, RemoveSteps, InstallSteps, UnlinkedAt, UnlinkSteps
<1>2. /\ entry'[f] = NoInode
      /\ \A n \in FixedNames : n # f => entry'[n] = entry[n]
      /\ entry'["lock"] = entry["lock"]
  BY DEF LInv, TypeOK, FixedNames, Artifacts
<1>3. FilesInv'
  <2>1. \A n \in FixedNames : entry'[n] \in {entry[n], NoInode}
    BY <1>2
  <2>2. \A m, n \in FixedNames : Present(m)' /\ entry'[m] = entry'[n] => m = n
    BY <2>1 DEF LInv, FilesInv, Present
  <2>3. \A d, e \in Commands, g, h \in Artifacts :
           stage'[d][g] # NoInode /\ stage'[d][g] = stage'[e][h] => d = e /\ g = h
    BY DEF LInv, FilesInv
  <2>4. \A n \in FixedNames, d \in Commands, g \in Artifacts :
           stage'[d][g] # NoInode /\ entry'[n] = stage'[d][g] => n = g
    BY <2>1 DEF LInv, FilesInv
  <2>5. \A d \in Commands, g \in Artifacts :
           stage'[d][g] # NoInode => content'[stage'[d][g]] = Bytes(g, d)
    BY DEF LInv, FilesInv
  <2>6. \A g \in Artifacts : Present(g)' => content'[entry'[g]].kind = g /\ content'[entry'[g]].by \in Commands
    BY <2>1 DEF LInv, FilesInv, Present, FixedNames
  <2>7. Present("lock")' => content'[entry'["lock"]].by \in Commands
    BY <1>2 DEF LInv, FilesInv, Present
  <2> QED
    BY <2>2, <2>3, <2>4, <2>5, <2>6, <2>7 DEF FilesInv
<1>4. entry'["lock"] = op'[c].lock /\ content'[entry'["lock"]].by = c
  BY <1>1, <1>2, HolderNamed
<1>5. OwnInv(c, op[c])'
  BY DEF OwnInv, Install
<1>6. KnownInv(op[c], Install(c))'
  <2>1. ~(Install(c)' /\ op'[c].pc = "catch" /\ op'[c].settled = {"receipt"})
    BY DEF Install
  <2> QED
    BY <2>1 DEF KnownInv, StagedReceipt, PublishedReceipt, PublishedHook, Unpublishing, TracksHook,
      DropsReceipt
<1>7. HookCallsSucceed => (f = "receipt" => ~Present("hook"))
  BY DEF LInv, KnownInv, UnlinkedAt, UnlinkSteps, PublishedReceipt, Unpublishing, DropsReceipt
<1>8. HookCallsSucceed => (Present("hook") => HookMatches)'
  <2>1. HookCallsSucceed => ~Present("hook")'
    BY <1>2, <1>7 DEF Present, FixedNames, Artifacts
  <2> QED
    BY <2>1
<1>9. LInv'
  BY <1>1, <1>3, <1>4, <1>5, <1>6, <1>8, HolderStep
<1>10. AuthorOf("lock") = c /\ AuthorOf("lock")' = c
  BY <1>1, <1>2, <1>4, HolderNamed DEF AuthorOf, Present
<1>11. HookCallsSucceed => Lifecycle!Disclaim(c) \/ Lifecycle!Disable(c)
  <2>1. CASE f = "receipt"
    <3>1. /\ AuthorOf("receipt") # Nobody /\ AuthorOf("receipt")' = Nobody
          /\ HookCallsSucceed => AuthorOf("hook") = Nobody /\ AuthorOf("hook")' = Nobody
      BY <1>2, <1>7, <2>1, FilesAssumption DEF AuthorOf, LInv, FilesInv, Present, FixedNames,
        Artifacts
    <3>2. HookCallsSucceed => Kind[c] = "remove" \/ AuthorOf("receipt") = c
      <4>1. CASE op[c].pc = "drop_receipt_unlink"
        BY <4>1, TransactionAssumption DEF LInv, OwnInv, RemoveSteps, Install
      <4>2. CASE op[c].pc \in {"rollback_unlink", "unpublish_unlink"}
        <5>1. HookCallsSucceed => Tracked(op[c], "receipt")
          BY <4>2 DEF LInv, KnownInv, PublishedReceipt, Unpublishing
        <5>2. op[c].author = c
          BY <4>2 DEF LInv, OwnInv, PublishedReceipt, Unpublishing
        <5> QED
          BY <5>1, <5>2 DEF Tracked, AuthorOf, Bytes
      <4> QED
        BY <2>1, <4>1, <4>2 DEF UnlinkedAt, UnlinkSteps
    <3> QED
      BY <1>10, <3>1, <3>2 DEF Lifecycle!Disclaim
  <2>2. CASE f = "hook"
    <3>1. op[c].pc = "drop_hook_unlink"
      BY <2>2 DEF UnlinkedAt
    <3>2. Kind[c] = "remove"
      BY <3>1, TransactionAssumption DEF LInv, OwnInv, RemoveSteps, Install
    <3>3. HookCallsSucceed => Tracked(op[c], "receipt") /\ Tracked(op[c], "hook")
      BY <3>1 DEF LInv, KnownInv, TracksHook
    <3>4. AuthorOf("hook") # Nobody
      BY <2>2, FilesAssumption DEF AuthorOf, LInv, FilesInv, Artifacts
    <3>5. HookCallsSucceed => AuthorOf("receipt") = AuthorOf("hook")
      BY <3>3 DEF Tracked, AuthorOf, Bytes
    <3>6. AuthorOf("hook")' = Nobody /\ AuthorOf("receipt")' = AuthorOf("receipt")
      BY <1>2, <2>2 DEF AuthorOf, Present, FixedNames, Artifacts
    <3> QED
      BY <1>10, <3>2, <3>4, <3>5, <3>6 DEF Lifecycle!Disable
  <2> QED
    BY <2>1, <2>2 DEF Artifacts
<1> QED
  BY <1>9, <1>11 DEF Serves, Lifecycles, Lifecycle!Next

LEMMA RollbackUnlinkServes ==
    ASSUME LInv, TypeOK', NEW c \in Commands, RollbackUnlink(c)
    PROVE  Serves(c)
<1>1. op[c].pc = "rollback_unlink" /\ content' = content /\ stage' = stage
  BY DEF RollbackUnlink, Unlink, At
<1>2. \E e : RolledBack(c, e)
  BY DEF RollbackUnlink, Unlink
<1>3. /\ Others(c) /\ op'[c].lock = op[c].lock
      /\ OwnInv(c, op'[c]) /\ KnownInv(op'[c], Install(c))
  BY <1>1, <1>2, RolledBackFields
<1>4. op'[c].pc \in {"rolled_back", "catch"} /\ op'[c].settled = {}
  <2>1. /\ Others(c)
        /\ \/ op'[c] = [op[c] EXCEPT !.pc = "rolled_back", !.settled = {}, !.changed = @ \ {"receipt"}]
           \/ \E e : op'[c] = [op[c] EXCEPT !.pc = "catch", !.settled = {}, !.err = e]
    BY <1>2, BecomeFacts DEF RolledBack, LInv
  <2> QED
    BY <2>1, OpType DEF Operations, LInv
<1>5. CASE entry' = entry
  BY <1>1, <1>3, <1>5, MovesServe DEF Moves, Kept
<1>6. CASE Present("receipt") /\ entry' = [entry EXCEPT !["receipt"] = NoInode]
  <2>1. op[c].pc \in UnlinkedAt("receipt") /\ "receipt" \in Artifacts
    BY <1>1 DEF UnlinkedAt, UnlinkSteps, Artifacts
  <2> QED
    BY <1>1, <1>3, <1>4, <1>6, <2>1, UnlinkServes
<1> QED
  BY <1>5, <1>6 DEF RollbackUnlink, Unlink

LEMMA UnpublishUnlinkServes ==
    ASSUME LInv, TypeOK', NEW c \in Commands, UnpublishUnlink(c)
    PROVE  Serves(c)
<1>1. op[c].pc = "unpublish_unlink" /\ content' = content /\ stage' = stage
  BY DEF UnpublishUnlink, Unlink, At
<1>2. Others(c) /\ op'[c].pc = "cleanup" /\ op'[c].lock = op[c].lock
  BY UnpublishedFields DEF UnpublishUnlink, Unlink
<1>3. CASE entry' = entry
  BY <1>1, <1>2, <1>3, CleanupMoves, MovesServe DEF LockedSteps
<1>4. CASE Present("receipt") /\ entry' = [entry EXCEPT !["receipt"] = NoInode]
  <2>1. op[c].pc \in UnlinkedAt("receipt") /\ "receipt" \in Artifacts
    BY <1>1 DEF UnlinkedAt, UnlinkSteps, Artifacts
  <2>2. OwnInv(c, op'[c])
    BY <1>1, <1>2 DEF LInv, OwnInv, HoldingSteps, LockedSteps, InstallSteps, RemoveSteps,
      CheckSteps,
      StagedReceipt, PublishedReceipt, PublishedHook, Unpublishing
  <2> QED
    BY <1>1, <1>2, <1>4, <2>1, <2>2, UnlinkServes
<1> QED
  BY <1>3, <1>4 DEF UnpublishUnlink, Unlink

LEMMA DropUnlinkServes ==
    ASSUME LInv, TypeOK', NEW c \in Commands, NEW f \in Artifacts, DropUnlink(c, f)
    PROVE  Serves(c)
<1>1. /\ op[c].pc = DropUnlinkStep[f] /\ op[c].pc \in {"drop_hook_unlink", "drop_receipt_unlink"}
      /\ content' = content /\ stage' = stage
  <2>1. op[c].pc = DropUnlinkStep[f] /\ content' = content /\ stage' = stage
    BY DEF DropUnlink, Unlink, At
  <2> QED
    BY <2>1 DEF DropUnlinkStep, Artifacts
<1>2. ~Install(c)
  BY <1>1 DEF LInv, OwnInv, RemoveSteps
<1>3. CASE entry' = entry /\ Throw(c, "recovery")
  <2>1. Moves(c)
    BY <1>1, <1>3, ThrowMoves DEF RemoveSteps, PublishedHook
  <2> QED
    BY <2>1, MovesServe
<1>4. CASE /\ Present(f) /\ entry' = [entry EXCEPT ![f] = NoInode]
           /\ \/ Become(c, [[op[c] EXCEPT !.pc = DroppedStep[f]] EXCEPT !.changed = @ \cup {f}])
              \/ Become(c, [[op[c] EXCEPT !.pc = "catch", !.err = "recovery"] EXCEPT !.changed = @ \cup {f}])
  <2>1. /\ Others(c)
        /\ \/ op'[c] = [[op[c] EXCEPT !.pc = DroppedStep[f]] EXCEPT !.changed = @ \cup {f}]
           \/ op'[c] = [[op[c] EXCEPT !.pc = "catch", !.err = "recovery"] EXCEPT !.changed = @ \cup {f}]
    BY <1>4, BecomeFacts DEF LInv
  <2>2. op'[c].lock = op[c].lock /\ op'[c].pc \in {DroppedStep[f], "catch"}
    BY <2>1, OpType DEF LInv, Operations
  <2>3. op'[c].pc \in {"dropped_receipt", "dropped_hook", "catch"}
    BY <2>2 DEF DroppedStep, Artifacts
  <2>4. op[c].pc \in UnlinkedAt(f)
    BY <1>1 DEF UnlinkedAt, UnlinkSteps, DropUnlinkStep, Artifacts
  <2>5. OwnInv(c, op'[c])
    BY <1>1, <1>2, <2>2, <2>3 DEF LInv, OwnInv, HoldingSteps, LockedSteps, InstallSteps,
      RemoveSteps, CheckSteps,
      StagedReceipt, PublishedReceipt, PublishedHook, Unpublishing
  <2> QED
    BY <1>1, <1>2, <1>4, <2>1, <2>2, <2>3, <2>4, <2>5, UnlinkServes
<1> QED
  BY <1>3, <1>4 DEF DropUnlink, Unlink

-----------------------------------------------------------------------------
(* The steps that make and take away the lock.                             *)

\* A new lock file, at a name that was free.
LEMMA CreateLockServes ==
    ASSUME LInv, TypeOK', NEW c \in Commands, CreateLock(c)
    PROVE  Serves(c)
<1>1. op[c].pc = "lock" /\ op[c].lock = NoInode /\ stage' = stage
  BY DEF CreateLock, At, LInv, OwnInv
<1>2. CASE entry' = entry /\ content' = content /\ \E e : Throw(c, e)
  <2>1. Others(c) /\ Same(c) /\ op'[c].pc = "catch"
    BY <1>2, ThrowSame DEF LInv
  <2>2. ~(Install(c) /\ op[c].settled = {"receipt"})
    BY <1>1 DEF LInv, OwnInv, Settled, Unpublishing, PublishedHook
  <2>3. OwnInv(c, op'[c])
    BY <1>1, <2>1, <2>2 DEF OwnInv, Same, HoldingSteps, LockedSteps, InstallSteps, RemoveSteps,
      CheckSteps,
      StagedReceipt, PublishedReceipt, PublishedHook, Unpublishing
  <2>4. KnownInv(op'[c], Install(c))
    BY <2>1, <2>2 DEF KnownInv, Same,
      StagedReceipt, PublishedReceipt, PublishedHook, Unpublishing, TracksHook, DropsReceipt
  <2> QED
    BY <1>1, <1>2, <2>1, <2>3, <2>4, MovesServe DEF Moves, Kept, Same
<1>3. CASE /\ ~Present("lock")
           /\ \E i \in FreeInodes :
                /\ entry' = [entry EXCEPT !["lock"] = i]
                /\ content' = [content EXCEPT ![i] = Bytes("blank", c)]
                /\ Become(c, [op[c] EXCEPT !.pc = "write_lock", !.lock = i])
  <2>1. PICK i \in FreeInodes :
                /\ entry' = [entry EXCEPT !["lock"] = i]
                /\ content' = [content EXCEPT ![i] = Bytes("blank", c)]
                /\ Become(c, [op[c] EXCEPT !.pc = "write_lock", !.lock = i])
    BY <1>3
  <2>2. /\ i \in Inodes /\ i # NoInode
        /\ \A n \in FixedNames : entry[n] # i
        /\ \A d \in Commands, g \in Artifacts : stage[d][g] # i
    BY FilesAssumption DEF FreeInodes, Staged
  <2>3. /\ entry'["lock"] = i /\ content'[i] = Bytes("blank", c)
        /\ \A n \in FixedNames : n # "lock" => entry'[n] = entry[n]
        /\ \A j \in Inodes : j # i => content'[j] = content[j]
    BY <2>1, <2>2 DEF LInv, TypeOK, FixedNames
  <2>4. /\ Others(c) /\ op'[c].pc = "write_lock" /\ op'[c].lock = i
        /\ op'[c].settled = op[c].settled
    <3>1. Others(c) /\ op'[c] = [op[c] EXCEPT !.pc = "write_lock", !.lock = i]
      BY <2>1, BecomeFacts DEF LInv
    <3> QED
      BY <3>1, OpType DEF LInv, Operations
  <2>5. \A f \in Artifacts : entry'[f] = entry[f] /\ (Present(f) => content'[entry[f]] = content[entry[f]])
    BY <2>2, <2>3 DEF LInv, TypeOK, Present, FixedNames, Artifacts
  <2>6. FilesInv'
    <3>1. \A m, n \in FixedNames : Present(m)' /\ entry'[m] = entry'[n] => m = n
      BY <2>2, <2>3 DEF LInv, FilesInv, Present
    <3>2. \A d, e \in Commands, g, h \in Artifacts :
             stage'[d][g] # NoInode /\ stage'[d][g] = stage'[e][h] => d = e /\ g = h
      BY <1>1 DEF LInv, FilesInv
    <3>3. \A n \in FixedNames, d \in Commands, g \in Artifacts :
             stage'[d][g] # NoInode /\ entry'[n] = stage'[d][g] => n = g
      BY <1>1, <2>2, <2>3 DEF LInv, FilesInv
    <3>4. \A d \in Commands, g \in Artifacts :
             stage'[d][g] # NoInode => content'[stage'[d][g]] = Bytes(g, d)
      <4> TAKE d \in Commands, g \in Artifacts
      <4>1. stage[d][g] \in Inodes \cup {NoInode}
        BY DEF LInv, TypeOK
      <4> QED
        BY <1>1, <2>2, <2>3, <4>1 DEF LInv, FilesInv
    <3>5. \A g \in Artifacts : Present(g)' => content'[entry'[g]].kind = g /\ content'[entry'[g]].by \in Commands
      BY <2>5 DEF LInv, FilesInv, Present
    <3>6. content'[entry'["lock"]].by \in Commands
      BY <2>3 DEF Bytes
    <3> QED
      BY <3>1, <3>2, <3>3, <3>4, <3>5, <3>6 DEF FilesInv
  <2>7. OwnInv(c, op[c])'
    BY <1>1, <2>2, <2>4 DEF LInv, OwnInv, Install, HoldingSteps, LockedSteps, InstallSteps,
      RemoveSteps, CheckSteps,
      StagedReceipt, PublishedReceipt, PublishedHook, Settled, Unpublishing
  <2>8. KnownInv(op[c], Install(c))'
    BY <2>4 DEF KnownInv, StagedReceipt, PublishedReceipt, PublishedHook, Unpublishing, TracksHook,
      DropsReceipt
  <2>9. HookCallsSucceed => (Present("hook") => HookMatches)'
    BY <2>5, HookKept
  <2>10. content'[entry'["lock"]].by = c
    BY <2>3 DEF Bytes
  <2>11. LInv'
    BY <1>1, <1>3, <2>3, <2>4, <2>6, <2>7, <2>8, <2>9, <2>10, HolderStep
  <2>12. AuthorOf("lock") = Nobody /\ AuthorOf("lock")' = c
    BY <1>3, <2>2, <2>3, <2>10 DEF AuthorOf, Present
  <2>13. AuthorOf("receipt")' = AuthorOf("receipt") /\ AuthorOf("hook")' = AuthorOf("hook")
    BY <2>5 DEF AuthorOf, Present, Artifacts
  <2>14. Lifecycle!Enter(c)
    BY <2>12, <2>13 DEF Lifecycle!Enter
  <2> QED
    BY <2>11, <2>14 DEF Serves, Lifecycles, Lifecycle!Next
<1> QED
  BY <1>2, <1>3 DEF CreateLock, LockFree

LEMMA WriteLockServes ==
    ASSUME LInv, TypeOK', NEW c \in Commands, WriteLock(c)
    PROVE  Serves(c)
<1>1. op[c].pc = "write_lock" /\ op[c].lock # NoInode /\ entry' = entry /\ stage' = stage
  BY DEF WriteLock, At, LInv, OwnInv, HoldingSteps
<1>2. CASE content' = content /\ Go(c, "abandon_lock")
  <2>1. Others(c) /\ Same(c) /\ op'[c].pc = "abandon_lock"
    BY <1>2, GoSame DEF LInv
  <2>2. OwnInv(c, op'[c])
    BY <1>1, <2>1 DEF LInv, OwnInv, Same, HoldingSteps, LockedSteps, InstallSteps, RemoveSteps,
      CheckSteps,
      StagedReceipt, PublishedReceipt, PublishedHook, Settled, Unpublishing
  <2>3. KnownInv(op'[c], Install(c))
    BY <2>1 DEF KnownInv, StagedReceipt, PublishedReceipt, PublishedHook, Unpublishing, TracksHook,
      DropsReceipt
  <2> QED
    BY <1>1, <1>2, <2>1, <2>2, <2>3, MovesServe DEF Moves, Kept, Same
<1>3. CASE /\ content' = [content EXCEPT ![op[c].lock] = Bytes("lock", c)]
           /\ Go(c, IF Install(c) THEN "check_locked" ELSE "survey")
  <2>1. /\ Others(c) /\ Same(c)
        /\ op'[c].pc = IF Install(c) THEN "check_locked" ELSE "survey"
    BY <1>3, GoSame DEF LInv
  <2>2. /\ entry["lock"] = op[c].lock /\ op[c].lock \in Inodes
        /\ content[entry["lock"]].by = c
    BY <1>1, HolderNamed DEF LInv, TypeOK, FixedNames
  <2>3. /\ content'[op[c].lock] = Bytes("lock", c)
        /\ \A j \in Inodes : j # op[c].lock => content'[j] = content[j]
    BY <1>3, <2>2 DEF LInv, TypeOK
  <2>4. \A f \in Artifacts : entry'[f] = entry[f] /\ (Present(f) => content'[entry[f]] = content[entry[f]])
    <3> TAKE f \in Artifacts
    <3>1. entry[f] \in Inodes \cup {NoInode}
      BY DEF LInv, TypeOK, FixedNames
    <3>2. Present(f) => entry[f] # entry["lock"]
      BY DEF LInv, FilesInv, FixedNames, Artifacts
    <3> QED
      BY <1>1, <2>2, <2>3, <3>1, <3>2 DEF Present
  <2>5. FilesInv'
    <3>1. \A m, n \in FixedNames : Present(m)' /\ entry'[m] = entry'[n] => m = n
      BY <1>1 DEF LInv, FilesInv, Present
    <3>2. \A d, e \in Commands, g, h \in Artifacts :
             stage'[d][g] # NoInode /\ stage'[d][g] = stage'[e][h] => d = e /\ g = h
      BY <1>1 DEF LInv, FilesInv
    <3>3. \A n \in FixedNames, d \in Commands, g \in Artifacts :
             stage'[d][g] # NoInode /\ entry'[n] = stage'[d][g] => n = g
      BY <1>1 DEF LInv, FilesInv
    <3>4. \A d \in Commands, g \in Artifacts :
             stage'[d][g] # NoInode => content'[stage'[d][g]] = Bytes(g, d)
      <4> TAKE d \in Commands, g \in Artifacts
      <4>1. stage[d][g] \in Inodes \cup {NoInode}
        BY DEF LInv, TypeOK
      <4>2. stage[d][g] # NoInode => stage[d][g] # entry["lock"]
        BY DEF LInv, FilesInv, FixedNames, Artifacts
      <4> QED
        BY <1>1, <2>2, <2>3, <4>1, <4>2 DEF LInv, FilesInv
    <3>5. \A g \in Artifacts : Present(g)' => content'[entry'[g]].kind = g /\ content'[entry'[g]].by \in Commands
      BY <2>4 DEF LInv, FilesInv, Present
    <3>6. content'[entry'["lock"]].by \in Commands
      BY <1>1, <2>2, <2>3 DEF Bytes
    <3> QED
      BY <3>1, <3>2, <3>3, <3>4, <3>5, <3>6 DEF FilesInv
  <2>6. OwnInv(c, op[c])'
    BY <1>1, <2>1, <2>3 DEF LInv, OwnInv, Same, Install, HoldingSteps, LockedSteps, InstallSteps,
      RemoveSteps, CheckSteps,
      StagedReceipt, PublishedReceipt, PublishedHook, Settled, Unpublishing
  <2>7. KnownInv(op[c], Install(c))'
    BY <2>1 DEF KnownInv, StagedReceipt, PublishedReceipt, PublishedHook, Unpublishing, TracksHook,
      DropsReceipt
  <2>8. HookCallsSucceed => (Present("hook") => HookMatches)'
    BY <2>4, HookKept
  <2>9. entry'["lock"] = op'[c].lock /\ content'[entry'["lock"]].by = c
    BY <1>1, <2>1, <2>2, <2>3 DEF Same, Bytes
  <2>10. LInv'
    BY <1>1, <2>1, <2>5, <2>6, <2>7, <2>8, <2>9, HolderStep
  <2>11. LifecycleSame
    <3>1. AuthorOf("lock")' = AuthorOf("lock")
      BY <1>1, <2>2, <2>9 DEF AuthorOf, Present
    <3> QED
      BY <2>4, <3>1 DEF LifecycleSame, AuthorOf, Present, Artifacts
  <2> QED
    BY <2>10, <2>11 DEF Serves, Lifecycles
<1> QED
  BY <1>2, <1>3 DEF WriteLock

\* The lock's own file is unlinked, and the command forgets it.
LEMMA UnlockServes ==
    ASSUME LInv, TypeOK', NEW c \in Commands, op[c].lock # NoInode, Others(c),
           entry' = [entry EXCEPT !["lock"] = NoInode], content' = content, stage' = stage,
           op'[c].lock = NoInode, OwnInv(c, op'[c]), KnownInv(op'[c], Install(c)),
           op'[c].pc \in {"catch", "release_confirm", "report"},
           ~(Install(c) /\ op'[c].pc = "catch" /\ op'[c].settled = {"receipt"})
    PROVE  Serves(c)
<1>1. /\ entry'["lock"] = NoInode
      /\ \A n \in FixedNames : n # "lock" => entry'[n] = entry[n]
  BY DEF LInv, TypeOK, FixedNames
<1>2. FilesInv'
  <2>1. \A n \in FixedNames : entry'[n] \in {entry[n], NoInode}
    BY <1>1
  <2>2. \A m, n \in FixedNames : Present(m)' /\ entry'[m] = entry'[n] => m = n
    BY <2>1 DEF LInv, FilesInv, Present
  <2>3. \A d, e \in Commands, g, h \in Artifacts :
           stage'[d][g] # NoInode /\ stage'[d][g] = stage'[e][h] => d = e /\ g = h
    BY DEF LInv, FilesInv
  <2>4. \A n \in FixedNames, d \in Commands, g \in Artifacts :
           stage'[d][g] # NoInode /\ entry'[n] = stage'[d][g] => n = g
    BY <2>1 DEF LInv, FilesInv
  <2>5. \A d \in Commands, g \in Artifacts :
           stage'[d][g] # NoInode => content'[stage'[d][g]] = Bytes(g, d)
    BY DEF LInv, FilesInv
  <2>6. \A g \in Artifacts : Present(g)' => content'[entry'[g]].kind = g /\ content'[entry'[g]].by \in Commands
    BY <2>1 DEF LInv, FilesInv, Present, FixedNames
  <2>7. ~Present("lock")'
    BY <1>1 DEF Present
  <2> QED
    BY <2>2, <2>3, <2>4, <2>5, <2>6, <2>7 DEF FilesInv
<1>3. OwnInv(c, op[c])'
  BY DEF OwnInv, Install
<1>4. KnownInv(op[c], Install(c))'
  <2>1. ~(Install(c)' /\ op'[c].pc = "catch" /\ op'[c].settled = {"receipt"})
    BY DEF Install
  <2> QED
    BY <2>1 DEF KnownInv, StagedReceipt, PublishedReceipt, PublishedHook, Unpublishing, TracksHook,
      DropsReceipt
<1>5. HookCallsSucceed => (Present("hook") => HookMatches)'
  BY <1>1, HookKept DEF FixedNames, Artifacts
<1>6. LInv'
  BY <1>2, <1>3, <1>4, <1>5, HolderStep
<1>7. AuthorOf("lock") = c /\ AuthorOf("lock")' = Nobody
  BY <1>1, HolderNamed DEF AuthorOf, Present
<1>8. AuthorOf("receipt")' = AuthorOf("receipt") /\ AuthorOf("hook")' = AuthorOf("hook")
  BY <1>1 DEF AuthorOf, Present, FixedNames, Artifacts
<1>9. Lifecycle!Leave(c)
  BY <1>7, <1>8 DEF Lifecycle!Leave
<1> QED
  BY <1>6, <1>9 DEF Serves, Lifecycles, Lifecycle!Next

LEMMA AbandonLockServes ==
    ASSUME LInv, TypeOK', NEW c \in Commands, AbandonLock(c)
    PROVE  Serves(c)
<1>1. op[c].pc = "abandon_lock" /\ op[c].lock # NoInode /\ content' = content /\ stage' = stage
  BY DEF AbandonLock, At, LInv, OwnInv, HoldingSteps
<1>2. Others(c) /\ op'[c].pc = "catch" /\ op'[c].lock = NoInode /\ op'[c].settled = op[c].settled
  <2>1. /\ Others(c)
        /\ \E e : op'[c] = [op[c] EXCEPT !.pc = "catch", !.err = e, !.lock = NoInode]
    BY BecomeFacts DEF AbandonLock, LInv
  <2> QED
    BY <2>1, OpType DEF LInv, Operations
<1>3. ~(Install(c) /\ op'[c].settled = {"receipt"})
  BY <1>1, <1>2 DEF LInv, OwnInv, Settled, Unpublishing, PublishedHook, LockedSteps
<1>4. OwnInv(c, op'[c])
  BY <1>2, <1>3 DEF OwnInv, HoldingSteps, LockedSteps, InstallSteps, RemoveSteps, CheckSteps,
    StagedReceipt, PublishedReceipt, PublishedHook, Unpublishing
<1>5. KnownInv(op'[c], Install(c))
  BY <1>2, <1>3 DEF KnownInv, StagedReceipt, PublishedReceipt, PublishedHook, Unpublishing,
    TracksHook, DropsReceipt
<1>6. CASE entry' = entry
  BY <1>1, <1>2, <1>4, <1>5, <1>6, MovesServe DEF Moves, Kept
<1>7. CASE entry' = [entry EXCEPT !["lock"] = NoInode]
  BY <1>1, <1>2, <1>3, <1>4, <1>5, <1>7, UnlockServes
<1> QED
  BY <1>6, <1>7 DEF AbandonLock

LEMMA ReleaseUnlinkServes ==
    ASSUME LInv, TypeOK', NEW c \in Commands, ReleaseUnlink(c)
    PROVE  Serves(c)
<1>1. op[c].pc = "release_unlink" /\ op[c].lock # NoInode /\ content' = content /\ stage' = stage
  BY DEF ReleaseUnlink, Unlink, At, LInv, OwnInv, HoldingSteps
<1>2. Others(c) /\ op'[c].pc \in {"report", "release_confirm"} /\ op'[c].lock = NoInode
  <2>1. CASE Released(c, FALSE)
    BY <2>1, ReleasedFields
  <2>2. CASE Become(c, [op[c] EXCEPT !.pc = "release_confirm", !.lock = NoInode])
    <3>1. Others(c) /\ op'[c] = [op[c] EXCEPT !.pc = "release_confirm", !.lock = NoInode]
      BY <2>2, BecomeFacts DEF LInv
    <3> QED
      BY <3>1, OpType DEF LInv, Operations
  <2> QED
    BY <2>1, <2>2 DEF ReleaseUnlink, Unlink
<1>3. OwnInv(c, op'[c])
  BY <1>2 DEF OwnInv, HoldingSteps, LockedSteps, InstallSteps, RemoveSteps, CheckSteps,
    StagedReceipt, PublishedReceipt, PublishedHook, Unpublishing
<1>4. KnownInv(op'[c], Install(c))
  BY <1>2 DEF KnownInv, StagedReceipt, PublishedReceipt, PublishedHook, Unpublishing, TracksHook,
    DropsReceipt
<1>5. CASE entry' = entry
  BY <1>1, <1>2, <1>3, <1>4, <1>5, MovesServe DEF Moves, Kept
<1>6. CASE entry' = [entry EXCEPT !["lock"] = NoInode]
  BY <1>1, <1>2, <1>3, <1>4, <1>6, UnlockServes
<1> QED
  BY <1>5, <1>6 DEF ReleaseUnlink, Unlink

-----------------------------------------------------------------------------
(* The theorems.                                                           *)

LEMMA StepServes ==
    ASSUME LInv, NEW c \in Commands, Step(c) \/ Cancel(c) \/ Crash(c)
    PROVE  Serves(c)
<1>1. TypeOK'
  BY StepType, CancelType, CrashType DEF LInv
<1>2. ASSUME Moves(c) PROVE Serves(c)
  BY <1>1, <1>2, MovesServe
<1>3. CASE Cancel(c) \/ Crash(c)
  BY <1>2, <1>3, CancelMoves, CrashMoves
<1>4. CASE \/ ObserveFirst(c) \/ CheckInstallable(c) \/ MakeStaging(c) \/ VerifyStaging(c) \/ Probe(c)
           \/ AbortCheck(c) \/ RollbackInspect(c) \/ RollbackCheck(c)
           \/ Survey(c) \/ TrackReceipt(c) \/ TrackHook(c) \/ CheckInactive(c) \/ CheckVacant(c)
           \/ Catch(c) \/ UnpublishInspect(c)
           \/ ReleaseInspect(c) \/ ReleaseConfirm(c) \/ ReportOutcome(c)
  BY <1>2, <1>4, ObserveFirstMoves, CheckInstallableMoves, MakeStagingMoves, VerifyStagingMoves,
    ProbeMoves,
     AbortCheckMoves, RollbackInspectMoves, RollbackCheckMoves, SurveyMoves, TrackReceiptMoves, TrackHookMoves,
     CheckInactiveMoves, CheckVacantMoves, CatchMoves, UnpublishInspectMoves,
     ReleaseInspectMoves, ReleaseConfirmMoves, ReportOutcomeMoves
<1>5. CASE \E f \in Artifacts : \/ GuardPublish(c, f) \/ InspectPublish(c, f) \/ ConfirmPublish(c, f)
                                \/ SettlePublish(c, f) \/ GuardDrop(c, f) \/ DropInspect(c, f)
                                \/ SettleDrop(c, f)
  BY <1>2, <1>5, GuardPublishMoves, InspectPublishMoves, ConfirmPublishMoves, SettlePublishMoves,
     GuardDropMoves, DropInspectMoves, SettleDropMoves
<1>6. CASE \E f \in Artifacts : \/ CreateStageFile(c, f) \/ Link(c, f) \/ Unstage(c, f) \/ DropUnlink(c, f)
  BY <1>1, <1>6, CreateStageFileServes, LinkServes, UnstageServes, DropUnlinkServes
<1>7. CASE \/ CreateLock(c) \/ WriteLock(c) \/ AbandonLock(c) \/ RollbackUnlink(c)
           \/ UnpublishUnlink(c) \/ Cleanup(c) \/ ReleaseUnlink(c)
  BY <1>1, <1>7, CreateLockServes, WriteLockServes, AbandonLockServes, RollbackUnlinkServes,
     UnpublishUnlinkServes, CleanupServes, ReleaseUnlinkServes
<1> QED
  BY <1>3, <1>4, <1>5, <1>6, <1>7 DEF Step

\* Another program's change of the host's configuration concerns nobody here.
LEMMA EnvServes ==
    ASSUME LInv, EnvNames \subseteq {"config"}, EnvStep
    PROVE  LInv' /\ LifecycleSame
<1>1. TypeOK' /\ op' = op /\ stage' = stage
  BY EnvStepType DEF EnvStep, LInv
<1>2. \A n \in FixedNames : n # "config" => entry'[n] = entry[n]
  BY DEF EnvStep, LInv, TypeOK
<1>3. \A n \in FixedNames : entry'[n] # NoInode => \/ entry'[n] = entry[n]
                                                   \/ /\ n = "config"
                                                      /\ \A m \in FixedNames : entry[m] # entry'[n]
                                                      /\ \A d \in Commands, g \in Artifacts : stage[d][g] # entry'[n]
  BY DEF EnvStep, LInv, TypeOK, FreeInodes, Staged
\* The inode it writes is a new one, or the configuration's.
<1>4. \E i : /\ \A j \in Inodes : j # i => content'[j] = content[j]
             /\ i \in FreeInodes \/ (i = entry["config"] /\ i # NoInode) \/ content' = content
  <2>1. CASE \E i \in FreeInodes : content' = [content EXCEPT ![i] = Foreign]
    <3>1. PICK i \in FreeInodes : content' = [content EXCEPT ![i] = Foreign]
      BY <2>1
    <3>2. \A j \in Inodes : j # i => content'[j] = content[j]
      BY <3>1 DEF LInv, TypeOK
    <3> QED
      BY <3>2
  <2>2. CASE /\ content' = [content EXCEPT ![entry["config"]] = Foreign]
             /\ entry["config"] # NoInode
    BY <2>2 DEF LInv, TypeOK
  <2>3. CASE content' = content
    BY <2>3
  <2> QED
    BY <2>1, <2>2, <2>3 DEF EnvStep, Present
<1>5. PICK i : /\ \A j \in Inodes : j # i => content'[j] = content[j]
               /\ i \in FreeInodes \/ (i = entry["config"] /\ i # NoInode) \/ content' = content
  BY <1>4
<1>6. \A n \in FixedNames : n # "config" /\ Present(n) => content'[entry[n]] = content[entry[n]]
  <2> SUFFICES ASSUME NEW n \in FixedNames, n # "config", Present(n)
               PROVE  content'[entry[n]] = content[entry[n]]
    OBVIOUS
  <2>1. entry[n] \in Inodes
    BY DEF LInv, TypeOK, Present
  <2>2. entry[n] # i \/ content' = content
    BY <1>5 DEF FreeInodes, LInv, FilesInv, Present, FixedNames
  <2> QED
    BY <1>5, <2>1, <2>2
<1>7. \A d \in Commands, g \in Artifacts : stage[d][g] # NoInode => content'[stage[d][g]] = content[stage[d][g]]
  <2> SUFFICES ASSUME NEW d \in Commands, NEW g \in Artifacts, stage[d][g] # NoInode
               PROVE  content'[stage[d][g]] = content[stage[d][g]]
    OBVIOUS
  <2>1. stage[d][g] \in Inodes
    BY DEF LInv, TypeOK
  <2>2. stage[d][g] # i \/ content' = content
    BY <1>5 DEF FreeInodes, Staged, LInv, FilesInv, FixedNames, Artifacts
  <2> QED
    BY <1>5, <2>1, <2>2
<1>8. \A f \in Artifacts \cup {"lock"} : /\ entry'[f] = entry[f]
                                         /\ Present(f) => content'[entry[f]] = content[entry[f]]
  BY <1>2, <1>6 DEF FixedNames, Artifacts
<1>9. FilesInv'
  <2>1. \A m, n \in FixedNames : Present(m)' /\ entry'[m] = entry'[n] => m = n
    BY <1>2, <1>3 DEF LInv, FilesInv, Present
  <2>2. \A d, e \in Commands, g, h \in Artifacts :
           stage'[d][g] # NoInode /\ stage'[d][g] = stage'[e][h] => d = e /\ g = h
    BY <1>1 DEF LInv, FilesInv
  <2>3. \A n \in FixedNames, d \in Commands, g \in Artifacts :
           stage'[d][g] # NoInode /\ entry'[n] = stage'[d][g] => n = g
    BY <1>1, <1>3 DEF LInv, FilesInv
  <2>4. \A d \in Commands, g \in Artifacts :
           stage'[d][g] # NoInode => content'[stage'[d][g]] = Bytes(g, d)
    BY <1>1, <1>7 DEF LInv, FilesInv
  <2>5. \A g \in Artifacts : Present(g)' => content'[entry'[g]].kind = g /\ content'[entry'[g]].by \in Commands
    BY <1>8 DEF LInv, FilesInv, Present
  <2>6. Present("lock")' => content'[entry'["lock"]].by \in Commands
    BY <1>8 DEF LInv, FilesInv, Present
  <2> QED
    BY <2>1, <2>2, <2>3, <2>4, <2>5, <2>6 DEF FilesInv
<1>10. \A c \in Commands : op[c].lock # NoInode => /\ entry["lock"] = op[c].lock
                                                   /\ content'[op[c].lock] = content[op[c].lock]
  BY <1>8, HolderNamed
<1>11. HolderInv'
  BY <1>1, <1>8, <1>10 DEF LInv, HolderInv
<1>12. \A c \in Commands : OwnInv(c, op[c])'
  <2> SUFFICES ASSUME NEW c \in Commands PROVE OwnInv(c, op[c])'
    OBVIOUS
  <2>1. OwnInv(c, op[c])
    BY DEF LInv
  <2> QED
    BY <1>1, <1>10, <2>1 DEF OwnInv, Install
<1>13. HookCallsSucceed => \A c \in Commands : KnownInv(op[c], Install(c))'
  <2> SUFFICES ASSUME HookCallsSucceed, NEW c \in Commands PROVE KnownInv(op[c], Install(c))'
    OBVIOUS
  <2>1. \A f \in Artifacts : /\ Present(f)' <=> Present(f)
                             /\ Tracked(op[c], f) => Tracked(op[c], f)'
    BY <1>1, <1>8 DEF Present, Tracked
  <2>2. KnownInv(op[c], Install(c))
    BY DEF LInv
  <2> QED
    BY <1>1, <2>1, <2>2 DEF KnownInv, Install, Artifacts
<1>14. HookCallsSucceed => (Present("hook") => HookMatches)'
  BY <1>8, HookKept
<1>15. LifecycleSame
  BY <1>8 DEF LifecycleSame, AuthorOf, Present, Artifacts
<1> QED
  BY <1>1, <1>9, <1>11, <1>12, <1>13, <1>14, <1>15 DEF LInv, HookCallsSucceed

LEMMA InitHolds == Init => LInv
<1> SUFFICES ASSUME Init PROVE LInv
  OBVIOUS
<1>1. TypeOK
  BY FilesAssumption, TransactionAssumption
  DEF Init, TypeOK, Fresh, Foreign, Bytes, Contents, Operations, Labels, Steps,
      Errors, Results, StagingStates
<1>2. FilesInv
  BY DEF Init, FilesInv, Present, FixedNames, Artifacts
<1>3. \A c \in Commands : op[c].pc = "observe" /\ op[c].lock = NoInode /\ op[c].settled = {}
  BY DEF Init, Fresh
<1>4. HolderInv
  BY <1>3 DEF HolderInv
<1>5. \A c \in Commands : OwnInv(c, op[c])
  BY <1>3 DEF OwnInv, HoldingSteps, LockedSteps, InstallSteps, RemoveSteps, CheckSteps,
    StagedReceipt, PublishedReceipt, PublishedHook, Unpublishing
<1>6. \A c \in Commands : KnownInv(op[c], Install(c))
  BY <1>3 DEF KnownInv, StagedReceipt, PublishedReceipt, PublishedHook, Unpublishing, TracksHook,
    DropsReceipt
<1>7. ~Present("hook")
  BY DEF Init, Present, FixedNames, Artifacts
<1> QED
  BY <1>1, <1>2, <1>4, <1>5, <1>6, <1>7 DEF LInv

LEMMA NextServes ==
    ASSUME LInv, EnvNames \subseteq {"config"}, [Next]_vars
    PROVE  LInv' /\ (HookCallsSucceed => Lifecycles)
<1>1. CASE UNCHANGED vars
  <2>1. LInv'
    <3>1. TypeOK' /\ FilesInv' /\ HolderInv'
      BY <1>1 DEF vars, LInv, TypeOK, FilesInv, HolderInv, Present
    <3>2. \A c \in Commands : OwnInv(c, op[c])'
      BY <1>1 DEF vars, LInv, OwnInv, Install
    <3>3. HookCallsSucceed => (Present("hook") => HookMatches)'
      BY <1>1 DEF vars, LInv, HookMatches, Recorded, Holds, Present
    <3>4. HookCallsSucceed => \A c \in Commands : KnownInv(op[c], Install(c))'
      BY <1>1 DEF vars, LInv, KnownInv, Tracked, Present, Install
    <3> QED
      BY <3>1, <3>2, <3>3, <3>4 DEF LInv, HookCallsSucceed
  <2>2. LifecycleSame
    BY <1>1 DEF vars, LifecycleSame, AuthorOf, Present
  <2> QED
    BY <2>1, <2>2 DEF Lifecycles
<1>2. CASE EnvStep
  BY <1>2, EnvServes DEF Lifecycles
<1>3. CASE \E c \in Commands : Step(c) \/ Cancel(c) \/ Crash(c)
  BY <1>3, StepServes DEF Serves
<1> QED
  BY <1>1, <1>2, <1>3 DEF Next

LEMMA Always ==
    ASSUME EnvNames \subseteq {"config"}
    PROVE  Spec => []LInv
<1>1. LInv /\ [Next]_vars => LInv'
  BY NextServes
<1> QED
  BY <1>1, InitHolds, PTL DEF Spec

\* Whenever a command is killed, cancelled or fails, a live hook has the
\* receipt that owns it beside it: for any number of commands and any failing
\* call, but for the four between the link of the hook and the note of it.
THEOREM RecordIsKept ==
    ASSUME EnvNames \subseteq {"config"}, HookCallsSucceed
    PROVE  Spec => []HookHasRecord
<1>1. LInv => HookHasRecord
  BY DEF LInv, HookHasRecord
<1> QED
  BY <1>1, Always, PTL

\* Installations and removals, however they interleave, fail and die, do
\* nothing but move the one installation between absent, owned_inactive and
\* owned_exact, one command at a time: under the same two assumptions the
\* transaction implements the lifecycle that docs/adr/0013 promises.
THEOREM LifecycleIsImplemented ==
    ASSUME EnvNames \subseteq {"config"}, HookCallsSucceed
    PROVE  Spec => ImplementsLifecycle
<1>1. Init => Lifecycle!Init
  BY DEF Init, Lifecycle!Init, AuthorOf, Present, FixedNames, Artifacts
<1>2. LInv /\ [Next]_vars => [Lifecycle!Next]_(Lifecycle!lifecycle)
  BY NextServes DEF Lifecycles, LifecycleSame, Lifecycle!lifecycle
<1> QED
  BY <1>1, <1>2, Always, PTL DEF Spec, ImplementsLifecycle, Lifecycle!Spec

\* Only a command that holds the lock gives or takes the name of an artifact.
LEMMA OnlyTheHolder ==
    ASSUME LInv, NEW c \in Commands, Step(c), NEW f \in Artifacts, entry'[f] # entry[f]
    PROVE  op[c].lock # NoInode /\ op[c].pc # "crashed"
<1>1. f \in FixedNames /\ f # "lock"
  BY DEF FixedNames, Artifacts
<1>2. \A i : entry' = [entry EXCEPT !["lock"] = i] => entry'[f] = entry[f]
  BY <1>1 DEF LInv, TypeOK
<1>3. ~(CreateLock(c) \/ AbandonLock(c) \/ ReleaseUnlink(c))
  BY <1>2 DEF CreateLock, AbandonLock, ReleaseUnlink, Unlink
<1>4. \/ \E g \in Artifacts : Link(c, g) \/ DropUnlink(c, g)
      \/ RollbackUnlink(c) \/ UnpublishUnlink(c)
  BY <1>3 DEF Step, ObserveFirst, WriteLock, CheckInstallable, MakeStaging, VerifyStaging, Probe,
    CreateStageFile, GuardPublish, InspectPublish, ConfirmPublish, Unstage, SettlePublish, GuardDrop,
    DropInspect, SettleDrop, AbortCheck, RollbackInspect, RollbackCheck, Survey, TrackReceipt, TrackHook,
    CheckInactive, CheckVacant, Catch, UnpublishInspect, Cleanup, ReleaseInspect, ReleaseConfirm,
    ReportOutcome, Inspect, disk
<1>5. op[c].pc \in {"link_receipt", "link_hook", "rollback_unlink", "unpublish_unlink",
                    "drop_hook_unlink", "drop_receipt_unlink"}
  <2>1. CASE \E g \in Artifacts : Link(c, g) \/ DropUnlink(c, g)
    <3>1. \E g \in Artifacts : op[c].pc = LinkStep[g] \/ op[c].pc = DropUnlinkStep[g]
      BY <2>1 DEF Link, DropUnlink, At
    <3> QED
      BY <3>1 DEF LinkStep, DropUnlinkStep, Artifacts
  <2>2. CASE RollbackUnlink(c) \/ UnpublishUnlink(c)
    BY <2>2 DEF RollbackUnlink, UnpublishUnlink, At
  <2> QED
    BY <1>4, <2>1, <2>2
<1> QED
  BY <1>5 DEF LInv, OwnInv, HoldingSteps, InstallSteps, RemoveSteps

\* The lock of a killed command is not broken: from the crash on no step of
\* the others changes the receipt or the hook, whatever calls fail.
THEOREM CrashIsFinal ==
    ASSUME EnvNames \subseteq {"config"}
    PROVE  Spec => CrashFreezes
<1>1. ASSUME LInv, [Next]_vars, NEW c \in Commands, At(c, "crashed"), op[c].lock # NoInode,
             NEW f \in Artifacts
      PROVE  entry'[f] = entry[f]
  <2>1. CASE UNCHANGED vars
    BY <2>1 DEF vars
  <2>2. CASE EnvStep
    BY <1>1, <2>2 DEF EnvStep, LInv, TypeOK, FixedNames, Artifacts
  <2>3. CASE \E d \in Commands : Cancel(d) \/ Crash(d)
    BY <2>3 DEF Cancel, Crash, disk
  <2>4. ASSUME NEW d \in Commands, Step(d) PROVE entry'[f] = entry[f]
    <3>1. SUFFICES ASSUME entry'[f] # entry[f] PROVE FALSE
      OBVIOUS
    <3>2. op[d].lock # NoInode /\ op[d].pc # "crashed"
      BY <1>1, <2>4, <3>1, OnlyTheHolder
    <3>3. c = d
      BY <1>1, <3>2, HolderNamed
    <3> QED
      BY <1>1, <3>2, <3>3 DEF At
  <2> QED
    BY <1>1, <2>1, <2>2, <2>3, <2>4 DEF Next
<1>2. LInv /\ [Next]_vars =>
        [(\E c \in Commands : At(c, "crashed") /\ op[c].lock # NoInode)
          => \A f \in Artifacts : entry'[f] = entry[f]]_vars
  BY <1>1
<1> QED
  BY <1>2, Always, PTL DEF Spec, CrashFreezes

-----------------------------------------------------------------------------
(* What a refusal leaves, and other programs' files.  Others may create    *)
(* files anywhere, or do what they like with the configuration; calls may  *)
(* fail anywhere.                                                          *)

OthersCreate == EnvKinds \subseteq {"create"} \/ EnvNames \subseteq {"config"}

\* The calls that follow a change and whose failure the code takes for one
\* before the change do not fail.
ChangesAreKnown ==
    FaultSteps \cap {"verify_staging", "confirm_receipt", "settle_receipt", "confirm_hook", "settle_hook",
                     "dropped_hook", "dropped_receipt"} = {}

\* A name or a staged name has its inode to itself, but for a file that is
\* being published, and a staged file is what its command built.
ApartInv(e, ct, st) ==
    /\ \A m, n \in FixedNames : e[m] # NoInode /\ e[m] = e[n] => m = n
    /\ \A c, d \in Commands, f, g \in Artifacts :
          st[c][f] # NoInode /\ st[c][f] = st[d][g] => c = d /\ f = g
    /\ \A n \in FixedNames, c \in Commands, f \in Artifacts :
          st[c][f] # NoInode /\ e[n] = st[c][f] => n = f
    /\ \A c \in Commands, f \in Artifacts :
          st[c][f] # NoInode => ct[st[c][f]] = Bytes(f, c)

\* An installation before it settles its receipt, and the ends of a command.
Unsettled == EarlySteps \cup {"check_locked", "check_parents", "make_staging", "verify_staging", "stage_receipt"}
                \cup StagedReceipt
Ending == {"release", "release_unlink", "release_confirm", "report"}

\* What a command knows of itself; s: its staged files.
SelfInv(c, r, s) ==
    /\ r.pc \in InstallSteps \cup Unpublishing => Install(c)
    /\ r.pc \in RemoveSteps => ~Install(c)
    /\ r.pc \in {"observe", "lock", "release_confirm", "report", "done"} => r.lock = NoInode
    /\ r.pc \in EarlySteps \cup InstallSteps \cup RemoveSteps => r.err = "none" /\ r.confirmed
    /\ r.pc # "done" => r.result = "none"
    /\ r.pc \in StagedReceipt \cup PublishedReceipt \cup PublishedHook \cup Unpublishing
                  \cup {"stage_receipt", "inspect_hook"} => r.author = c
    /\ Install(c) /\ r.pc = "catch" /\ r.settled = {"receipt"} => r.author = c
    /\ r.pc \in StagedReceipt => r.file["receipt"] = s["receipt"] /\ s["receipt"] # NoInode
    /\ r.pc \in (StagedReceipt \ {"stage_hook"}) \cup PublishedReceipt \cup {"inspect_hook"} =>
          r.file["hook"] = s["hook"] /\ s["hook"] # NoInode
    /\ r.pc \in Unsettled \cup {"confirm_receipt", "unstage_receipt", "settle_receipt", "rolled_back"} =>
          r.settled = {}
    /\ r.pc \in Settled \cup Unpublishing => r.settled = {"receipt"}
    /\ Install(c) /\ r.pc \in Unsettled \ {"inspect_receipt"} => r.changed = {}
    /\ r.pc \in {"inspect_receipt"} \cup PublishedReceipt => r.changed \subseteq {"receipt"}

\* What it knows of the disk, as long as it holds the lock.
Knows(r, f, e, ct) == /\ e[f] # NoInode /\ e[f] = r.file[f]
                      /\ ct[e[f]] = Bytes(f, r.author)

SeenInv(c, r, e, ct) ==
    /\ r.pc \in LockedSteps /\ r.lock # NoInode => ct[r.lock].by = c
    /\ r.pc \in LockedSteps \ {"write_lock", "abandon_lock"} /\ r.lock # NoInode =>
          ct[r.lock] = Bytes("lock", c)
    /\ r.pc \in PublishedReceipt \cup Unpublishing \cup {"inspect_hook"} \cup PublishedHook
             \/ (Install(c) /\ r.pc = "catch" /\ r.settled = {"receipt"}) =>
          Knows(r, "receipt", e, ct)
    /\ r.pc \in PublishedHook \cup TracksHook => Knows(r, "hook", e, ct)
    /\ r.pc \in DropsReceipt => Knows(r, "receipt", e, ct)
    /\ r.pc = "inspect_receipt" /\ r.changed # {} => e["receipt"] = r.file["receipt"]
    /\ r.pc = "inspect_hook" /\ "hook" \in r.changed => e["hook"] = r.file["hook"]

\* The lock file it made is its lock, or it knows that it may be left.
LeftInv(c, r, e, ct) ==
    e["lock"] # NoInode /\ ct[e["lock"]].by = c => r.lock # NoInode \/ ~r.confirmed \/ r.err = "recovery"

\* What it has changed and not taken back; g: its staging directory.
ChangesInv(c, r, g) ==
    /\ IF Install(c)
       THEN /\ r.pc = "rolled_back" => r.changed = {}
            /\ r.pc \in Unpublishing /\ r.err # "recovery" => r.changed \subseteq {"receipt"}
            /\ r.pc = "catch" /\ r.err # "recovery" =>
                  r.changed = {} \/ (r.settled = {"receipt"} /\ r.changed = {"receipt"})
            /\ r.pc \in {"cleanup"} \cup Ending /\ r.confirmed /\ r.err \notin {"none", "recovery"}
                  /\ "hook" \notin r.settled => r.changed = {}
       ELSE /\ r.changed # {} => \/ r.pc \in {"dropped_hook", "dropped_receipt", "crashed"}
                                 \/ r.settled # {} \/ r.err = "recovery"
            /\ g = "none"
    /\ r.pc = "observe" => g = "none" /\ r.changed = {}
    /\ r.pc \in {"stage_receipt"} \cup StagedReceipt => r.tracked
    /\ g # "none" => r.tracked \/ r.pc \in {"verify_staging", "crashed"}
    /\ r.pc \in Ending /\ r.confirmed => g = "none"
    /\ r.result \in Refusals => r.changed = {} /\ g = "none" /\ r.confirmed /\ r.err # "recovery"

SafeInv(c, r, e, ct, s, g) ==
    /\ SelfInv(c, r, s) /\ SeenInv(c, r, e, ct) /\ LeftInv(c, r, e, ct)
    /\ ChangesAreKnown => ChangesInv(c, r, g)

SInv == /\ TypeOK /\ LockInv /\ ApartInv(entry, content, stage)
        /\ \A c \in Commands : SafeInv(c, op[c], entry, content, stage[c], staging[c])


-----------------------------------------------------------------------------
(* One command's variables.                                                *)

\* q is the record r, but for the step, the error and the outcome.
Alike(r, q) == /\ q.lock = r.lock /\ q.file = r.file /\ q.author = r.author /\ q.todo = r.todo
               /\ q.settled = r.settled /\ q.tracked = r.tracked /\ q.confirmed = r.confirmed
               /\ q.changed = r.changed

LEMMA GoAlike ==
    ASSUME TypeOK, NEW c \in Commands, NEW l, Go(c, l)
    PROVE  /\ Others(c) /\ Alike(op[c], op'[c]) /\ op'[c].pc = l
           /\ op'[c].err = op[c].err /\ op'[c].result = op[c].result
<1>1. Others(c) /\ op'[c] = [op[c] EXCEPT !.pc = l]
  BY BecomeFacts DEF Go
<1> QED
  BY <1>1, OpType DEF Operations, Alike

LEMMA ThrowAlike ==
    ASSUME TypeOK, NEW c \in Commands, NEW e, Throw(c, e)
    PROVE  /\ Others(c) /\ Alike(op[c], op'[c]) /\ op'[c].pc = "catch"
           /\ op'[c].err = e /\ op'[c].result = op[c].result
<1>1. Others(c) /\ op'[c] = [op[c] EXCEPT !.pc = "catch", !.err = e]
  BY BecomeFacts DEF Throw
<1> QED
  BY <1>1, OpType DEF Operations, Alike

LEMMA ReportAlike ==
    ASSUME TypeOK, NEW c \in Commands, NEW res, Report(c, res)
    PROVE  /\ Others(c) /\ Alike(op[c], op'[c]) /\ op'[c].pc = "done"
           /\ op'[c].err = op[c].err /\ op'[c].result = res
<1>1. Others(c) /\ op'[c] = [op[c] EXCEPT !.pc = "done", !.result = res]
  BY BecomeFacts DEF Report
<1> QED
  BY <1>1, OpType DEF Operations, Alike

\* What is to be shown of a step of c, of its own variables and of the disk.
Sound(c) == Others(c) /\ SafeInv(c, op'[c], entry', content', stage'[c], staging'[c])
SameDisk == UNCHANGED <<entry, content, stage>>

LEMMA SafeOf == ASSUME SInv, NEW c \in Commands
                PROVE  /\ SafeInv(c, op[c], entry, content, stage[c], staging[c])
                       /\ op[c] \in Operations /\ HasItsLock(op[c])
                       /\ Owns(c) => entry["lock"] = op[c].lock
  BY DEF SInv, TypeOK, LockInv

\* A step that only looks, and where it goes.
Glances == {<<"check_locked", "check_parents">>, <<"check_parents", "make_staging">>,
            <<"check_publish", "guard_receipt">>, <<"probe", "check_publish">>,
            <<"guard_receipt", "link_receipt">>, <<"guard_hook", "link_hook">>,
            <<"confirm_receipt", "unstage_receipt">>, <<"confirm_hook", "unstage_hook">>,
            <<"abort_check", "rollback">>, <<"abort_check", "guard_hook">>,
            <<"rollback", "rollback_unlink">>,
            <<"guard_drop_hook", "drop_hook">>, <<"guard_drop_receipt", "drop_receipt">>,
            <<"drop_hook", "drop_hook_unlink">>, <<"drop_receipt", "drop_receipt_unlink">>,
            <<"drop_hook", "dropped_hook">>, <<"drop_receipt", "dropped_receipt">>,
            <<"vacant", "release">>, <<"unpublish", "unpublish_unlink">>,
            <<"release", "release_unlink">>}

LEMMA GlanceSound ==
    ASSUME SInv, NEW c \in Commands, NEW l, Go(c, l), <<op[c].pc, l>> \in Glances,
           SameDisk, staging'[c] = staging[c]
    PROVE  Sound(c)
<1>1. /\ Others(c) /\ Alike(op[c], op'[c]) /\ op'[c].pc = l
      /\ op'[c].err = op[c].err /\ op'[c].result = op[c].result
  BY GoAlike DEF SInv
<1>2. SafeInv(c, op[c], entry, content, stage[c], staging[c]) /\ stage'[c] = stage[c]
      /\ entry' = entry /\ content' = content
  BY SafeOf DEF SameDisk
<1>3. SelfInv(c, op'[c], stage'[c])
  BY <1>1, <1>2 DEF Glances, SafeInv, SelfInv, Alike, LockedSteps, InstallSteps, RemoveSteps, CheckSteps,
    StagedReceipt, PublishedReceipt, PublishedHook, Settled, Unpublishing, Unsettled, EarlySteps
<1>4. SeenInv(c, op'[c], entry', content')
  BY <1>1, <1>2 DEF Glances, SafeInv, SeenInv, Knows, Alike, LockedSteps, InstallSteps, RemoveSteps, CheckSteps,
    StagedReceipt, PublishedReceipt, PublishedHook, Unpublishing, TracksHook, DropsReceipt
<1>5. LeftInv(c, op'[c], entry', content')
  BY <1>1, <1>2 DEF SafeInv, LeftInv, Alike
<1>6. ChangesAreKnown => ChangesInv(c, op'[c], staging'[c])
  BY <1>1, <1>2 DEF Glances, SafeInv, SelfInv, ChangesInv, Alike, LockedSteps, InstallSteps, RemoveSteps, CheckSteps,
    StagedReceipt, PublishedReceipt, PublishedHook, Unpublishing, Unsettled, EarlySteps, Ending, Refusals
<1> QED
  BY <1>1, <1>3, <1>4, <1>5, <1>6 DEF Sound, SafeInv

\* A step after which an error other than "recovery" may be thrown: what was
\* changed is known to the catch block.
Catchable(r) ==
    /\ r.pc \notin {"confirm_receipt", "unstage_receipt", "settle_receipt", "dropped_hook", "dropped_receipt"}
                   \cup PublishedHook
    /\ r.pc = "inspect_receipt" => r.changed = {}
    /\ r.pc = "inspect_hook" => "hook" \notin r.changed

LEMMA ThrowSound ==
    ASSUME SInv, NEW c \in Commands, NEW e, Throw(c, e), op[c].pc \in InstallSteps \cup RemoveSteps,
           ChangesAreKnown => /\ Catchable(op[c]) \/ e = "recovery"
                              /\ op[c].pc # "verify_staging",
           UNCHANGED <<entry, content>>, staging'[c] = staging[c] \/ op[c].pc \in {"stage_receipt"} \cup StagedReceipt
    PROVE  Sound(c)
<1>1. /\ Others(c) /\ Alike(op[c], op'[c]) /\ op'[c].pc = "catch"
      /\ op'[c].err = e /\ op'[c].result = op[c].result
  BY ThrowAlike DEF SInv
<1>2. SafeInv(c, op[c], entry, content, stage[c], staging[c]) /\ entry' = entry /\ content' = content
  BY SafeOf
<1>3. op[c].lock # NoInode
  BY SafeOf DEF HasItsLock, HoldingSteps
<1>4. Install(c) /\ op[c].settled = {"receipt"} =>
         /\ op[c].author = c /\ Knows(op[c], "receipt", entry, content)
         /\ op[c].pc \in Settled
  <2>1. Install(c) => op[c].pc \in InstallSteps
    BY <1>2 DEF SafeInv, SelfInv
  <2>2. Install(c) /\ op[c].settled = {"receipt"} => op[c].pc \in Settled
    BY <1>2, <2>1 DEF SafeInv, SelfInv, InstallSteps, CheckSteps, Settled, PublishedHook, Unsettled, StagedReceipt
  <2> QED
    BY <1>2, <2>2 DEF SafeInv, SelfInv, SeenInv, Settled, PublishedReceipt
<1>5. SelfInv(c, op'[c], stage'[c])
  BY <1>1, <1>2, <1>4 DEF SafeInv, SelfInv, Alike, InstallSteps, RemoveSteps, CheckSteps,
    StagedReceipt, PublishedReceipt, PublishedHook, Settled, Unpublishing, Unsettled, EarlySteps
<1>6. SeenInv(c, op'[c], entry', content')
  <2>1. op[c].pc \in LockedSteps \ {"write_lock", "abandon_lock"}
    BY DEF LockedSteps, InstallSteps, RemoveSteps, CheckSteps
  <2> QED
    BY <1>1, <1>2, <1>4, <2>1 DEF SafeInv, SeenInv, Knows, Alike, InstallSteps, RemoveSteps, CheckSteps,
      StagedReceipt, PublishedReceipt, PublishedHook, Unpublishing, TracksHook, DropsReceipt
<1>7. LeftInv(c, op'[c], entry', content')
  BY <1>1, <1>2, <1>3 DEF LeftInv, Alike
<1>8. ASSUME ChangesAreKnown PROVE ChangesInv(c, op'[c], staging'[c])
  <2>1. ChangesInv(c, op[c], staging[c]) /\ op[c].changed \in SUBSET Artifacts
    BY <1>2, <1>8, SafeOf DEF SafeInv, Operations
  <2>2. op'[c].result = "none"
    BY <1>1, <1>2 DEF SafeInv, SelfInv, InstallSteps, RemoveSteps, CheckSteps
  <2>3. staging'[c] # "none" => op'[c].tracked /\ Install(c)
    <3>1. op[c].pc \notin {"verify_staging", "crashed"}
      BY <1>8 DEF InstallSteps, RemoveSteps, CheckSteps
    <3>2. op[c].pc \in {"stage_receipt"} \cup StagedReceipt => Install(c) /\ op[c].tracked
      BY <1>2, <2>1 DEF SafeInv, SelfInv, ChangesInv, StagedReceipt, InstallSteps, CheckSteps
    <3> QED
      BY <1>1, <2>1, <3>1, <3>2 DEF ChangesInv, Alike
  <2>4. CASE Install(c)
    <3>1. op[c].pc \in InstallSteps
      BY <1>2, <2>4 DEF SafeInv, SelfInv
    <3>2. e # "recovery" => op[c].changed = {} \/ (op[c].settled = {"receipt"} /\ op[c].changed = {"receipt"})
      <4>1. CASE op[c].pc \in Unsettled \cup {"rolled_back"}
        BY <1>2, <1>8, <2>1, <2>4, <4>1 DEF SafeInv, SelfInv, ChangesInv, Catchable
      <4>2. CASE op[c].pc \in Settled
        <5>1. op[c].settled = {"receipt"}
          BY <1>2, <4>2 DEF SafeInv, SelfInv
        <5>2. e # "recovery" => op[c].changed \subseteq {"receipt"}
          BY <1>2, <1>8, <2>1, <2>4, <4>2 DEF SafeInv, SelfInv, Catchable, Settled, PublishedReceipt, Artifacts
        <5> QED
          BY <5>1, <5>2
      <4> QED
        BY <1>8, <3>1, <4>1, <4>2 DEF Catchable, InstallSteps, CheckSteps, Unsettled, StagedReceipt, Settled,
          PublishedHook
    <3> QED
      BY <1>1, <2>1, <2>2, <2>3, <2>4, <3>2 DEF ChangesInv, Alike, Unsettled, EarlySteps, StagedReceipt,
        PublishedReceipt, Unpublishing, Ending, Refusals
  <2>5. CASE ~Install(c)
    <3>1. op[c].pc \in RemoveSteps /\ op[c].err = "none"
      BY <1>2, <2>5 DEF SafeInv, SelfInv
    <3>2. op[c].changed # {} => op[c].settled # {} \/ e = "recovery"
      BY <1>8, <2>1, <2>5, <3>1 DEF ChangesInv, Catchable, RemoveSteps
    <3> QED
      BY <1>1, <2>1, <2>2, <2>3, <2>5, <3>2 DEF ChangesInv, Alike, StagedReceipt, Ending, Refusals
  <2> QED
    BY <2>4, <2>5
<1> QED
  BY <1>1, <1>5, <1>6, <1>7, <1>8 DEF Sound, SafeInv


LEMMA OwnLock ==
    ASSUME SInv, NEW c \in Commands,
           op[c].pc \in InstallSteps \cup RemoveSteps \cup {"release", "release_unlink"}
    PROVE  /\ Owns(c) /\ op[c].lock # NoInode /\ entry["lock"] = op[c].lock
           /\ content[op[c].lock] = Bytes("lock", c) /\ LockErrors(c) = {}
<1>1. Owns(c) /\ op[c].lock # NoInode
  BY SafeOf DEF Owns, Running, HasItsLock, HoldingSteps, InstallSteps, RemoveSteps, CheckSteps
<1>2. entry["lock"] = op[c].lock
  BY <1>1, SafeOf
<1>3. content[op[c].lock] = Bytes("lock", c)
  BY <1>1, SafeOf DEF SafeInv, SeenInv, LockedSteps, InstallSteps, RemoveSteps, CheckSteps
<1> QED
  BY <1>1, <1>2, <1>3 DEF LockErrors, Present, Holds

\* The steps at which a command that throws has changed nothing that the
\* catch block does not know of.
Innocent == (InstallSteps \cup RemoveSteps)
               \ ({"verify_staging", "inspect_receipt", "confirm_receipt", "unstage_receipt", "settle_receipt",
                   "inspect_hook", "dropped_hook", "dropped_receipt"} \cup PublishedHook)

LEMMA InnocentThrow ==
    ASSUME SInv, NEW c \in Commands, NEW e, Throw(c, e), op[c].pc \in Innocent,
           SameDisk, staging'[c] = staging[c] \/ op[c].pc \in {"stage_receipt"} \cup StagedReceipt
    PROVE  Sound(c)
<1>1. op[c].pc \in InstallSteps \cup RemoveSteps /\ Catchable(op[c]) /\ op[c].pc # "verify_staging"
  BY DEF Innocent, Catchable
<1> QED
  BY <1>1, ThrowSound DEF SameDisk

LEMMA ReportSound ==
    ASSUME SInv, NEW c \in Commands, NEW res, Report(c, res), op[c].pc \in {"observe", "report"},
           SameDisk, staging'[c] = staging[c],
           ChangesAreKnown /\ res \in Refusals =>
              op[c].changed = {} /\ staging[c] = "none" /\ op[c].confirmed /\ op[c].err # "recovery"
    PROVE  Sound(c)
<1>1. /\ Others(c) /\ Alike(op[c], op'[c]) /\ op'[c].pc = "done"
      /\ op'[c].err = op[c].err /\ op'[c].result = res
  BY ReportAlike DEF SInv
<1>2. SafeInv(c, op[c], entry, content, stage[c], staging[c]) /\ stage'[c] = stage[c]
      /\ entry' = entry /\ content' = content
  BY SafeOf DEF SameDisk
<1>3. SelfInv(c, op'[c], stage'[c])
  BY <1>1, <1>2 DEF SafeInv, SelfInv, Alike, InstallSteps, RemoveSteps, CheckSteps,
    StagedReceipt, PublishedReceipt, PublishedHook, Settled, Unpublishing, Unsettled, EarlySteps
<1>4. SeenInv(c, op'[c], entry', content')
  BY <1>1 DEF SeenInv, LockedSteps, InstallSteps, RemoveSteps, CheckSteps,
    PublishedReceipt, PublishedHook, Unpublishing, TracksHook, DropsReceipt
<1>5. LeftInv(c, op'[c], entry', content')
  BY <1>1, <1>2 DEF SafeInv, LeftInv, Alike
<1>6. ChangesAreKnown => ChangesInv(c, op'[c], staging'[c])
  BY <1>1, <1>2 DEF SafeInv, ChangesInv, Alike, StagedReceipt, Unpublishing, Ending
<1> QED
  BY <1>1, <1>3, <1>4, <1>5, <1>6 DEF Sound, SafeInv

LEMMA ObserveFirstSound ==
    ASSUME SInv, NEW c \in Commands, ObserveFirst(c)
    PROVE  Sound(c)
<1>1. op[c].pc = "observe" /\ SameDisk /\ staging'[c] = staging[c]
  BY DEF ObserveFirst, At, SameDisk, disk
<1>2. SafeInv(c, op[c], entry, content, stage[c], staging[c])
  BY SafeOf
<1>3. /\ op[c].confirmed /\ op[c].err = "none"
      /\ ChangesAreKnown => op[c].changed = {} /\ staging[c] = "none"
  BY <1>1, <1>2 DEF SafeInv, SelfInv, ChangesInv, EarlySteps
<1>4. CASE \E res : Report(c, res)
  BY <1>1, <1>3, <1>4, ReportSound
<1>5. CASE Go(c, "lock")
  <2>1. /\ Others(c) /\ Alike(op[c], op'[c]) /\ op'[c].pc = "lock"
        /\ op'[c].err = op[c].err /\ op'[c].result = op[c].result
    BY <1>5, GoAlike DEF SInv
  <2>2. stage'[c] = stage[c] /\ entry' = entry /\ content' = content
    BY <1>1 DEF SameDisk
  <2>3. SelfInv(c, op'[c], stage'[c])
    BY <1>1, <1>2, <2>1 DEF SafeInv, SelfInv, Alike, InstallSteps, RemoveSteps, CheckSteps,
      StagedReceipt, PublishedReceipt, PublishedHook, Settled, Unpublishing, Unsettled, EarlySteps
  <2>4. SeenInv(c, op'[c], entry', content')
    BY <2>1 DEF SeenInv, LockedSteps, InstallSteps, RemoveSteps, CheckSteps,
      PublishedReceipt, PublishedHook, Unpublishing, TracksHook, DropsReceipt
  <2>5. LeftInv(c, op'[c], entry', content')
    BY <1>2, <2>1, <2>2 DEF SafeInv, LeftInv, Alike
  <2>6. ChangesAreKnown => ChangesInv(c, op'[c], staging'[c])
    BY <1>1, <1>2, <1>3, <2>1 DEF SafeInv, SelfInv, ChangesInv, Alike, StagedReceipt, Unpublishing, Ending,
      Refusals
  <2> QED
    BY <2>1, <2>3, <2>4, <2>5, <2>6 DEF Sound, SafeInv
<1> QED
  BY <1>4, <1>5 DEF ObserveFirst

LEMMA CheckInstallableSound ==
    ASSUME SInv, NEW c \in Commands, CheckInstallable(c)
    PROVE  Sound(c)
<1>1. op[c].pc \in CheckSteps /\ SameDisk /\ staging'[c] = staging[c]
  BY DEF CheckInstallable, SameDisk, disk
<1>2. CASE \E l : Go(c, l) /\ <<op[c].pc, l>> \in Glances
  BY <1>1, <1>2, GlanceSound
<1>3. CASE \E e : Throw(c, e)
  <2>1. op[c].pc \in Innocent
    BY <1>1 DEF Innocent, InstallSteps, CheckSteps, PublishedHook
  <2> QED
    BY <1>1, <1>3, <2>1, InnocentThrow
<1> QED
  BY <1>1, <1>2, <1>3 DEF CheckInstallable, At, CheckSteps, Glances

LEMMA MakeStagingSound ==
    ASSUME SInv, NEW c \in Commands, MakeStaging(c)
    PROVE  Sound(c)
<1>1. op[c].pc = "make_staging" /\ SameDisk
  BY DEF MakeStaging, At, SameDisk
<1>2. SafeInv(c, op[c], entry, content, stage[c], staging[c]) /\ stage'[c] = stage[c]
      /\ entry' = entry /\ content' = content
  BY <1>1, SafeOf DEF SameDisk
<1>3. CASE Throw(c, "other") /\ UNCHANGED staging
  BY <1>1, <1>3, InnocentThrow DEF Innocent, InstallSteps, PublishedHook
<1>4. CASE Go(c, "verify_staging")
  <2>1. /\ Others(c) /\ Alike(op[c], op'[c]) /\ op'[c].pc = "verify_staging"
        /\ op'[c].err = op[c].err /\ op'[c].result = op[c].result
    BY <1>4, GoAlike DEF SInv
  <2>2. SelfInv(c, op'[c], stage'[c])
    BY <1>1, <1>2, <2>1 DEF SafeInv, SelfInv, Alike, InstallSteps, RemoveSteps, CheckSteps,
      StagedReceipt, PublishedReceipt, PublishedHook, Settled, Unpublishing, Unsettled, EarlySteps
  <2>3. SeenInv(c, op'[c], entry', content')
    BY <1>1, <1>2, <2>1 DEF SafeInv, SeenInv, Alike, LockedSteps, InstallSteps, RemoveSteps, CheckSteps,
      PublishedReceipt, PublishedHook, Unpublishing, TracksHook, DropsReceipt
  <2>4. LeftInv(c, op'[c], entry', content')
    BY <1>2, <2>1 DEF SafeInv, LeftInv, Alike
  <2>5. Install(c) /\ op'[c].result = "none"
    BY <1>1, <1>2, <2>1 DEF SafeInv, SelfInv, InstallSteps
  <2>6. ChangesAreKnown => ChangesInv(c, op'[c], staging'[c])
    BY <2>1, <2>5 DEF ChangesInv, StagedReceipt, Unpublishing, Ending, Refusals
  <2> QED
    BY <2>1, <2>2, <2>3, <2>4, <2>6 DEF Sound, SafeInv
<1> QED
  BY <1>3, <1>4 DEF MakeStaging

LEMMA VerifyStagingSound ==
    ASSUME SInv, NEW c \in Commands, VerifyStaging(c)
    PROVE  Sound(c)
<1>1. op[c].pc = "verify_staging" /\ SameDisk /\ staging'[c] = staging[c]
  BY DEF VerifyStaging, At, SameDisk, disk
<1>2. SafeInv(c, op[c], entry, content, stage[c], staging[c]) /\ stage'[c] = stage[c]
      /\ entry' = entry /\ content' = content
  BY <1>1, SafeOf DEF SameDisk
<1>3. CASE Faulty(c) /\ Throw(c, "other")
  <2>1. ~ChangesAreKnown
    BY <1>1, <1>3 DEF Faulty, ChangesAreKnown
  <2>2. op[c].pc \in InstallSteps
    BY <1>1 DEF InstallSteps
  <2> QED
    BY <1>1, <1>3, <2>1, <2>2, ThrowSound DEF SameDisk
<1>4. CASE Become(c, [op[c] EXCEPT !.pc = "stage_receipt", !.tracked = TRUE, !.author = c])
  <2>1. Others(c) /\ op'[c] = [op[c] EXCEPT !.pc = "stage_receipt", !.tracked = TRUE, !.author = c]
    BY <1>4, BecomeFacts DEF SInv
  <2>2. /\ op'[c].pc = "stage_receipt" /\ op'[c].tracked /\ op'[c].author = c
        /\ op'[c].lock = op[c].lock /\ op'[c].file = op[c].file /\ op'[c].settled = op[c].settled
        /\ op'[c].confirmed = op[c].confirmed /\ op'[c].err = op[c].err /\ op'[c].result = op[c].result
        /\ op'[c].changed = op[c].changed
    BY <2>1, SafeOf DEF Operations
  <2>3. SelfInv(c, op'[c], stage'[c])
    BY <1>1, <1>2, <2>2 DEF SafeInv, SelfInv, InstallSteps, RemoveSteps, CheckSteps,
      StagedReceipt, PublishedReceipt, PublishedHook, Settled, Unpublishing, Unsettled, EarlySteps
  <2>4. SeenInv(c, op'[c], entry', content')
    BY <1>1, <1>2, <2>2 DEF SafeInv, SeenInv, LockedSteps, InstallSteps, RemoveSteps, CheckSteps,
      PublishedReceipt, PublishedHook, Unpublishing, TracksHook, DropsReceipt
  <2>5. LeftInv(c, op'[c], entry', content')
    BY <1>2, <2>2 DEF SafeInv, LeftInv
  <2>6. Install(c) /\ op'[c].result = "none"
    BY <1>1, <1>2, <2>2 DEF SafeInv, SelfInv, InstallSteps
  <2>7. ChangesAreKnown => ChangesInv(c, op'[c], staging'[c])
    BY <2>2, <2>6 DEF ChangesInv, StagedReceipt, Unpublishing, Ending, Refusals
  <2> QED
    BY <2>1, <2>3, <2>4, <2>5, <2>7 DEF Sound, SafeInv
<1> QED
  BY <1>3, <1>4 DEF VerifyStaging

LEMMA ProbeSound ==
    ASSUME SInv, NEW c \in Commands, Probe(c)
    PROVE  Sound(c)
<1>1. op[c].pc = "probe" /\ SameDisk
  BY DEF Probe, At, SameDisk
<1>2. CASE Go(c, "check_publish") /\ UNCHANGED staging
  BY <1>1, <1>2, GlanceSound DEF Glances
<1>3. CASE \E e : Throw(c, e)
  BY <1>1, <1>3, InnocentThrow DEF Innocent, InstallSteps, PublishedHook, StagedReceipt
<1> QED
  BY <1>2, <1>3 DEF Probe

LEMMA GuardPublishSound ==
    ASSUME SInv, NEW c \in Commands, NEW f \in Artifacts, GuardPublish(c, f)
    PROVE  Sound(c)
<1>1. op[c].pc = GuardStep[f] /\ SameDisk /\ staging'[c] = staging[c]
  BY DEF GuardPublish, At, SameDisk, disk
<1>2. CASE Go(c, LinkStep[f])
  <2>1. <<op[c].pc, LinkStep[f]>> \in Glances
    BY <1>1 DEF Artifacts, GuardStep, LinkStep, Glances
  <2> QED
    BY <1>1, <1>2, <2>1, GlanceSound
<1>3. CASE \E e : Throw(c, e)
  <2>1. op[c].pc \in Innocent
    BY <1>1 DEF Artifacts, GuardStep, Innocent, InstallSteps, PublishedHook
  <2> QED
    BY <1>1, <1>3, <2>1, InnocentThrow
<1> QED
  BY <1>2, <1>3 DEF GuardPublish


\* The file an installation gave its name is the one it staged, and it knows
\* by the inode alone that the bytes are its own.
LEMMA InspectPublishSound ==
    ASSUME SInv, NEW c \in Commands, NEW f \in Artifacts, InspectPublish(c, f)
    PROVE  Sound(c)
<1>1. op[c].pc = InspectStep[f] /\ SameDisk /\ staging'[c] = staging[c]
  BY DEF InspectPublish, At, SameDisk, disk
<1>2. SafeInv(c, op[c], entry, content, stage[c], staging[c]) /\ stage'[c] = stage[c]
      /\ entry' = entry /\ content' = content
  BY <1>1, SafeOf DEF SameDisk
<1>3. op[c].pc \in {"inspect_receipt", "inspect_hook"} /\ op[c].pc \in InstallSteps
  BY <1>1 DEF InspectStep, Artifacts, InstallSteps
<1>4. op[c].file[f] = stage[c][f] /\ stage[c][f] # NoInode /\ op[c].author = c
  BY <1>1, <1>2 DEF SafeInv, SelfInv, InspectStep, StagedReceipt, Artifacts
<1>5. content[stage[c][f]] = Bytes(f, c)
  BY <1>4 DEF SInv, ApartInv
<1>6. CASE entry[f] = op[c].file[f] /\ Go(c, ConfirmStep[f])
  <2>1. /\ Others(c) /\ Alike(op[c], op'[c]) /\ op'[c].pc = ConfirmStep[f]
        /\ op'[c].err = op[c].err /\ op'[c].result = op[c].result
    BY <1>6, GoAlike DEF SInv
  <2>2. Knows(op'[c], f, entry', content')
    BY <1>2, <1>4, <1>5, <1>6, <2>1 DEF Knows, Alike
  <2>3. op'[c].pc \in {"confirm_receipt", "confirm_hook"} /\ (op'[c].pc = "confirm_receipt" <=> f = "receipt")
        /\ (op[c].pc = "inspect_receipt" <=> f = "receipt")
    BY <1>1, <2>1 DEF ConfirmStep, InspectStep, Artifacts
  <2>4. SelfInv(c, op'[c], stage'[c])
    BY <1>2, <1>3, <2>1, <2>3 DEF SafeInv, SelfInv, Alike, InstallSteps, RemoveSteps, CheckSteps,
      StagedReceipt, PublishedReceipt, PublishedHook, Settled, Unpublishing, Unsettled, EarlySteps
  <2>5. f # "receipt" => f = "hook" /\ Knows(op'[c], "receipt", entry', content')
    BY <1>2, <1>3, <2>1, <2>3 DEF SafeInv, SeenInv, Knows, Alike, Artifacts
  <2>6. SeenInv(c, op'[c], entry', content')
    BY <1>2, <1>3, <2>1, <2>2, <2>3, <2>5 DEF SafeInv, SeenInv, Alike, LockedSteps, InstallSteps, RemoveSteps,
      CheckSteps, PublishedReceipt, PublishedHook, Unpublishing, TracksHook, DropsReceipt
  <2>7. LeftInv(c, op'[c], entry', content')
    BY <1>2, <2>1 DEF SafeInv, LeftInv, Alike
  <2>8. Install(c) /\ op'[c].result = "none" /\ op[c].pc # "verify_staging"
    BY <1>2, <1>3, <2>1 DEF SafeInv, SelfInv
  <2>9. ChangesAreKnown => ChangesInv(c, op'[c], staging'[c])
    BY <1>1, <1>2, <1>3, <2>1, <2>3, <2>8 DEF SafeInv, ChangesInv, Alike, StagedReceipt, Unpublishing, Ending,
      Refusals
  <2> QED
    BY <2>1, <2>4, <2>6, <2>7, <2>9 DEF Sound, SafeInv
<1>7. CASE entry[f] # op[c].file[f] /\ \E e : Throw(c, e)
  <2>1. Catchable(op[c])
    <3>1. op[c].pc = "inspect_receipt" => op[c].changed = {}
      BY <1>1, <1>2, <1>7 DEF SafeInv, SeenInv, InspectStep, Artifacts
    <3>2. op[c].pc = "inspect_hook" => "hook" \notin op[c].changed
      BY <1>1, <1>2, <1>7 DEF SafeInv, SeenInv, InspectStep, Artifacts
    <3> QED
      BY <1>3, <3>1, <3>2 DEF Catchable, PublishedHook
  <2> QED
    BY <1>1, <1>3, <1>7, <2>1, ThrowSound DEF SameDisk
<1>8. CASE Throw(c, "recovery")
  BY <1>1, <1>3, <1>8, ThrowSound DEF SameDisk
<1>9. ~Present(f) => entry[f] # op[c].file[f]
  BY <1>4 DEF Present
<1> QED
  BY <1>6, <1>7, <1>8, <1>9 DEF InspectPublish

\* What is still tracked is what it knows.
LEMMA StillKnown ==
    ASSUME NEW c \in Commands, NEW f \in Artifacts
    PROVE  StillTracked(c, f) <=> Knows(op[c], f, entry, content)
  BY DEF StillTracked, Knows, Present

LEMMA PublishKnown ==
    ASSUME SInv, NEW c \in Commands, NEW f \in Artifacts,
           op[c].pc \in {ConfirmStep[f], UnstageStep[f], SettleStep[f]}
    PROVE  /\ StillTracked(c, f) /\ LockErrors(c) = {} /\ op[c].pc \in InstallSteps
           /\ op[c].pc # "verify_staging"
           /\ IF f = "receipt" THEN op[c].pc \in {"confirm_receipt", "unstage_receipt", "settle_receipt"}
                               ELSE op[c].pc \in PublishedHook
<1>1. IF f = "receipt" THEN op[c].pc \in {"confirm_receipt", "unstage_receipt", "settle_receipt"}
                       ELSE f = "hook" /\ op[c].pc \in PublishedHook
  BY DEF ConfirmStep, UnstageStep, SettleStep, Artifacts, PublishedHook
<1>2. op[c].pc \in InstallSteps /\ op[c].pc # "verify_staging"
  BY <1>1 DEF InstallSteps, PublishedHook
<1>3. Knows(op[c], f, entry, content)
  BY <1>1, SafeOf DEF SafeInv, SeenInv, PublishedReceipt
<1> QED
  BY <1>1, <1>2, <1>3, OwnLock, StillKnown

LEMMA ConfirmPublishSound ==
    ASSUME SInv, NEW c \in Commands, NEW f \in Artifacts, ConfirmPublish(c, f)
    PROVE  Sound(c)
<1>1. op[c].pc = ConfirmStep[f] /\ SameDisk /\ staging'[c] = staging[c]
  BY DEF ConfirmPublish, At, SameDisk, disk
<1>2. /\ StillTracked(c, f) /\ LockErrors(c) = {} /\ op[c].pc \in InstallSteps
      /\ op[c].pc # "verify_staging"
  BY <1>1, PublishKnown
<1>3. CASE Go(c, UnstageStep[f])
  <2>1. <<op[c].pc, UnstageStep[f]>> \in Glances
    BY <1>1 DEF Artifacts, ConfirmStep, UnstageStep, Glances
  <2> QED
    BY <1>1, <1>3, <2>1, GlanceSound
<1>4. CASE \E e \in Fault(c) : Throw(c, e)
  <2>1. ~ChangesAreKnown
    BY <1>1, <1>4 DEF Fault, Faulty, ChangesAreKnown, Artifacts, ConfirmStep
  <2> QED
    BY <1>1, <1>2, <1>4, <2>1, ThrowSound DEF SameDisk
<1> QED
  BY <1>2, <1>3, <1>4 DEF ConfirmPublish

LEMMA SettlePublishSound ==
    ASSUME SInv, NEW c \in Commands, NEW f \in Artifacts, SettlePublish(c, f)
    PROVE  Sound(c)
<1>1. op[c].pc = SettleStep[f] /\ SameDisk /\ staging'[c] = staging[c]
  BY DEF SettlePublish, At, SameDisk, disk
<1>2. /\ StillTracked(c, f) /\ LockErrors(c) = {} /\ op[c].pc \in InstallSteps
      /\ op[c].pc # "verify_staging"
  BY <1>1, PublishKnown
<1>3. SafeInv(c, op[c], entry, content, stage[c], staging[c]) /\ stage'[c] = stage[c]
      /\ entry' = entry /\ content' = content
  BY <1>1, SafeOf DEF SameDisk
<1>4. CASE Become(c, [op[c] EXCEPT !.pc = AfterSettle[f], !.settled = @ \cup {f}, !.todo = @ \ {f}])
  <2>1. /\ Others(c)
        /\ op'[c] = [op[c] EXCEPT !.pc = AfterSettle[f], !.settled = @ \cup {f}, !.todo = @ \ {f}]
    BY <1>4, BecomeFacts DEF SInv
  <2>2. /\ op'[c].pc = AfterSettle[f] /\ op'[c].settled = op[c].settled \cup {f}
        /\ op'[c].lock = op[c].lock /\ op'[c].file = op[c].file /\ op'[c].author = op[c].author
        /\ op'[c].confirmed = op[c].confirmed /\ op'[c].err = op[c].err /\ op'[c].result = op[c].result
        /\ op'[c].changed = op[c].changed /\ op'[c].tracked = op[c].tracked
    BY <2>1, SafeOf DEF Operations
  <2>3. \/ f = "receipt" /\ op[c].pc = "settle_receipt" /\ op'[c].pc = "abort_check"
        \/ f = "hook" /\ op[c].pc = "settle_hook" /\ op'[c].pc = "cleanup"
    BY <1>1, <2>2 DEF SettleStep, AfterSettle, Artifacts
  <2>4. SelfInv(c, op'[c], stage'[c])
    BY <1>3, <2>2, <2>3 DEF SafeInv, SelfInv, InstallSteps, RemoveSteps, CheckSteps,
      StagedReceipt, PublishedReceipt, PublishedHook, Settled, Unpublishing, Unsettled, EarlySteps
  <2>5. SeenInv(c, op'[c], entry', content')
    BY <1>3, <2>2, <2>3 DEF SafeInv, SeenInv, Knows, LockedSteps, InstallSteps, RemoveSteps, CheckSteps,
      PublishedReceipt, PublishedHook, Unpublishing, TracksHook, DropsReceipt
  <2>6. LeftInv(c, op'[c], entry', content')
    BY <1>3, <2>2 DEF SafeInv, LeftInv
  <2>7. Install(c) /\ op'[c].result = "none" /\ op[c].err = "none"
    BY <1>2, <1>3, <2>2, <2>3 DEF SafeInv, SelfInv
  <2>8. ChangesAreKnown => ChangesInv(c, op'[c], staging'[c])
    BY <1>1, <1>2, <1>3, <2>2, <2>3, <2>7 DEF SafeInv, ChangesInv, StagedReceipt, Unpublishing, Ending, Refusals
  <2> QED
    BY <2>1, <2>4, <2>5, <2>6, <2>8 DEF Sound, SafeInv
<1>5. CASE \E e \in Fault(c) : Throw(c, e)
  <2>1. ~ChangesAreKnown
    BY <1>1, <1>5 DEF Fault, Faulty, ChangesAreKnown, Artifacts, SettleStep
  <2> QED
    BY <1>1, <1>2, <1>5, <2>1, ThrowSound DEF SameDisk
<1> QED
  BY <1>2, <1>4, <1>5 DEF SettlePublish

LEMMA AbortCheckSound ==
    ASSUME SInv, NEW c \in Commands, AbortCheck(c)
    PROVE  Sound(c)
<1>1. op[c].pc = "abort_check" /\ SameDisk /\ staging'[c] = staging[c]
  BY DEF AbortCheck, At, SameDisk, disk
<1>2. \E l : Go(c, l) /\ <<op[c].pc, l>> \in Glances
  BY <1>1 DEF AbortCheck, Glances
<1> QED
  BY <1>1, <1>2, GlanceSound

\* The rollback, whether or not the receipt was still there to unlink.
LEMMA RolledBackSound ==
    ASSUME SInv, NEW c \in Commands, NEW e \in {"none", "recovery"}, RolledBack(c, e),
           op[c].pc \in {"rollback", "rollback_unlink"}, content' = content, staging'[c] = staging[c],
           entry'["lock"] = entry["lock"]
    PROVE  Sound(c)
<1>1. SafeInv(c, op[c], entry, content, stage[c], staging[c]) /\ op[c].pc \in InstallSteps
  BY SafeOf DEF InstallSteps
<1>2. /\ Others(c)
      /\ IF e = "none"
         THEN op'[c] = [op[c] EXCEPT !.pc = "rolled_back", !.settled = {}, !.changed = @ \ {"receipt"}]
         ELSE op'[c] = [op[c] EXCEPT !.pc = "catch", !.settled = {}, !.err = e]
  BY BecomeFacts DEF SInv, RolledBack
<1>3. /\ op'[c].settled = {} /\ op'[c].lock = op[c].lock /\ op'[c].file = op[c].file
      /\ op'[c].author = op[c].author /\ op'[c].confirmed = op[c].confirmed /\ op'[c].result = op[c].result
      /\ op'[c].tracked = op[c].tracked
      /\ IF e = "none"
         THEN op'[c].pc = "rolled_back" /\ op'[c].err = op[c].err /\ op'[c].changed = op[c].changed \ {"receipt"}
         ELSE op'[c].pc = "catch" /\ op'[c].err = "recovery" /\ op'[c].changed = op[c].changed
  BY <1>2, SafeOf DEF Operations
<1>4. Install(c) /\ op'[c].result = "none" /\ op[c].changed \subseteq {"receipt"}
  BY <1>1, <1>3 DEF SafeInv, SelfInv, PublishedReceipt
<1>5. SelfInv(c, op'[c], stage'[c])
  BY <1>1, <1>3, <1>4 DEF SafeInv, SelfInv, InstallSteps, RemoveSteps, CheckSteps,
    StagedReceipt, PublishedReceipt, PublishedHook, Settled, Unpublishing, Unsettled, EarlySteps
<1>6. SeenInv(c, op'[c], entry', content')
  BY <1>1, <1>3 DEF SafeInv, SeenInv, LockedSteps, InstallSteps, RemoveSteps, CheckSteps,
    PublishedReceipt, PublishedHook, Unpublishing, TracksHook, DropsReceipt
<1>7. LeftInv(c, op'[c], entry', content')
  BY <1>1, <1>3 DEF SafeInv, LeftInv
<1>8. ChangesAreKnown => ChangesInv(c, op'[c], staging'[c])
  BY <1>1, <1>3, <1>4 DEF SafeInv, ChangesInv, StagedReceipt, Unpublishing, Ending, Refusals
<1> QED
  BY <1>2, <1>5, <1>6, <1>7, <1>8 DEF Sound, SafeInv

LEMMA RollbackInspectSound ==
    ASSUME SInv, NEW c \in Commands, RollbackInspect(c)
    PROVE  Sound(c)
<1>1. op[c].pc = "rollback" /\ SameDisk /\ staging'[c] = staging[c]
  BY DEF RollbackInspect, Inspect, At, SameDisk, disk
<1>2. CASE Go(c, "rollback_unlink")
  BY <1>1, <1>2, GlanceSound DEF Glances
<1>3. CASE \E e \in {"none", "recovery"} : RolledBack(c, e)
  BY <1>1, <1>3, RolledBackSound DEF SameDisk
<1> QED
  BY <1>2, <1>3 DEF RollbackInspect, Inspect

LEMMA RollbackCheckSound ==
    ASSUME SInv, NEW c \in Commands, RollbackCheck(c)
    PROVE  Sound(c)
<1>1. op[c].pc = "rolled_back" /\ SameDisk /\ staging'[c] = staging[c]
  BY DEF RollbackCheck, At, SameDisk, disk
<1>2. \E e : Throw(c, e)
  BY DEF RollbackCheck
<1> QED
  BY <1>1, <1>2, InnocentThrow DEF Innocent, InstallSteps, PublishedHook


LEMMA SurveySound ==
    ASSUME SInv, NEW c \in Commands, Survey(c)
    PROVE  Sound(c)
<1>1. op[c].pc = "survey" /\ SameDisk /\ staging'[c] = staging[c]
  BY DEF Survey, At, SameDisk, disk
<1>2. SafeInv(c, op[c], entry, content, stage[c], staging[c]) /\ stage'[c] = stage[c]
      /\ entry' = entry /\ content' = content
  BY <1>1, SafeOf DEF SameDisk
<1>3. CASE \E e : Throw(c, e)
  BY <1>1, <1>3, InnocentThrow DEF Innocent, RemoveSteps, PublishedHook
<1>4. CASE \E t : Become(c, [op[c] EXCEPT !.pc = "track_receipt", !.todo = t])
  <2>1. PICK t : Others(c) /\ op'[c] = [op[c] EXCEPT !.pc = "track_receipt", !.todo = t]
    BY <1>4, BecomeFacts DEF SInv
  <2>2. /\ op'[c].pc = "track_receipt" /\ op'[c].settled = op[c].settled
        /\ op'[c].lock = op[c].lock /\ op'[c].file = op[c].file /\ op'[c].author = op[c].author
        /\ op'[c].confirmed = op[c].confirmed /\ op'[c].err = op[c].err /\ op'[c].result = op[c].result
        /\ op'[c].changed = op[c].changed /\ op'[c].tracked = op[c].tracked
    BY <2>1, SafeOf DEF Operations
  <2>3. SelfInv(c, op'[c], stage'[c])
    BY <1>1, <1>2, <2>2 DEF SafeInv, SelfInv, InstallSteps, RemoveSteps, CheckSteps,
      StagedReceipt, PublishedReceipt, PublishedHook, Settled, Unpublishing, Unsettled, EarlySteps
  <2>4. SeenInv(c, op'[c], entry', content')
    BY <1>1, <1>2, <2>2 DEF SafeInv, SeenInv, LockedSteps, InstallSteps, RemoveSteps, CheckSteps,
      PublishedReceipt, PublishedHook, Unpublishing, TracksHook, DropsReceipt
  <2>5. LeftInv(c, op'[c], entry', content')
    BY <1>2, <2>2 DEF SafeInv, LeftInv
  <2>6. ~Install(c) /\ op'[c].result = "none"
    BY <1>1, <1>2, <2>2 DEF SafeInv, SelfInv, RemoveSteps
  <2>7. ChangesAreKnown => ChangesInv(c, op'[c], staging'[c])
    BY <1>1, <1>2, <2>2, <2>6 DEF SafeInv, ChangesInv, StagedReceipt, Ending, Refusals
  <2> QED
    BY <2>1, <2>3, <2>4, <2>5, <2>7 DEF Sound, SafeInv
<1> QED
  BY <1>3, <1>4 DEF Survey

\* A removal learns who wrote a file, and goes on.
LEMMA TrackSound ==
    ASSUME SInv, NEW c \in Commands, op[c].pc \in {"track_receipt", "track_hook"},
           SameDisk, staging'[c] = staging[c], Others(c),
           op'[c].pc \in {"track_hook", "inactive"} \/ (op'[c].pc = "guard_drop_hook" /\ Knows(op'[c], "hook", entry, content)),
           op'[c].lock = op[c].lock, op'[c].settled = op[c].settled,
           op'[c].confirmed = op[c].confirmed, op'[c].err = op[c].err, op'[c].result = op[c].result,
           op'[c].changed = op[c].changed, op'[c].tracked = op[c].tracked
    PROVE  Sound(c)
<1>1. SafeInv(c, op[c], entry, content, stage[c], staging[c]) /\ stage'[c] = stage[c]
      /\ entry' = entry /\ content' = content
  BY SafeOf DEF SameDisk
<1>2. SelfInv(c, op'[c], stage'[c])
  BY <1>1 DEF SafeInv, SelfInv, InstallSteps, RemoveSteps, CheckSteps,
    StagedReceipt, PublishedReceipt, PublishedHook, Settled, Unpublishing, Unsettled, EarlySteps
<1>3. SeenInv(c, op'[c], entry', content')
  BY <1>1 DEF SafeInv, SeenInv, LockedSteps, InstallSteps, RemoveSteps, CheckSteps,
    PublishedReceipt, PublishedHook, Unpublishing, TracksHook, DropsReceipt
<1>4. LeftInv(c, op'[c], entry', content')
  BY <1>1 DEF SafeInv, LeftInv
<1>5. ~Install(c) /\ op'[c].result = "none"
  BY <1>1 DEF SafeInv, SelfInv, RemoveSteps
<1>6. ChangesAreKnown => ChangesInv(c, op'[c], staging'[c])
  BY <1>1, <1>5 DEF SafeInv, ChangesInv, StagedReceipt, Ending, Refusals
<1> QED
  BY <1>2, <1>3, <1>4, <1>6 DEF Sound, SafeInv

LEMMA TrackReceiptSound ==
    ASSUME SInv, NEW c \in Commands, TrackReceipt(c)
    PROVE  Sound(c)
<1>1. op[c].pc = "track_receipt" /\ SameDisk /\ staging'[c] = staging[c]
  BY DEF TrackReceipt, At, SameDisk, disk
<1>2. CASE \E e : Throw(c, e)
  BY <1>1, <1>2, InnocentThrow DEF Innocent, RemoveSteps, PublishedHook
<1>3. CASE Become(c, [op[c] EXCEPT !.file["receipt"] = entry["receipt"],
                                   !.author = content[entry["receipt"]].by,
                                   !.pc = IF "hook" \in op[c].todo THEN "track_hook" ELSE "inactive"])
  <2>1. /\ Others(c)
        /\ op'[c] = [op[c] EXCEPT !.file["receipt"] = entry["receipt"],
                                  !.author = content[entry["receipt"]].by,
                                  !.pc = IF "hook" \in op[c].todo THEN "track_hook" ELSE "inactive"]
    BY <1>3, BecomeFacts DEF SInv
  <2>2. /\ op'[c].pc \in {"track_hook", "inactive"} /\ op'[c].lock = op[c].lock /\ op'[c].settled = op[c].settled
        /\ op'[c].confirmed = op[c].confirmed /\ op'[c].err = op[c].err /\ op'[c].result = op[c].result
        /\ op'[c].changed = op[c].changed /\ op'[c].tracked = op[c].tracked
    BY <2>1, SafeOf DEF Operations
  <2> QED
    BY <1>1, <2>1, <2>2, TrackSound
<1> QED
  BY <1>2, <1>3 DEF TrackReceipt

LEMMA TrackHookSound ==
    ASSUME SInv, NEW c \in Commands, TrackHook(c)
    PROVE  Sound(c)
<1>1. op[c].pc = "track_hook" /\ SameDisk /\ staging'[c] = staging[c]
  BY DEF TrackHook, At, SameDisk, disk
<1>2. CASE \E e : Throw(c, e)
  BY <1>1, <1>2, InnocentThrow DEF Innocent, RemoveSteps, PublishedHook
<1>3. CASE /\ Holds("hook", "hook", op[c].author)
           /\ Become(c, [op[c] EXCEPT !.pc = "guard_drop_hook", !.file["hook"] = entry["hook"]])
  <2>1. Others(c) /\ op'[c] = [op[c] EXCEPT !.pc = "guard_drop_hook", !.file["hook"] = entry["hook"]]
    BY <1>3, BecomeFacts DEF SInv
  <2>2. /\ op'[c].pc = "guard_drop_hook" /\ op'[c].lock = op[c].lock /\ op'[c].settled = op[c].settled
        /\ op'[c].confirmed = op[c].confirmed /\ op'[c].err = op[c].err /\ op'[c].result = op[c].result
        /\ op'[c].changed = op[c].changed /\ op'[c].tracked = op[c].tracked
        /\ op'[c].author = op[c].author /\ op'[c].file["hook"] = entry["hook"]
    BY <2>1, SafeOf DEF Operations, Artifacts
  <2>3. Knows(op'[c], "hook", entry, content)
    BY <1>3, <2>2 DEF Knows, Holds, Present
  <2> QED
    BY <1>1, <2>1, <2>2, <2>3, TrackSound
<1> QED
  BY <1>2, <1>3 DEF TrackHook

LEMMA GuardDropSound ==
    ASSUME SInv, NEW c \in Commands, NEW f \in Artifacts, GuardDrop(c, f)
    PROVE  Sound(c)
<1>1. op[c].pc = GuardDropStep[f] /\ SameDisk /\ staging'[c] = staging[c]
  BY DEF GuardDrop, At, SameDisk, disk
<1>2. CASE Go(c, DropStep[f])
  <2>1. <<op[c].pc, DropStep[f]>> \in Glances
    BY <1>1 DEF Artifacts, GuardDropStep, DropStep, Glances
  <2> QED
    BY <1>1, <1>2, <2>1, GlanceSound
<1>3. CASE \E e : Throw(c, e)
  <2>1. op[c].pc \in Innocent
    BY <1>1 DEF Artifacts, GuardDropStep, Innocent, RemoveSteps, PublishedHook
  <2> QED
    BY <1>1, <1>3, <2>1, InnocentThrow
<1> QED
  BY <1>2, <1>3 DEF GuardDrop

LEMMA DropInspectSound ==
    ASSUME SInv, NEW c \in Commands, NEW f \in Artifacts, DropInspect(c, f)
    PROVE  Sound(c)
<1>1. op[c].pc = DropStep[f] /\ SameDisk /\ staging'[c] = staging[c]
  BY DEF DropInspect, Inspect, At, SameDisk, disk
<1>2. CASE \E l \in {DropUnlinkStep[f], DroppedStep[f]} : Go(c, l)
  <2>1. PICK l \in {DropUnlinkStep[f], DroppedStep[f]} : Go(c, l)
    BY <1>2
  <2>2. <<op[c].pc, l>> \in Glances
    BY <1>1, <2>1 DEF Artifacts, DropStep, DropUnlinkStep, DroppedStep, Glances
  <2> QED
    BY <1>1, <2>1, <2>2, GlanceSound
<1>3. CASE \E e : Throw(c, e)
  <2>1. op[c].pc \in Innocent
    BY <1>1 DEF Artifacts, DropStep, Innocent, RemoveSteps, PublishedHook
  <2> QED
    BY <1>1, <1>3, <2>1, InnocentThrow
<1> QED
  BY <1>2, <1>3 DEF DropInspect, Inspect

LEMMA SettleDropSound ==
    ASSUME SInv, NEW c \in Commands, NEW f \in Artifacts, SettleDrop(c, f)
    PROVE  Sound(c)
<1>1. op[c].pc = DroppedStep[f] /\ SameDisk /\ staging'[c] = staging[c]
  BY DEF SettleDrop, At, SameDisk, disk
<1>2. SafeInv(c, op[c], entry, content, stage[c], staging[c]) /\ stage'[c] = stage[c]
      /\ entry' = entry /\ content' = content
  BY <1>1, SafeOf DEF SameDisk
<1>3. op[c].pc \in {"dropped_hook", "dropped_receipt"} /\ op[c].pc \in RemoveSteps /\ LockErrors(c) = {}
  <2>1. op[c].pc \in {"dropped_hook", "dropped_receipt"} /\ op[c].pc \in RemoveSteps
    BY <1>1 DEF DroppedStep, Artifacts, RemoveSteps
  <2> QED
    BY <2>1, OwnLock
<1>4. CASE Become(c, [op[c] EXCEPT !.pc = IF f = "hook" THEN "inactive" ELSE "vacant", !.settled = @ \cup {f}])
  <2>1. /\ Others(c)
        /\ op'[c] = [op[c] EXCEPT !.pc = IF f = "hook" THEN "inactive" ELSE "vacant", !.settled = @ \cup {f}]
    BY <1>4, BecomeFacts DEF SInv
  <2>2. /\ op'[c].pc \in {"inactive", "vacant"} /\ op'[c].lock = op[c].lock
        /\ op'[c].settled # {} /\ op'[c].file = op[c].file /\ op'[c].author = op[c].author
        /\ op'[c].confirmed = op[c].confirmed /\ op'[c].err = op[c].err /\ op'[c].result = op[c].result
        /\ op'[c].changed = op[c].changed /\ op'[c].tracked = op[c].tracked
    BY <2>1, SafeOf DEF Operations
  <2>3. SelfInv(c, op'[c], stage'[c])
    BY <1>2, <1>3, <2>2 DEF SafeInv, SelfInv, InstallSteps, RemoveSteps, CheckSteps,
      StagedReceipt, PublishedReceipt, PublishedHook, Settled, Unpublishing, Unsettled, EarlySteps
  <2>4. SeenInv(c, op'[c], entry', content')
    BY <1>2, <1>3, <2>2 DEF SafeInv, SeenInv, LockedSteps, InstallSteps, RemoveSteps, CheckSteps,
      PublishedReceipt, PublishedHook, Unpublishing, TracksHook, DropsReceipt
  <2>5. LeftInv(c, op'[c], entry', content')
    BY <1>2, <2>2 DEF SafeInv, LeftInv
  <2>6. ~Install(c) /\ op'[c].result = "none"
    BY <1>2, <1>3, <2>2 DEF SafeInv, SelfInv
  <2>7. ChangesAreKnown => ChangesInv(c, op'[c], staging'[c])
    BY <1>1, <1>2, <2>2, <2>6 DEF SafeInv, ChangesInv, StagedReceipt, Ending, Refusals
  <2> QED
    BY <2>1, <2>3, <2>4, <2>5, <2>7 DEF Sound, SafeInv
<1>5. CASE \E e \in Fault(c) : Throw(c, e)
  <2>1. ~ChangesAreKnown
    BY <1>3, <1>5 DEF Fault, Faulty, ChangesAreKnown
  <2> QED
    BY <1>1, <1>3, <1>5, <2>1, ThrowSound DEF SameDisk
<1> QED
  BY <1>3, <1>4, <1>5 DEF SettleDrop

LEMMA CheckInactiveSound ==
    ASSUME SInv, NEW c \in Commands, CheckInactive(c)
    PROVE  Sound(c)
<1>1. op[c].pc = "inactive" /\ SameDisk /\ staging'[c] = staging[c]
  BY DEF CheckInactive, At, SameDisk, disk
<1>2. SafeInv(c, op[c], entry, content, stage[c], staging[c]) /\ stage'[c] = stage[c]
      /\ entry' = entry /\ content' = content
  BY <1>1, SafeOf DEF SameDisk
<1>3. CASE \E e : Throw(c, e)
  BY <1>1, <1>3, InnocentThrow DEF Innocent, RemoveSteps, PublishedHook
<1>4. CASE StillTracked(c, "receipt") /\ Go(c, "guard_drop_receipt")
  <2>1. /\ Others(c) /\ Alike(op[c], op'[c]) /\ op'[c].pc = "guard_drop_receipt"
        /\ op'[c].err = op[c].err /\ op'[c].result = op[c].result
    BY <1>4, GoAlike DEF SInv
  <2>2. Knows(op'[c], "receipt", entry', content')
    <3>1. Knows(op[c], "receipt", entry, content)
      BY <1>4, StillKnown DEF Artifacts
    <3> QED
      BY <1>2, <2>1, <3>1 DEF Knows, Alike
  <2>3. SelfInv(c, op'[c], stage'[c])
    BY <1>1, <1>2, <2>1 DEF SafeInv, SelfInv, Alike, InstallSteps, RemoveSteps, CheckSteps,
      StagedReceipt, PublishedReceipt, PublishedHook, Settled, Unpublishing, Unsettled, EarlySteps
  <2>4. SeenInv(c, op'[c], entry', content')
    BY <1>1, <1>2, <2>1, <2>2 DEF SafeInv, SeenInv, Alike, LockedSteps, InstallSteps, RemoveSteps, CheckSteps,
      PublishedReceipt, PublishedHook, Unpublishing, TracksHook, DropsReceipt
  <2>5. LeftInv(c, op'[c], entry', content')
    BY <1>2, <2>1 DEF SafeInv, LeftInv, Alike
  <2>6. ~Install(c) /\ op'[c].result = "none"
    BY <1>1, <1>2, <2>1 DEF SafeInv, SelfInv, RemoveSteps
  <2>7. ChangesAreKnown => ChangesInv(c, op'[c], staging'[c])
    BY <1>1, <1>2, <2>1, <2>6 DEF SafeInv, ChangesInv, Alike, StagedReceipt, Ending, Refusals
  <2> QED
    BY <2>1, <2>3, <2>4, <2>5, <2>7 DEF Sound, SafeInv
<1> QED
  BY <1>3, <1>4 DEF CheckInactive

LEMMA CheckVacantSound ==
    ASSUME SInv, NEW c \in Commands, CheckVacant(c)
    PROVE  Sound(c)
<1>1. op[c].pc = "vacant" /\ SameDisk /\ staging'[c] = staging[c]
  BY DEF CheckVacant, At, SameDisk, disk
<1>2. CASE \E e : Throw(c, e)
  BY <1>1, <1>2, InnocentThrow DEF Innocent, RemoveSteps, PublishedHook
<1>3. CASE Go(c, "release")
  BY <1>1, <1>3, GlanceSound DEF Glances
<1> QED
  BY <1>2, <1>3 DEF CheckVacant


LEMMA CatchSound ==
    ASSUME SInv, NEW c \in Commands, Catch(c)
    PROVE  Sound(c)
<1>1. op[c].pc = "catch" /\ SameDisk /\ staging'[c] = staging[c]
  BY DEF Catch, At, SameDisk, disk
<1>2. SafeInv(c, op[c], entry, content, stage[c], staging[c]) /\ stage'[c] = stage[c]
      /\ entry' = entry /\ content' = content
  BY <1>1, SafeOf DEF SameDisk
<1>3. PICK l : /\ Go(c, l)
               /\ \/ l = "unpublish" /\ Install(c) /\ op[c].settled = {"receipt"}
                  \/ l = "cleanup" /\ Install(c) /\ op[c].settled # {"receipt"}
                  \/ l \in {"release", "report"} /\ ~Install(c) /\ (l = "report" => op[c].lock = NoInode)
  BY DEF Catch, NeedsUnpublish, NextCleanup
<1>4. /\ Others(c) /\ Alike(op[c], op'[c]) /\ op'[c].pc = l
      /\ op'[c].err = op[c].err /\ op'[c].result = op[c].result
  BY <1>3, GoAlike DEF SInv
<1>5. SelfInv(c, op'[c], stage'[c])
  BY <1>1, <1>2, <1>3, <1>4 DEF SafeInv, SelfInv, Alike, InstallSteps, RemoveSteps, CheckSteps,
    StagedReceipt, PublishedReceipt, PublishedHook, Settled, Unpublishing, Unsettled, EarlySteps
<1>6. SeenInv(c, op'[c], entry', content')
  BY <1>1, <1>2, <1>3, <1>4 DEF SafeInv, SeenInv, Knows, Alike, LockedSteps, InstallSteps, RemoveSteps, CheckSteps,
    PublishedReceipt, PublishedHook, Unpublishing, TracksHook, DropsReceipt
<1>7. LeftInv(c, op'[c], entry', content')
  BY <1>2, <1>4 DEF SafeInv, LeftInv, Alike
<1>8. op'[c].result = "none"
  BY <1>1, <1>2, <1>4 DEF SafeInv, SelfInv
<1>9. ChangesAreKnown => ChangesInv(c, op'[c], staging'[c])
  BY <1>1, <1>2, <1>3, <1>4, <1>8 DEF SafeInv, ChangesInv, Alike, StagedReceipt, Unpublishing, Ending, Refusals
<1> QED
  BY <1>4, <1>5, <1>6, <1>7, <1>9 DEF Sound, SafeInv

\* The receipt is taken back, or it is not known that it was.
LEMMA UnpublishedSound ==
    ASSUME SInv, NEW c \in Commands, Unpublished(c) \/ NotUnpublished(c), op[c].pc \in Unpublishing,
           content' = content, staging'[c] = staging[c], entry'["lock"] = entry["lock"]
    PROVE  Sound(c)
<1>1. SafeInv(c, op[c], entry, content, stage[c], staging[c])
  BY SafeOf
<1>2. /\ Others(c)
      /\ \/ op'[c] = [op[c] EXCEPT !.pc = "cleanup", !.changed = @ \ {"receipt"}]
         \/ op'[c] = [op[c] EXCEPT !.pc = "cleanup", !.confirmed = FALSE]
  BY BecomeFacts DEF SInv, Unpublished, NotUnpublished
<1>3. /\ op'[c].pc = "cleanup" /\ op'[c].settled = op[c].settled /\ op'[c].lock = op[c].lock
      /\ op'[c].err = op[c].err /\ op'[c].result = op[c].result /\ op'[c].tracked = op[c].tracked
      /\ \/ op'[c].changed = op[c].changed \ {"receipt"} /\ op'[c].confirmed = op[c].confirmed
         \/ ~op'[c].confirmed
  BY <1>2, SafeOf DEF Operations
<1>4. Install(c) /\ op'[c].result = "none"
  BY <1>1, <1>3 DEF SafeInv, SelfInv, Unpublishing
<1>5. SelfInv(c, op'[c], stage'[c])
  BY <1>1, <1>3, <1>4 DEF SafeInv, SelfInv, InstallSteps, RemoveSteps, CheckSteps,
    StagedReceipt, PublishedReceipt, PublishedHook, Settled, Unpublishing, Unsettled, EarlySteps
<1>6. SeenInv(c, op'[c], entry', content')
  BY <1>1, <1>3 DEF SafeInv, SeenInv, LockedSteps, InstallSteps, RemoveSteps, CheckSteps,
    PublishedReceipt, PublishedHook, Unpublishing, TracksHook, DropsReceipt
<1>7. LeftInv(c, op'[c], entry', content')
  BY <1>1, <1>3 DEF SafeInv, LeftInv
<1>8. ChangesAreKnown => ChangesInv(c, op'[c], staging'[c])
  BY <1>1, <1>3, <1>4 DEF SafeInv, ChangesInv, StagedReceipt, Unpublishing, Ending, Refusals
<1> QED
  BY <1>2, <1>5, <1>6, <1>7, <1>8 DEF Sound, SafeInv

LEMMA UnpublishInspectSound ==
    ASSUME SInv, NEW c \in Commands, UnpublishInspect(c)
    PROVE  Sound(c)
<1>1. op[c].pc = "unpublish" /\ SameDisk /\ staging'[c] = staging[c]
  BY DEF UnpublishInspect, Inspect, At, SameDisk, disk
<1>2. CASE Go(c, "unpublish_unlink")
  BY <1>1, <1>2, GlanceSound DEF Glances
<1>3. CASE Unpublished(c) \/ NotUnpublished(c)
  BY <1>1, <1>3, UnpublishedSound DEF SameDisk, Unpublishing
<1> QED
  BY <1>2, <1>3 DEF UnpublishInspect, Inspect

\* The lock is let go: its name is gone, or the command says that it may not be.
LEMMA ReleaseSound ==
    ASSUME SInv, NEW c \in Commands, op[c].pc \in {"release", "release_unlink", "release_confirm"},
           Others(c), op'[c].pc \in {"release_confirm", "report"}, op'[c].lock = NoInode,
           op'[c].settled = op[c].settled, op'[c].err = op[c].err, op'[c].result = op[c].result,
           op'[c].changed = op[c].changed, op'[c].tracked = op[c].tracked,
           content' = content, staging'[c] = staging[c],
           op'[c].confirmed = FALSE \/ (op'[c].confirmed = op[c].confirmed /\ entry'["lock"] = NoInode)
    PROVE  Sound(c)
<1>1. SafeInv(c, op[c], entry, content, stage[c], staging[c])
  BY SafeOf
<1>2. op'[c].result = "none"
  BY <1>1 DEF SafeInv, SelfInv
<1>3. SelfInv(c, op'[c], stage'[c])
  BY <1>2 DEF SelfInv, InstallSteps, RemoveSteps, CheckSteps,
    StagedReceipt, PublishedReceipt, PublishedHook, Settled, Unpublishing, Unsettled, EarlySteps
<1>4. SeenInv(c, op'[c], entry', content')
  BY DEF SeenInv, LockedSteps, InstallSteps, RemoveSteps, CheckSteps,
    PublishedReceipt, PublishedHook, Unpublishing, TracksHook, DropsReceipt
<1>5. LeftInv(c, op'[c], entry', content')
  BY DEF LeftInv
<1>6. ChangesAreKnown => ChangesInv(c, op'[c], staging'[c])
  BY <1>1, <1>2 DEF SafeInv, ChangesInv, StagedReceipt, Unpublishing, Ending, Refusals
<1> QED
  BY <1>3, <1>4, <1>5, <1>6 DEF Sound, SafeInv

LEMMA ReleasedAlike ==
    ASSUME SInv, NEW c \in Commands, NEW ok \in BOOLEAN, Released(c, ok)
    PROVE  /\ Others(c) /\ op'[c].pc = "report" /\ op'[c].lock = NoInode
           /\ op'[c].settled = op[c].settled /\ op'[c].err = op[c].err /\ op'[c].result = op[c].result
           /\ op'[c].changed = op[c].changed /\ op'[c].tracked = op[c].tracked
           /\ op'[c].confirmed = (IF ok THEN op[c].confirmed ELSE FALSE)
<1>1. Others(c) /\ op'[c] = [op[c] EXCEPT !.pc = "report", !.lock = NoInode, !.confirmed = @ /\ ok]
  BY BecomeFacts DEF SInv, Released
<1>2. /\ op'[c].pc = "report" /\ op'[c].lock = NoInode
      /\ op'[c].settled = op[c].settled /\ op'[c].err = op[c].err /\ op'[c].result = op[c].result
      /\ op'[c].changed = op[c].changed /\ op'[c].tracked = op[c].tracked
  BY <1>1, SafeOf DEF Operations
<1>3. op'[c].confirmed = (op[c].confirmed /\ ok) /\ op[c].confirmed \in BOOLEAN
  BY <1>1, SafeOf DEF Operations
<1>4. op'[c].confirmed = (IF ok THEN op[c].confirmed ELSE FALSE)
  BY <1>3
<1>5. Others(c)
  BY <1>1
<1> QED
  BY <1>2, <1>4, <1>5

LEMMA ReleaseInspectSound ==
    ASSUME SInv, NEW c \in Commands, ReleaseInspect(c)
    PROVE  Sound(c)
<1>1. op[c].pc = "release" /\ SameDisk /\ staging'[c] = staging[c]
  BY DEF ReleaseInspect, At, SameDisk, disk
<1>2. CASE Go(c, "release_unlink")
  BY <1>1, <1>2, GlanceSound DEF Glances
<1>3. CASE Released(c, FALSE)
  <2>1. /\ Others(c) /\ op'[c].pc = "report" /\ op'[c].lock = NoInode
        /\ op'[c].settled = op[c].settled /\ op'[c].err = op[c].err /\ op'[c].result = op[c].result
        /\ op'[c].changed = op[c].changed /\ op'[c].tracked = op[c].tracked /\ op'[c].confirmed = FALSE
    BY <1>3, ReleasedAlike
  <2> QED
    BY <1>1, <2>1, ReleaseSound DEF SameDisk
<1> QED
  BY <1>2, <1>3 DEF ReleaseInspect

LEMMA ReleaseConfirmSound ==
    ASSUME SInv, NEW c \in Commands, ReleaseConfirm(c)
    PROVE  Sound(c)
<1>1. op[c].pc = "release_confirm" /\ SameDisk /\ staging'[c] = staging[c]
  BY DEF ReleaseConfirm, At, SameDisk, disk
<1>2. CASE ~Present("lock") /\ Released(c, TRUE)
  <2>1. /\ Others(c) /\ op'[c].pc = "report" /\ op'[c].lock = NoInode
        /\ op'[c].settled = op[c].settled /\ op'[c].err = op[c].err /\ op'[c].result = op[c].result
        /\ op'[c].changed = op[c].changed /\ op'[c].tracked = op[c].tracked
        /\ op'[c].confirmed = op[c].confirmed
    BY <1>2, ReleasedAlike
  <2>2. entry'["lock"] = NoInode
    BY <1>1, <1>2 DEF SameDisk, Present
  <2> QED
    BY <1>1, <2>1, <2>2, ReleaseSound DEF SameDisk
<1>3. CASE Released(c, FALSE)
  <2>1. /\ Others(c) /\ op'[c].pc = "report" /\ op'[c].lock = NoInode
        /\ op'[c].settled = op[c].settled /\ op'[c].err = op[c].err /\ op'[c].result = op[c].result
        /\ op'[c].changed = op[c].changed /\ op'[c].tracked = op[c].tracked /\ op'[c].confirmed = FALSE
    BY <1>3, ReleasedAlike
  <2> QED
    BY <1>1, <2>1, ReleaseSound DEF SameDisk
<1> QED
  BY <1>2, <1>3 DEF ReleaseConfirm

\* What the catch block makes of what it knows.
LEMMA ReportOutcomeSound ==
    ASSUME SInv, NEW c \in Commands, ReportOutcome(c)
    PROVE  Sound(c)
<1>1. op[c].pc = "report" /\ SameDisk /\ staging'[c] = staging[c]
  BY DEF ReportOutcome, At, SameDisk, disk
<1>2. SafeInv(c, op[c], entry, content, stage[c], staging[c])
  BY SafeOf
<1>3. PICK res : /\ Report(c, res)
                 /\ res \in {"installed", "removed", "recovery"}
                       \/ (res = Outcome(c) /\ ~(op[c].err = "none" /\ op[c].confirmed))
  BY DEF ReportOutcome
<1>4. ASSUME ChangesAreKnown, res \in Refusals
      PROVE  op[c].changed = {} /\ staging[c] = "none" /\ op[c].confirmed /\ op[c].err # "recovery"
  <2>1. res = Outcome(c) /\ ~(op[c].err = "none" /\ op[c].confirmed)
    BY <1>3, <1>4 DEF Refusals
  <2>2. ~PastCommit(c) /\ op[c].confirmed /\ op[c].err \notin {"none", "recovery"}
    BY <1>4, <2>1 DEF Outcome, Refusals
  <2>3. ChangesInv(c, op[c], staging[c])
    BY <1>2, <1>4 DEF SafeInv
  <2>4. op[c].changed = {}
    BY <1>1, <2>2, <2>3 DEF ChangesInv, PastCommit, Committed, Ending
  <2>5. staging[c] = "none"
    BY <1>1, <2>2, <2>3 DEF ChangesInv, Ending
  <2> QED
    BY <2>2, <2>4, <2>5
<1> QED
  BY <1>1, <1>3, <1>4, ReportSound

LEMMA CancelSound ==
    ASSUME SInv, NEW c \in Commands, Cancel(c)
    PROVE  Sound(c) /\ SameDisk /\ staging' = staging
<1>1. SameDisk /\ staging' = staging
  BY DEF Cancel, SameDisk, disk
<1>2. SafeInv(c, op[c], entry, content, stage[c], staging[c]) /\ stage'[c] = stage[c]
      /\ entry' = entry /\ content' = content
  BY <1>1, SafeOf DEF SameDisk
<1>3. Others(c) /\ op'[c] = [op[c] EXCEPT !.aborted = TRUE]
  BY BecomeFacts DEF SInv, Cancel
<1>4. /\ Alike(op[c], op'[c]) /\ op'[c].pc = op[c].pc
      /\ op'[c].err = op[c].err /\ op'[c].result = op[c].result
  BY <1>3, SafeOf DEF Operations, Alike
<1>5. SelfInv(c, op'[c], stage'[c])
  BY <1>2, <1>4 DEF SafeInv, SelfInv, Alike
<1>6. SeenInv(c, op'[c], entry', content')
  BY <1>2, <1>4 DEF SafeInv, SeenInv, Knows, Alike
<1>7. LeftInv(c, op'[c], entry', content')
  BY <1>2, <1>4 DEF SafeInv, LeftInv, Alike
<1>8. ChangesAreKnown => ChangesInv(c, op'[c], staging'[c])
  BY <1>1, <1>2, <1>4 DEF SafeInv, ChangesInv, Alike
<1> QED
  BY <1>1, <1>3, <1>5, <1>6, <1>7, <1>8 DEF Sound, SafeInv

LEMMA CrashSound ==
    ASSUME SInv, NEW c \in Commands, Crash(c)
    PROVE  Sound(c) /\ SameDisk /\ staging' = staging
<1>1. SameDisk /\ staging' = staging /\ op[c].pc # "done"
  BY DEF Crash, Running, SameDisk, disk
<1>2. SafeInv(c, op[c], entry, content, stage[c], staging[c]) /\ stage'[c] = stage[c]
      /\ entry' = entry /\ content' = content
  BY <1>1, SafeOf DEF SameDisk
<1>3. /\ Others(c) /\ Alike(op[c], op'[c]) /\ op'[c].pc = "crashed"
      /\ op'[c].err = op[c].err /\ op'[c].result = op[c].result
  BY GoAlike DEF SInv, Crash
<1>4. op'[c].result = "none"
  BY <1>1, <1>2, <1>3 DEF SafeInv, SelfInv
<1>5. SelfInv(c, op'[c], stage'[c])
  BY <1>3, <1>4 DEF SelfInv, InstallSteps, RemoveSteps, CheckSteps,
    StagedReceipt, PublishedReceipt, PublishedHook, Settled, Unpublishing, Unsettled, EarlySteps
<1>6. SeenInv(c, op'[c], entry', content')
  BY <1>3 DEF SeenInv, LockedSteps, InstallSteps, RemoveSteps, CheckSteps,
    PublishedReceipt, PublishedHook, Unpublishing, TracksHook, DropsReceipt
<1>7. LeftInv(c, op'[c], entry', content')
  BY <1>2, <1>3 DEF SafeInv, LeftInv, Alike
<1>8. ChangesAreKnown => ChangesInv(c, op'[c], staging'[c])
  BY <1>1, <1>2, <1>3, <1>4 DEF SafeInv, ChangesInv, StagedReceipt, Unpublishing, Ending, Refusals
<1> QED
  BY <1>1, <1>3, <1>5, <1>6, <1>7, <1>8 DEF Sound, SafeInv


-----------------------------------------------------------------------------
(* The disk: what a step of one command leaves of what the others know.    *)

DiskSound(c) ==
    /\ \A d \in Commands \ {c} : /\ stage'[d] = stage[d] /\ staging'[d] = staging[d]
                                 /\ LeftInv(d, op[d], entry', content')
    /\ ApartInv(entry', content', stage')
    /\ UNCHANGED <<entry, content>> \/ op[c].pc \in HoldingSteps \/ ~Present("lock")
    /\ \A n \in FixedNames : Present(n) /\ content[entry[n]] = Foreign => entry'[n] = entry[n]

LEMMA SameDiskSound ==
    ASSUME SInv, NEW c \in Commands, SameDisk, \A d \in Commands \ {c} : staging'[d] = staging[d]
    PROVE  DiskSound(c)
<1>1. \A d \in Commands : LeftInv(d, op[d], entry, content)
  BY SafeOf DEF SafeInv
<1>2. ApartInv(entry, content, stage)
  BY DEF SInv
<1>3. entry' = entry /\ content' = content /\ stage' = stage
  BY DEF SameDisk
<1> QED
  BY <1>1, <1>2, <1>3 DEF DiskSound

LEMMA UnlinkSound ==
    ASSUME SInv, NEW c \in Commands, NEW n \in FixedNames, entry' = [entry EXCEPT ![n] = NoInode],
           content[entry[n]] # Foreign, op[c].pc \in HoldingSteps,
           content' = content, stage' = stage, staging' = staging
    PROVE  DiskSound(c)
<1>1. \A m \in FixedNames : entry'[m] = IF m = n THEN NoInode ELSE entry[m]
  BY DEF SInv, TypeOK
<1>2. ASSUME NEW d \in Commands PROVE LeftInv(d, op[d], entry', content')
  <2>1. LeftInv(d, op[d], entry, content)
    BY SafeOf DEF SafeInv
  <2> QED
    BY <1>1, <2>1 DEF LeftInv, FixedNames
<1>3. ApartInv(entry, content, stage)
  BY DEF SInv
<1>4. ApartInv(entry', content', stage')
  BY <1>1, <1>3 DEF ApartInv
<1> QED
  BY <1>1, <1>2, <1>4 DEF DiskSound

LEMMA FreeFacts ==
    ASSUME NEW i \in FreeInodes
    PROVE  /\ i \in Inodes /\ i # NoInode /\ \A n \in FixedNames : entry[n] # i
           /\ \A c \in Commands, f \in Artifacts : stage[c][f] # i
           /\ \A c \in Commands : HandleOpen(c) => op[c].lock # i
  BY FilesAssumption DEF FreeInodes, Staged

\* A command that has no lock yet, or gives up the one it made, has changed nothing.
LEMMA EarlyThrow ==
    ASSUME SInv, NEW c \in Commands, op[c].pc \in {"lock", "abandon_lock"}, Others(c),
           op'[c].pc = "catch", op'[c].lock = NoInode, op'[c].settled = op[c].settled,
           op'[c].changed = op[c].changed, op'[c].tracked = op[c].tracked, op'[c].result = op[c].result,
           LeftInv(c, op'[c], entry', content'), staging' = staging
    PROVE  Sound(c)
<1>1. SafeInv(c, op[c], entry, content, stage[c], staging[c])
  BY SafeOf
<1>2. op'[c].settled = {} /\ op'[c].result = "none" /\ op[c].err = "none"
  BY <1>1 DEF SafeInv, SelfInv, Unsettled, EarlySteps
<1>3. SelfInv(c, op'[c], stage'[c])
  BY <1>2 DEF SelfInv, InstallSteps, RemoveSteps, CheckSteps,
    StagedReceipt, PublishedReceipt, PublishedHook, Settled, Unpublishing, Unsettled, EarlySteps
<1>4. SeenInv(c, op'[c], entry', content')
  BY <1>2 DEF SeenInv, LockedSteps, InstallSteps, RemoveSteps, CheckSteps,
    PublishedReceipt, PublishedHook, Unpublishing, TracksHook, DropsReceipt
<1>5. ChangesAreKnown => op[c].changed = {}
  BY <1>1, <1>2 DEF SafeInv, SelfInv, ChangesInv, Unsettled, EarlySteps
<1>6. ChangesAreKnown => ChangesInv(c, op'[c], staging'[c])
  BY <1>1, <1>2, <1>5 DEF SafeInv, ChangesInv, StagedReceipt, Unpublishing, Ending, Refusals
<1> QED
  BY <1>3, <1>4, <1>6 DEF Sound, SafeInv

LEMMA CreateLockSound ==
    ASSUME SInv, NEW c \in Commands, CreateLock(c)
    PROVE  Sound(c) /\ DiskSound(c)
<1>1. op[c].pc = "lock" /\ stage' = stage /\ staging' = staging
  BY DEF CreateLock, At
<1>2. SafeInv(c, op[c], entry, content, stage[c], staging[c])
  BY SafeOf
<1>3. op[c].lock = NoInode
  BY <1>1, <1>2 DEF SafeInv, SelfInv
<1>4. CASE UNCHANGED <<entry, content>> /\ \E e : Throw(c, e)
  <2>1. PICK e : Throw(c, e)
    BY <1>4
  <2>2. /\ Others(c) /\ Alike(op[c], op'[c]) /\ op'[c].pc = "catch" /\ op'[c].result = op[c].result
    BY <2>1, ThrowAlike DEF SInv
  <2>3. LeftInv(c, op'[c], entry', content')
    BY <1>1, <1>2, <1>3, <1>4, <2>2 DEF SafeInv, SelfInv, LeftInv, Alike, EarlySteps
  <2>4. SameDisk
    BY <1>1, <1>4 DEF SameDisk
  <2> QED
    BY <1>1, <1>3, <2>2, <2>3, <2>4, EarlyThrow, SameDiskSound DEF Alike
<1>5. CASE ~Present("lock") /\ \E i \in FreeInodes :
             /\ entry' = [entry EXCEPT !["lock"] = i]
             /\ content' = [content EXCEPT ![i] = Bytes("blank", c)]
             /\ Become(c, [op[c] EXCEPT !.pc = "write_lock", !.lock = i])
  <2>1. PICK i \in FreeInodes :
             /\ entry' = [entry EXCEPT !["lock"] = i]
             /\ content' = [content EXCEPT ![i] = Bytes("blank", c)]
             /\ Become(c, [op[c] EXCEPT !.pc = "write_lock", !.lock = i])
    BY <1>5
  <2>2. /\ i \in Inodes /\ i # NoInode /\ \A n \in FixedNames : entry[n] # i
        /\ \A d \in Commands, f \in Artifacts : stage[d][f] # i
    BY FreeFacts
  <2>3. /\ \A n \in FixedNames : entry'[n] = IF n = "lock" THEN i ELSE entry[n]
        /\ entry'["lock"] = i
        /\ \A j \in Inodes : content'[j] = IF j = i THEN Bytes("blank", c) ELSE content[j]
        /\ content'[i] = Bytes("blank", c)
        /\ \A d \in Commands, f \in Artifacts : stage[d][f] # NoInode => stage[d][f] \in Inodes
    BY <2>1, <2>2 DEF SInv, TypeOK, FixedNames
  <2>4. Others(c) /\ op'[c] = [op[c] EXCEPT !.pc = "write_lock", !.lock = i]
    BY <2>1, BecomeFacts DEF SInv
  <2>5. /\ op'[c].pc = "write_lock" /\ op'[c].lock = i /\ op'[c].file = op[c].file
        /\ op'[c].settled = op[c].settled /\ op'[c].author = op[c].author
        /\ op'[c].confirmed = op[c].confirmed /\ op'[c].err = op[c].err /\ op'[c].result = op[c].result
        /\ op'[c].changed = op[c].changed /\ op'[c].tracked = op[c].tracked
    BY <2>4, SafeOf DEF Operations
  <2>6. SelfInv(c, op'[c], stage'[c])
    BY <1>1, <1>2, <2>5 DEF SafeInv, SelfInv, InstallSteps, RemoveSteps, CheckSteps,
      StagedReceipt, PublishedReceipt, PublishedHook, Settled, Unpublishing, Unsettled, EarlySteps
  <2>7. SeenInv(c, op'[c], entry', content')
    BY <2>3, <2>5 DEF SeenInv, Bytes, InstallSteps, RemoveSteps, CheckSteps,
      PublishedReceipt, PublishedHook, Unpublishing, TracksHook, DropsReceipt
  <2>8. LeftInv(c, op'[c], entry', content')
    BY <2>2, <2>5 DEF LeftInv
  <2>9. op'[c].result = "none"
    BY <1>1, <1>2, <2>5 DEF SafeInv, SelfInv
  <2>10. ChangesAreKnown => ChangesInv(c, op'[c], staging'[c])
    BY <1>1, <1>2, <2>5, <2>9 DEF SafeInv, ChangesInv, StagedReceipt, Unpublishing, Ending, Refusals
  <2>11. ASSUME NEW d \in Commands \ {c} PROVE LeftInv(d, op[d], entry', content')
    BY <2>3, <2>11 DEF LeftInv, Bytes
  <2>12. ApartInv(entry, content, stage)
    BY DEF SInv
  <2>13. ApartInv(entry', content', stage')
    BY <1>1, <2>2, <2>3, <2>12 DEF ApartInv, Artifacts
  <2>14. \A n \in FixedNames : Present(n) => entry'[n] = entry[n]
    BY <1>5, <2>3
  <2> QED
    BY <1>1, <1>5, <2>4, <2>6, <2>7, <2>8, <2>10, <2>11, <2>13, <2>14 DEF Sound, SafeInv, DiskSound
<1> QED
  BY <1>4, <1>5 DEF CreateLock, LockFree

LEMMA WriteLockSound ==
    ASSUME SInv, NEW c \in Commands, WriteLock(c)
    PROVE  Sound(c) /\ DiskSound(c)
<1>1. op[c].pc = "write_lock" /\ entry' = entry /\ stage' = stage /\ staging' = staging
  BY DEF WriteLock, At
<1>2. SafeInv(c, op[c], entry, content, stage[c], staging[c])
  BY SafeOf
<1>3. Owns(c) /\ entry["lock"] = op[c].lock /\ op[c].lock # NoInode /\ op[c].lock \in Inodes
  BY <1>1, SafeOf DEF Owns, Running, HasItsLock, HoldingSteps, Operations
<1>4. PICK l : /\ Go(c, l)
               /\ \/ content' = [content EXCEPT ![op[c].lock] = Bytes("lock", c)]
                     /\ IF Install(c) THEN l = "check_locked" ELSE l = "survey"
                  \/ content' = content /\ l = "abandon_lock"
  BY DEF WriteLock
<1>5. /\ Others(c) /\ Alike(op[c], op'[c]) /\ op'[c].pc = l
      /\ op'[c].err = op[c].err /\ op'[c].result = op[c].result
  BY <1>4, GoAlike DEF SInv
<1>6. content[op[c].lock].by = c
  BY <1>1, <1>2, <1>3 DEF SafeInv, SeenInv, LockedSteps
<1>7. /\ \A j \in Inodes : j # op[c].lock => content'[j] = content[j]
      /\ content'[op[c].lock].by = c
      /\ l # "abandon_lock" => content'[op[c].lock] = Bytes("lock", c)
  <2>1. content \in [Inodes -> Contents]
    BY DEF SInv, TypeOK
  <2> QED
    BY <1>3, <1>4, <1>6, <2>1 DEF Bytes
<1>8. SelfInv(c, op'[c], stage'[c])
  BY <1>1, <1>2, <1>4, <1>5 DEF SafeInv, SelfInv, Alike, InstallSteps, RemoveSteps, CheckSteps,
    StagedReceipt, PublishedReceipt, PublishedHook, Settled, Unpublishing, Unsettled, EarlySteps
<1>9. SeenInv(c, op'[c], entry', content')
  BY <1>4, <1>5, <1>7 DEF SeenInv, Alike, InstallSteps, RemoveSteps, CheckSteps,
    PublishedReceipt, PublishedHook, Unpublishing, TracksHook, DropsReceipt
<1>10. LeftInv(c, op'[c], entry', content')
  BY <1>3, <1>5 DEF LeftInv, Alike
<1>11. op'[c].result = "none"
  BY <1>1, <1>2, <1>5 DEF SafeInv, SelfInv
<1>12. ChangesAreKnown => ChangesInv(c, op'[c], staging'[c])
  BY <1>1, <1>2, <1>4, <1>5, <1>11 DEF SafeInv, ChangesInv, Alike, StagedReceipt, Unpublishing, Ending, Refusals
<1>13. ASSUME NEW d \in Commands \ {c} PROVE LeftInv(d, op[d], entry', content')
  BY <1>1, <1>3, <1>7, <1>13 DEF LeftInv
<1>14. ApartInv(entry, content, stage)
  BY DEF SInv
<1>15. \A d \in Commands, f \in Artifacts : stage[d][f] # NoInode =>
          stage[d][f] \in Inodes /\ stage[d][f] # op[c].lock
  BY <1>3, <1>14 DEF ApartInv, SInv, TypeOK, FixedNames, Artifacts
<1>16. ApartInv(entry', content', stage')
  BY <1>1, <1>7, <1>14, <1>15 DEF ApartInv
<1>17. op[c].pc \in HoldingSteps
  BY <1>1 DEF HoldingSteps
<1> QED
  BY <1>1, <1>5, <1>8, <1>9, <1>10, <1>12, <1>13, <1>16, <1>17 DEF Sound, SafeInv, DiskSound

LEMMA AbandonLockSound ==
    ASSUME SInv, NEW c \in Commands, AbandonLock(c)
    PROVE  Sound(c) /\ DiskSound(c)
<1>1. op[c].pc = "abandon_lock" /\ content' = content /\ stage' = stage /\ staging' = staging
  BY DEF AbandonLock, At
<1>2. SafeInv(c, op[c], entry, content, stage[c], staging[c]) /\ op[c].pc \in HoldingSteps
  BY <1>1, SafeOf DEF HoldingSteps
<1>3. Owns(c) /\ entry["lock"] = op[c].lock /\ op[c].lock # NoInode /\ op[c].lock \in Inodes
  BY <1>1, SafeOf DEF Owns, Running, HasItsLock, HoldingSteps, Operations
<1>4. content[op[c].lock].by = c
  BY <1>1, <1>2, <1>3 DEF SafeInv, SeenInv, LockedSteps
<1>5. PICK e : /\ Become(c, [op[c] EXCEPT !.pc = "catch", !.err = e, !.lock = NoInode])
               /\ \/ entry' = [entry EXCEPT !["lock"] = NoInode]
                  \/ entry' = entry /\ e = "recovery"
  BY <1>3 DEF AbandonLock, Present
<1>6. Others(c) /\ op'[c] = [op[c] EXCEPT !.pc = "catch", !.err = e, !.lock = NoInode]
  BY <1>5, BecomeFacts DEF SInv
<1>7. /\ op'[c].pc = "catch" /\ op'[c].lock = NoInode /\ op'[c].settled = op[c].settled
      /\ op'[c].changed = op[c].changed /\ op'[c].tracked = op[c].tracked /\ op'[c].result = op[c].result
      /\ op'[c].err = e
  BY <1>6, SafeOf DEF Operations
<1>8. LeftInv(c, op'[c], entry', content')
  BY <1>5, <1>7 DEF LeftInv, SInv, TypeOK, FixedNames
<1>9. Sound(c)
  BY <1>1, <1>6, <1>7, <1>8, EarlyThrow
<1>10. CASE entry' = [entry EXCEPT !["lock"] = NoInode]
  <2>1. content[entry["lock"]] # Foreign
    BY <1>3, <1>4, FilesAssumption DEF Foreign, Bytes
  <2>2. "lock" \in FixedNames
    BY DEF FixedNames
  <2> QED
    BY <1>1, <1>2, <1>9, <1>10, <2>1, <2>2, UnlinkSound
<1>11. CASE entry' = entry
  BY <1>1, <1>9, <1>11, SameDiskSound DEF SameDisk
<1> QED
  BY <1>5, <1>10, <1>11


LEMMA CreateStageFileSound ==
    ASSUME SInv, NEW c \in Commands, NEW f \in Artifacts, CreateStageFile(c, f)
    PROVE  Sound(c) /\ DiskSound(c)
<1>1. op[c].pc = StageStep[f] /\ entry' = entry
  BY DEF CreateStageFile, At
<1>2. SafeInv(c, op[c], entry, content, stage[c], staging[c])
  BY SafeOf
<1>3. /\ op[c].pc \in {"stage_receipt", "stage_hook"} /\ (op[c].pc = "stage_receipt" <=> f = "receipt")
      /\ op[c].pc \in InstallSteps /\ op[c].pc \in HoldingSteps
  BY <1>1 DEF StageStep, Artifacts, InstallSteps, HoldingSteps
<1>4. CASE /\ \E e : Throw(c, e)
           /\ staging' = staging \/ staging' = [staging EXCEPT ![c] = "littered"]
           /\ content' = content /\ stage' = stage
  <2>1. op[c].pc \in Innocent
    BY <1>3 DEF Innocent, InstallSteps, PublishedHook
  <2>2. SameDisk /\ \A d \in Commands \ {c} : staging'[d] = staging[d]
    BY <1>1, <1>4 DEF SameDisk, SInv, TypeOK
  <2>3. op[c].pc \in {"stage_receipt"} \cup StagedReceipt
    BY <1>3 DEF StagedReceipt
  <2> QED
    BY <1>4, <2>1, <2>2, <2>3, InnocentThrow, SameDiskSound
<1>5. CASE \E i \in FreeInodes :
             /\ content' = [content EXCEPT ![i] = Bytes(f, c)]
             /\ stage' = [stage EXCEPT ![c][f] = i]
             /\ Become(c, [op[c] EXCEPT !.pc = IF f = "receipt" THEN "stage_hook" ELSE "probe",
                                        !.file[f] = i, !.todo = @ \cup {f}])
             /\ staging' = staging
  <2>1. PICK i \in FreeInodes :
             /\ content' = [content EXCEPT ![i] = Bytes(f, c)]
             /\ stage' = [stage EXCEPT ![c][f] = i]
             /\ Become(c, [op[c] EXCEPT !.pc = IF f = "receipt" THEN "stage_hook" ELSE "probe",
                                        !.file[f] = i, !.todo = @ \cup {f}])
             /\ staging' = staging
    BY <1>5
  <2>2. /\ i \in Inodes /\ i # NoInode /\ \A n \in FixedNames : entry[n] # i
        /\ \A d \in Commands, g \in Artifacts : stage[d][g] # i
        /\ op[c].lock # i
    <3>1. HandleOpen(c)
      BY <1>3 DEF HandleOpen, Running, At
    <3> QED
      BY <3>1, FreeFacts
  <2>3. /\ \A j \in Inodes : content'[j] = IF j = i THEN Bytes(f, c) ELSE content[j]
        /\ \A d \in Commands, g \in Artifacts : stage'[d][g] = IF d = c /\ g = f THEN i ELSE stage[d][g]
        /\ \A d \in Commands \ {c} : stage'[d] = stage[d]
        /\ \A d \in Commands, g \in Artifacts : stage[d][g] # NoInode => stage[d][g] \in Inodes
        /\ \A n \in FixedNames : entry[n] # NoInode => entry[n] \in Inodes
    BY <2>1, <2>2 DEF SInv, TypeOK
  <2>4. /\ Others(c)
        /\ op'[c] = [op[c] EXCEPT !.pc = IF f = "receipt" THEN "stage_hook" ELSE "probe",
                                  !.file[f] = i, !.todo = @ \cup {f}]
    BY <2>1, BecomeFacts DEF SInv
  <2>5. /\ op'[c].pc = (IF f = "receipt" THEN "stage_hook" ELSE "probe") /\ op'[c].lock = op[c].lock
        /\ op'[c].settled = op[c].settled /\ op'[c].author = op[c].author
        /\ op'[c].confirmed = op[c].confirmed /\ op'[c].err = op[c].err /\ op'[c].result = op[c].result
        /\ op'[c].changed = op[c].changed /\ op'[c].tracked = op[c].tracked
        /\ \A g \in Artifacts : op'[c].file[g] = IF g = f THEN i ELSE op[c].file[g]
    BY <2>4, SafeOf DEF Operations
  <2>6. SelfInv(c, op'[c], stage'[c])
    <3>1. op'[c].pc \in {"stage_hook", "probe"} /\ (op'[c].pc = "stage_hook" <=> f = "receipt")
      BY <2>5
    <3>2. op'[c].file["receipt"] = stage'[c]["receipt"] /\ stage'[c]["receipt"] # NoInode
      BY <1>2, <1>3, <2>2, <2>3, <2>5 DEF SafeInv, SelfInv, StagedReceipt, Artifacts
    <3>3. op'[c].pc = "probe" => op'[c].file["hook"] = stage'[c]["hook"] /\ stage'[c]["hook"] # NoInode
      BY <2>2, <2>3, <2>5, <3>1 DEF Artifacts
    <3> QED
      BY <1>2, <1>3, <2>5, <3>1, <3>2, <3>3 DEF SafeInv, SelfInv, InstallSteps, RemoveSteps, CheckSteps,
        StagedReceipt, PublishedReceipt, PublishedHook, Settled, Unpublishing, Unsettled, EarlySteps
  <2>7. op'[c].pc \in {"stage_hook", "probe"}
    BY <2>5
  <2>8. content'[op[c].lock] = Bytes("lock", c)
    <3>1. content[op[c].lock] = Bytes("lock", c) /\ op[c].lock \in Inodes
      BY <1>3, OwnLock, SafeOf DEF Operations
    <3> QED
      BY <2>2, <2>3, <3>1
  <2>9. SeenInv(c, op'[c], entry', content')
    BY <2>5, <2>7, <2>8 DEF SeenInv, Bytes, InstallSteps, RemoveSteps, CheckSteps,
      PublishedReceipt, PublishedHook, Unpublishing, TracksHook, DropsReceipt
  <2>10. LeftInv(c, op'[c], entry', content')
    BY <1>3, <2>5, OwnLock DEF LeftInv
  <2>11. Install(c) /\ op'[c].result = "none"
    BY <1>2, <1>3, <2>5 DEF SafeInv, SelfInv
  <2>12. ChangesAreKnown => ChangesInv(c, op'[c], staging'[c])
    BY <1>2, <1>3, <2>1, <2>5, <2>7, <2>11 DEF SafeInv, ChangesInv, StagedReceipt, Unpublishing, Ending, Refusals
  <2>13. ASSUME NEW d \in Commands \ {c} PROVE LeftInv(d, op[d], entry', content')
    <3>1. LeftInv(d, op[d], entry, content)
      BY SafeOf DEF SafeInv
    <3>2. entry["lock"] # NoInode => content'[entry["lock"]] = content[entry["lock"]]
      BY <2>2, <2>3 DEF FixedNames
    <3> QED
      BY <1>1, <3>1, <3>2 DEF LeftInv
  <2>14. ApartInv(entry, content, stage)
    BY DEF SInv
  <2>15. ApartInv(entry', content', stage')
    <3>1. \A d, e \in Commands, g, h \in Artifacts :
             stage'[d][g] # NoInode /\ stage'[d][g] = stage'[e][h] => d = e /\ g = h
      BY <2>2, <2>3, <2>14 DEF ApartInv
    <3>2. \A n \in FixedNames, d \in Commands, g \in Artifacts :
             stage'[d][g] # NoInode /\ entry[n] = stage'[d][g] => n = g
      BY <2>2, <2>3, <2>14 DEF ApartInv
    <3>3. \A d \in Commands, g \in Artifacts : stage'[d][g] # NoInode => content'[stage'[d][g]] = Bytes(g, d)
      BY <2>2, <2>3, <2>14 DEF ApartInv
    <3>4. \A m, n \in FixedNames : entry[m] # NoInode /\ entry[m] = entry[n] => m = n
      BY <2>14 DEF ApartInv
    <3> QED
      BY <1>1, <3>1, <3>2, <3>3, <3>4 DEF ApartInv
  <2> QED
    BY <1>1, <1>3, <2>1, <2>3, <2>4, <2>6, <2>9, <2>10, <2>12, <2>13, <2>15 DEF Sound, SafeInv, DiskSound
<1> QED
  BY <1>1, <1>4, <1>5 DEF CreateStageFile

LEMMA LinkSound ==
    ASSUME SInv, NEW c \in Commands, NEW f \in Artifacts, Link(c, f)
    PROVE  Sound(c) /\ DiskSound(c)
<1>1. op[c].pc = LinkStep[f] /\ content' = content /\ stage' = stage /\ staging' = staging
  BY DEF Link, At
<1>2. SafeInv(c, op[c], entry, content, stage[c], staging[c])
  BY SafeOf
<1>3. /\ op[c].pc \in {"link_receipt", "link_hook"} /\ (op[c].pc = "link_receipt" <=> f = "receipt")
      /\ op[c].pc \in InstallSteps /\ op[c].pc \in HoldingSteps /\ f \in FixedNames
      /\ ConfirmStep[f] \in {"confirm_receipt", "confirm_hook"} /\ InspectStep[f] \in {"inspect_receipt", "inspect_hook"}
      /\ (ConfirmStep[f] = "confirm_receipt" <=> f = "receipt") /\ (InspectStep[f] = "inspect_receipt" <=> f = "receipt")
  BY <1>1 DEF LinkStep, ConfirmStep, InspectStep, Artifacts, InstallSteps, HoldingSteps, FixedNames
<1>4. /\ op[c].author = c /\ op[c].file["hook"] = stage[c]["hook"] /\ stage[c]["hook"] # NoInode
      /\ op[c].pc = "link_receipt" => /\ op[c].file["receipt"] = stage[c]["receipt"] /\ stage[c]["receipt"] # NoInode
                                      /\ op[c].settled = {} /\ op[c].changed = {}
      /\ op[c].pc = "link_hook" => /\ op[c].settled = {"receipt"} /\ Knows(op[c], "receipt", entry, content)
                                   /\ op[c].changed \subseteq {"receipt"}
      /\ op[c].result = "none" /\ Install(c) /\ op[c].err = "none" /\ op[c].confirmed
  BY <1>2, <1>3 DEF SafeInv, SelfInv, SeenInv, StagedReceipt, PublishedReceipt, Unsettled, Settled
<1>5. op[c].file[f] = stage[c][f] /\ stage[c][f] # NoInode
  BY <1>3, <1>4 DEF Artifacts
<1>6. ApartInv(entry, content, stage)
  BY DEF SInv
<1>7. content[stage[c][f]] = Bytes(f, c)
  BY <1>5, <1>6 DEF ApartInv
<1>8. \E l \in {ConfirmStep[f], InspectStep[f]} :
         \/ /\ ~Present(f) /\ entry' = [entry EXCEPT ![f] = op[c].file[f]]
            /\ Become(c, [op[c] EXCEPT !.pc = l, !.changed = @ \cup {f}])
         \/ /\ entry' = entry /\ l = InspectStep[f] /\ Go(c, l)
  BY DEF Link, NoReplace
<1>9. PICK l \in {ConfirmStep[f], InspectStep[f]} :
         \/ /\ ~Present(f) /\ entry' = [entry EXCEPT ![f] = op[c].file[f]]
            /\ Become(c, [op[c] EXCEPT !.pc = l, !.changed = @ \cup {f}])
         \/ /\ entry' = entry /\ l = InspectStep[f] /\ Go(c, l)
  BY <1>8
<1>10. l \in {"inspect_receipt", "confirm_receipt", "inspect_hook", "confirm_hook"}
       /\ (f = "receipt" <=> l \in {"inspect_receipt", "confirm_receipt"})
  BY <1>3, <1>9
<1>11. CASE /\ ~Present(f) /\ entry' = [entry EXCEPT ![f] = op[c].file[f]]
            /\ Become(c, [op[c] EXCEPT !.pc = l, !.changed = @ \cup {f}])
  <2>1. Others(c) /\ op'[c] = [op[c] EXCEPT !.pc = l, !.changed = @ \cup {f}]
    BY <1>11, BecomeFacts DEF SInv
  <2>2. /\ op'[c].pc = l /\ op'[c].lock = op[c].lock /\ op'[c].file = op[c].file
        /\ op'[c].settled = op[c].settled /\ op'[c].author = op[c].author
        /\ op'[c].confirmed = op[c].confirmed /\ op'[c].err = op[c].err /\ op'[c].result = op[c].result
        /\ op'[c].changed = op[c].changed \cup {f} /\ op'[c].tracked = op[c].tracked
    BY <2>1, SafeOf DEF Operations
  <2>3. \A n \in FixedNames : entry'[n] = IF n = f THEN stage[c][f] ELSE entry[n]
    BY <1>3, <1>5, <1>11 DEF SInv, TypeOK
  <2>4. Knows(op'[c], f, entry', content')
    BY <1>1, <1>3, <1>4, <1>5, <1>7, <2>2, <2>3 DEF Knows
  <2>5. f # "receipt" => f = "hook" /\ Knows(op'[c], "receipt", entry', content')
    BY <1>1, <1>3, <1>4, <2>2, <2>3 DEF Knows, Artifacts, FixedNames
  <2>6. SelfInv(c, op'[c], stage'[c])
    <3>1. op'[c].changed \subseteq {"receipt", "hook"} /\ (f = "receipt" => op'[c].changed \subseteq {"receipt"})
      BY <1>3, <1>4, <2>2 DEF Artifacts
    <3>2. l = "inspect_receipt" => op'[c].file["receipt"] = stage'[c]["receipt"] /\ stage'[c]["receipt"] # NoInode
      BY <1>1, <1>5, <1>10, <2>2
    <3> QED
      BY <1>1, <1>3, <1>4, <1>10, <2>2, <3>1, <3>2 DEF SelfInv, InstallSteps, RemoveSteps, CheckSteps,
        StagedReceipt, PublishedReceipt, PublishedHook, Settled, Unpublishing, Unsettled, EarlySteps
  <2>7. content'[op'[c].lock] = Bytes("lock", c)
    BY <1>1, <1>3, <2>2, OwnLock
  <2>8. SeenInv(c, op'[c], entry', content')
    <3>1. Knows(op'[c], "receipt", entry', content')
      BY <2>4, <2>5
    <3>2. l \in {"inspect_hook", "confirm_hook"} => Knows(op'[c], "hook", entry', content')
      BY <1>10, <2>4, <2>5
    <3>3. (l = "inspect_receipt" => entry'["receipt"] = op'[c].file["receipt"])
          /\ (l = "inspect_hook" => entry'["hook"] = op'[c].file["hook"])
      BY <3>1, <3>2 DEF Knows
    <3> QED
      BY <1>10, <2>2, <2>7, <3>1, <3>2, <3>3 DEF SeenInv, Bytes, TracksHook, DropsReceipt, PublishedHook
  <2>9. LeftInv(c, op'[c], entry', content')
    BY <1>3, <2>2, OwnLock DEF LeftInv
  <2>10. ChangesAreKnown => ChangesInv(c, op'[c], staging'[c])
    BY <1>1, <1>2, <1>3, <1>4, <1>10, <2>2 DEF SafeInv, ChangesInv, StagedReceipt, Unpublishing, Ending, Refusals
  <2>11. ASSUME NEW d \in Commands \ {c} PROVE LeftInv(d, op[d], entry', content')
    <3>1. LeftInv(d, op[d], entry, content)
      BY SafeOf DEF SafeInv
    <3>2. entry'["lock"] = entry["lock"]
      BY <2>3 DEF FixedNames, Artifacts
    <3> QED
      BY <1>1, <3>1, <3>2 DEF LeftInv
  <2>12. ApartInv(entry', content', stage')
    BY <1>1, <1>3, <1>5, <1>6, <2>3 DEF ApartInv
  <2>13. \A n \in FixedNames : Present(n) => entry'[n] = entry[n]
    BY <1>11, <2>3
  <2> QED
    BY <1>1, <1>3, <2>1, <2>6, <2>8, <2>9, <2>10, <2>11, <2>12, <2>13 DEF Sound, SafeInv, DiskSound
<1>12. CASE entry' = entry /\ l = InspectStep[f] /\ Go(c, l)
  <2>1. /\ Others(c) /\ Alike(op[c], op'[c]) /\ op'[c].pc = l
        /\ op'[c].err = op[c].err /\ op'[c].result = op[c].result
    BY <1>12, GoAlike DEF SInv
  <2>2. l \in {"inspect_receipt", "inspect_hook"} /\ (l = "inspect_receipt" <=> f = "receipt")
    BY <1>3, <1>12
  <2>3. SelfInv(c, op'[c], stage'[c])
    BY <1>1, <1>3, <1>4, <2>1, <2>2 DEF SelfInv, Alike, InstallSteps, RemoveSteps, CheckSteps,
      StagedReceipt, PublishedReceipt, PublishedHook, Settled, Unpublishing, Unsettled, EarlySteps
  <2>4. content'[op'[c].lock] = Bytes("lock", c)
    BY <1>1, <1>3, <2>1, OwnLock DEF Alike
  <2>5. l = "inspect_hook" => Knows(op'[c], "receipt", entry', content')
    BY <1>1, <1>3, <1>4, <1>12, <2>1, <2>2 DEF Knows, Alike
  <2>6. SeenInv(c, op'[c], entry', content')
    BY <1>3, <1>4, <2>1, <2>2, <2>4, <2>5 DEF SeenInv, Alike, Bytes, TracksHook, DropsReceipt, PublishedHook,
      PublishedReceipt, Unpublishing
  <2>7. LeftInv(c, op'[c], entry', content')
    BY <1>3, <2>1, OwnLock DEF LeftInv, Alike
  <2>8. ChangesAreKnown => ChangesInv(c, op'[c], staging'[c])
    BY <1>1, <1>2, <1>3, <1>4, <2>1, <2>2 DEF SafeInv, ChangesInv, Alike, StagedReceipt, Unpublishing, Ending,
      Refusals
  <2>9. DiskSound(c)
    BY <1>1, <1>12, SameDiskSound DEF SameDisk
  <2> QED
    BY <2>1, <2>3, <2>6, <2>7, <2>8, <2>9 DEF Sound, SafeInv
<1> QED
  BY <1>9, <1>11, <1>12

LEMMA UnstageSound ==
    ASSUME SInv, NEW c \in Commands, NEW f \in Artifacts, Unstage(c, f)
    PROVE  Sound(c) /\ DiskSound(c)
<1>1. op[c].pc = UnstageStep[f] /\ entry' = entry /\ content' = content /\ staging' = staging
      /\ stage' \in {stage, [stage EXCEPT ![c][f] = NoInode]}
  BY DEF Unstage, At
<1>2. SafeInv(c, op[c], entry, content, stage[c], staging[c])
  BY SafeOf
<1>3. op[c].pc \in InstallSteps /\ op[c].pc \in HoldingSteps /\ op[c].pc # "verify_staging"
  BY <1>1, PublishKnown DEF HoldingSteps
<1>4. \A d \in Commands, g \in Artifacts : stage'[d][g] \in {stage[d][g], NoInode}
                                           /\ (d # c \/ g # f => stage'[d][g] = stage[d][g])
  BY <1>1 DEF SInv, TypeOK
<1>5. DiskSound(c)
  <2>1. \A d \in Commands \ {c} : stage'[d] = stage[d] /\ LeftInv(d, op[d], entry, content)
    BY <1>1, SafeOf DEF SInv, TypeOK, SafeInv
  <2>2. ApartInv(entry, content, stage)
    BY DEF SInv
  <2>3. ApartInv(entry', content', stage')
    BY <1>1, <1>4, <2>2 DEF ApartInv
  <2> QED
    BY <1>1, <2>1, <2>3 DEF DiskSound
<1>6. CASE Go(c, SettleStep[f])
  <2>1. /\ Others(c) /\ Alike(op[c], op'[c]) /\ op'[c].pc = SettleStep[f]
        /\ op'[c].err = op[c].err /\ op'[c].result = op[c].result
    BY <1>6, GoAlike DEF SInv
  <2>2. \/ f = "receipt" /\ op[c].pc = "unstage_receipt" /\ op'[c].pc = "settle_receipt"
        \/ f = "hook" /\ op[c].pc = "unstage_hook" /\ op'[c].pc = "settle_hook"
    BY <1>1, <2>1 DEF UnstageStep, SettleStep, Artifacts
  <2>3. f = "receipt" => stage'[c]["hook"] = stage[c]["hook"]
    BY <1>4 DEF Artifacts
  <2>4. SelfInv(c, op'[c], stage'[c])
    BY <1>2, <2>1, <2>2, <2>3 DEF SafeInv, SelfInv, Alike, InstallSteps, RemoveSteps, CheckSteps,
      StagedReceipt, PublishedReceipt, PublishedHook, Settled, Unpublishing, Unsettled, EarlySteps
  <2>5. SeenInv(c, op'[c], entry', content')
    BY <1>1, <1>2, <2>1, <2>2 DEF SafeInv, SeenInv, Knows, Alike, LockedSteps, InstallSteps, RemoveSteps,
      CheckSteps, PublishedReceipt, PublishedHook, Unpublishing, TracksHook, DropsReceipt
  <2>6. LeftInv(c, op'[c], entry', content')
    BY <1>1, <1>2, <2>1 DEF SafeInv, LeftInv, Alike
  <2>7. Install(c) /\ op'[c].result = "none"
    BY <1>2, <2>1, <2>2, <1>3 DEF SafeInv, SelfInv
  <2>8. ChangesAreKnown => ChangesInv(c, op'[c], staging'[c])
    BY <1>1, <1>2, <2>1, <2>2, <2>7 DEF SafeInv, ChangesInv, Alike, StagedReceipt, Unpublishing, Ending, Refusals
  <2> QED
    BY <1>5, <2>1, <2>4, <2>5, <2>6, <2>8 DEF Sound, SafeInv
<1>7. CASE Throw(c, "recovery")
  BY <1>1, <1>3, <1>5, <1>7, ThrowSound
<1> QED
  BY <1>6, <1>7 DEF Unstage


\* What it unlinks is the file it knows, and so nobody else's.
LEMMA KnownIsOwn ==
    ASSUME NEW r, NEW f, Knows(r, f, entry, content), f \in Artifacts
    PROVE  content[entry[f]] # Foreign
  BY DEF Knows, Foreign, Bytes, Artifacts

LEMMA RollbackUnlinkSound ==
    ASSUME SInv, NEW c \in Commands, RollbackUnlink(c)
    PROVE  Sound(c) /\ DiskSound(c)
<1>1. op[c].pc = "rollback_unlink" /\ content' = content /\ stage' = stage /\ staging' = staging
  BY DEF RollbackUnlink, Unlink, At
<1>2. \/ entry' = [entry EXCEPT !["receipt"] = NoInode] \/ entry' = entry
  BY DEF RollbackUnlink, Unlink
<1>3. Knows(op[c], "receipt", entry, content) /\ op[c].pc \in HoldingSteps
  BY <1>1, SafeOf DEF SafeInv, SeenInv, PublishedReceipt, HoldingSteps, InstallSteps
<1>4. content[entry["receipt"]] # Foreign /\ "receipt" \in FixedNames
  BY <1>3, KnownIsOwn DEF Artifacts, FixedNames
<1>5. DiskSound(c)
  BY <1>1, <1>2, <1>3, <1>4, UnlinkSound, SameDiskSound DEF SameDisk
<1>6. entry'["lock"] = entry["lock"]
  BY <1>2 DEF SInv, TypeOK, FixedNames, Artifacts
<1>7. \E e \in {"none", "recovery"} : RolledBack(c, e)
  BY DEF RollbackUnlink, Unlink
<1> QED
  BY <1>1, <1>5, <1>6, <1>7, RolledBackSound

LEMMA UnpublishUnlinkSound ==
    ASSUME SInv, NEW c \in Commands, UnpublishUnlink(c)
    PROVE  Sound(c) /\ DiskSound(c)
<1>1. op[c].pc = "unpublish_unlink" /\ content' = content /\ stage' = stage /\ staging' = staging
  BY DEF UnpublishUnlink, Unlink, At
<1>2. \/ entry' = [entry EXCEPT !["receipt"] = NoInode] \/ entry' = entry
  BY DEF UnpublishUnlink, Unlink
<1>3. Knows(op[c], "receipt", entry, content) /\ op[c].pc \in HoldingSteps /\ op[c].pc \in Unpublishing
  BY <1>1, SafeOf DEF SafeInv, SeenInv, Unpublishing, HoldingSteps
<1>4. content[entry["receipt"]] # Foreign /\ "receipt" \in FixedNames
  BY <1>3, KnownIsOwn DEF Artifacts, FixedNames
<1>5. DiskSound(c)
  BY <1>1, <1>2, <1>3, <1>4, UnlinkSound, SameDiskSound DEF SameDisk
<1>6. entry'["lock"] = entry["lock"]
  BY <1>2 DEF SInv, TypeOK, FixedNames, Artifacts
<1>7. Unpublished(c) \/ NotUnpublished(c)
  BY DEF UnpublishUnlink, Unlink
<1> QED
  BY <1>1, <1>3, <1>5, <1>6, <1>7, UnpublishedSound

LEMMA DropUnlinkSound ==
    ASSUME SInv, NEW c \in Commands, NEW f \in Artifacts, DropUnlink(c, f)
    PROVE  Sound(c) /\ DiskSound(c)
<1>1. op[c].pc = DropUnlinkStep[f] /\ content' = content /\ stage' = stage /\ staging' = staging
  BY DEF DropUnlink, Unlink, At
<1>2. SafeInv(c, op[c], entry, content, stage[c], staging[c])
  BY SafeOf
<1>3. /\ op[c].pc \in {"drop_receipt_unlink", "drop_hook_unlink"} /\ op[c].pc \in RemoveSteps
      /\ op[c].pc \in HoldingSteps /\ op[c].pc \in Innocent
      /\ (f = "hook" /\ op[c].pc \in TracksHook) \/ (f = "receipt" /\ op[c].pc \in DropsReceipt)
  BY <1>1 DEF DropUnlinkStep, Artifacts, RemoveSteps, HoldingSteps, Innocent, PublishedHook, TracksHook, DropsReceipt
<1>4. Knows(op[c], f, entry, content)
  BY <1>2, <1>3 DEF SafeInv, SeenInv
<1>5. content[entry[f]] # Foreign /\ f \in FixedNames
  BY <1>4, KnownIsOwn DEF FixedNames
<1>6. CASE Throw(c, "recovery") /\ entry' = entry
  BY <1>1, <1>3, <1>6, InnocentThrow, SameDiskSound DEF SameDisk
<1>7. CASE /\ entry' = [entry EXCEPT ![f] = NoInode]
           /\ \/ Become(c, [[op[c] EXCEPT !.pc = DroppedStep[f]] EXCEPT !.changed = @ \cup {f}])
              \/ Become(c, [[op[c] EXCEPT !.pc = "catch", !.err = "recovery"] EXCEPT !.changed = @ \cup {f}])
  <2>1. /\ Others(c)
        /\ \/ op'[c] = [[op[c] EXCEPT !.pc = DroppedStep[f]] EXCEPT !.changed = @ \cup {f}]
           \/ op'[c] = [[op[c] EXCEPT !.pc = "catch", !.err = "recovery"] EXCEPT !.changed = @ \cup {f}]
    BY <1>7, BecomeFacts DEF SInv
  <2>2. DroppedStep[f] \in {"dropped_hook", "dropped_receipt"}
    BY DEF DroppedStep, Artifacts
  <2>3. /\ op'[c].lock = op[c].lock /\ op'[c].file = op[c].file
        /\ op'[c].settled = op[c].settled /\ op'[c].author = op[c].author
        /\ op'[c].confirmed = op[c].confirmed /\ op'[c].result = op[c].result
        /\ op'[c].tracked = op[c].tracked
        /\ \/ op'[c].pc \in {"dropped_hook", "dropped_receipt"} /\ op'[c].err = op[c].err
           \/ op'[c].pc = "catch" /\ op'[c].err = "recovery"
    BY <2>1, <2>2, SafeOf DEF Operations
  <2>4. ~Install(c) /\ op'[c].result = "none"
    BY <1>2, <1>3, <2>3 DEF SafeInv, SelfInv
  <2>5. SelfInv(c, op'[c], stage'[c])
    BY <1>2, <1>3, <2>3, <2>4 DEF SafeInv, SelfInv, InstallSteps, RemoveSteps, CheckSteps,
      StagedReceipt, PublishedReceipt, PublishedHook, Settled, Unpublishing, Unsettled, EarlySteps
  <2>6. content'[op'[c].lock] = Bytes("lock", c)
    BY <1>1, <1>3, <2>3, OwnLock
  <2>7. SeenInv(c, op'[c], entry', content')
    BY <2>3, <2>4, <2>6 DEF SeenInv, Bytes, InstallSteps, RemoveSteps, CheckSteps,
      PublishedReceipt, PublishedHook, Unpublishing, TracksHook, DropsReceipt
  <2>8. LeftInv(c, op'[c], entry', content')
    BY <1>3, <2>3, OwnLock DEF LeftInv
  <2>9. ChangesAreKnown => ChangesInv(c, op'[c], staging'[c])
    BY <1>1, <1>2, <2>3, <2>4 DEF SafeInv, ChangesInv, StagedReceipt, Ending, Refusals
  <2>10. DiskSound(c)
    BY <1>1, <1>3, <1>5, <1>7, UnlinkSound
  <2> QED
    BY <2>1, <2>5, <2>7, <2>8, <2>9, <2>10 DEF Sound, SafeInv
<1> QED
  BY <1>6, <1>7 DEF DropUnlink, Unlink

LEMMA CleanupSound ==
    ASSUME SInv, NEW c \in Commands, Cleanup(c)
    PROVE  Sound(c) /\ DiskSound(c)
<1>1. op[c].pc = "cleanup" /\ entry' = entry /\ content' = content
  BY DEF Cleanup, At
<1>2. SafeInv(c, op[c], entry, content, stage[c], staging[c])
  BY SafeOf
<1>3. \E gone \in SUBSET op[c].todo, b \in BOOLEAN :
         /\ stage' = [stage EXCEPT ![c] = [f \in Artifacts |-> IF f \in gone THEN NoInode ELSE @[f]]]
         /\ Become(c, [op[c] EXCEPT !.pc = NextCleanup(c), !.confirmed = b])
         /\ b => op[c].confirmed
         /\ b /\ op[c].tracked => staging' = [staging EXCEPT ![c] = "none"]
         /\ staging' \in {staging, [staging EXCEPT ![c] = "none"]}
  <2>1. op[c].confirmed \in BOOLEAN
    BY SafeOf DEF Operations
  <2>2. PICK gone \in SUBSET op[c].todo :
           /\ stage' = [stage EXCEPT ![c] = [f \in Artifacts |-> IF f \in gone THEN NoInode ELSE @[f]]]
           /\ \/ /\ staging' = IF op[c].tracked THEN [staging EXCEPT ![c] = "none"] ELSE staging
                 /\ Become(c, [op[c] EXCEPT !.pc = NextCleanup(c), !.confirmed = @ /\ gone = op[c].todo])
              \/ /\ Become(c, [op[c] EXCEPT !.pc = NextCleanup(c), !.confirmed = FALSE])
                 /\ staging' = staging
    BY DEF Cleanup
  <2>3. CASE /\ staging' = IF op[c].tracked THEN [staging EXCEPT ![c] = "none"] ELSE staging
             /\ Become(c, [op[c] EXCEPT !.pc = NextCleanup(c), !.confirmed = @ /\ gone = op[c].todo])
    <3>1. PICK b \in BOOLEAN : b = (op[c].confirmed /\ gone = op[c].todo)
      OBVIOUS
    <3>2. Become(c, [op[c] EXCEPT !.pc = NextCleanup(c), !.confirmed = b])
      BY <2>3, <3>1
    <3>3. b => op[c].confirmed
      BY <2>1, <3>1
    <3> QED
      BY <2>2, <2>3, <3>2, <3>3
  <2>4. CASE /\ Become(c, [op[c] EXCEPT !.pc = NextCleanup(c), !.confirmed = FALSE])
             /\ staging' = staging
    <3>1. FALSE \in BOOLEAN /\ (FALSE => op[c].confirmed)
      OBVIOUS
    <3> QED
      BY <2>2, <2>4, <3>1
  <2> QED
    BY <2>2, <2>3, <2>4
<1>4. PICK gone \in SUBSET op[c].todo, b \in BOOLEAN :
         /\ stage' = [stage EXCEPT ![c] = [f \in Artifacts |-> IF f \in gone THEN NoInode ELSE @[f]]]
         /\ Become(c, [op[c] EXCEPT !.pc = NextCleanup(c), !.confirmed = b])
         /\ b => op[c].confirmed
         /\ b /\ op[c].tracked => staging' = [staging EXCEPT ![c] = "none"]
         /\ staging' \in {staging, [staging EXCEPT ![c] = "none"]}
  BY <1>3
<1>5. /\ \A d \in Commands, g \in Artifacts : stage'[d][g] \in {stage[d][g], NoInode}
      /\ \A d \in Commands \ {c} : stage'[d] = stage[d] /\ staging'[d] = staging[d]
      /\ staging'[c] \in {staging[c], "none"}
      /\ b /\ op[c].tracked => staging'[c] = "none"
  BY <1>4 DEF SInv, TypeOK
<1>6. DiskSound(c)
  <2>1. \A d \in Commands : LeftInv(d, op[d], entry, content)
    BY SafeOf DEF SafeInv
  <2>2. ApartInv(entry, content, stage)
    BY DEF SInv
  <2>3. ApartInv(entry', content', stage')
    BY <1>1, <1>5, <2>2 DEF ApartInv
  <2> QED
    BY <1>1, <1>5, <2>1, <2>3 DEF DiskSound
<1>7. Others(c) /\ op'[c] = [op[c] EXCEPT !.pc = NextCleanup(c), !.confirmed = b]
  BY <1>4, BecomeFacts DEF SInv
<1>8. /\ op'[c].pc \in {"release", "report"} /\ (op'[c].pc = "report" => op[c].lock = NoInode)
      /\ op'[c].lock = op[c].lock /\ op'[c].settled = op[c].settled
      /\ op'[c].err = op[c].err /\ op'[c].result = op[c].result
      /\ op'[c].changed = op[c].changed /\ op'[c].tracked = op[c].tracked
  BY <1>7, SafeOf DEF Operations, NextCleanup
<1>9. op'[c].confirmed = b
  BY <1>7, SafeOf DEF Operations
<1>10. op'[c].result = "none"
  BY <1>1, <1>2, <1>8 DEF SafeInv, SelfInv
<1>11. SelfInv(c, op'[c], stage'[c])
  BY <1>8, <1>10 DEF SelfInv, InstallSteps, RemoveSteps, CheckSteps,
    StagedReceipt, PublishedReceipt, PublishedHook, Settled, Unpublishing, Unsettled, EarlySteps
<1>12. SeenInv(c, op'[c], entry', content')
  BY <1>1, <1>2, <1>8 DEF SafeInv, SeenInv, LockedSteps, InstallSteps, RemoveSteps, CheckSteps,
    PublishedReceipt, PublishedHook, Unpublishing, TracksHook, DropsReceipt
<1>13. op'[c].confirmed => op[c].confirmed
  BY <1>4, <1>9
<1>14. LeftInv(c, op'[c], entry', content')
  BY <1>1, <1>2, <1>8, <1>13 DEF SafeInv, LeftInv
<1>15. op'[c].confirmed => staging'[c] = "none" \/ (~op[c].tracked /\ staging'[c] \in {staging[c], "none"})
  BY <1>5, <1>9
<1>16. ChangesAreKnown => ChangesInv(c, op'[c], staging'[c])
  BY <1>1, <1>2, <1>5, <1>8, <1>10, <1>13, <1>15 DEF SafeInv, ChangesInv, StagedReceipt, Unpublishing, Ending,
    Refusals
<1> QED
  BY <1>6, <1>7, <1>11, <1>12, <1>14, <1>16 DEF Sound, SafeInv

LEMMA ReleaseUnlinkSound ==
    ASSUME SInv, NEW c \in Commands, ReleaseUnlink(c)
    PROVE  Sound(c) /\ DiskSound(c)
<1>1. op[c].pc = "release_unlink" /\ content' = content /\ stage' = stage /\ staging' = staging
  BY DEF ReleaseUnlink, Unlink, At
<1>2. /\ entry["lock"] = op[c].lock /\ content[op[c].lock] = Bytes("lock", c) /\ op[c].pc \in HoldingSteps
      /\ "lock" \in FixedNames
  BY <1>1, OwnLock DEF HoldingSteps, FixedNames
<1>3. \/ entry' = [entry EXCEPT !["lock"] = NoInode] \/ entry' = entry
  BY DEF ReleaseUnlink, Unlink
<1>4. content[entry["lock"]] # Foreign
  BY <1>2 DEF Foreign, Bytes
<1>5. DiskSound(c)
  BY <1>1, <1>2, <1>3, <1>4, UnlinkSound, SameDiskSound DEF SameDisk
<1>6. CASE Released(c, FALSE)
  <2>1. /\ Others(c) /\ op'[c].pc = "report" /\ op'[c].lock = NoInode
        /\ op'[c].settled = op[c].settled /\ op'[c].err = op[c].err /\ op'[c].result = op[c].result
        /\ op'[c].changed = op[c].changed /\ op'[c].tracked = op[c].tracked /\ op'[c].confirmed = FALSE
    BY <1>6, ReleasedAlike
  <2> QED
    BY <1>1, <1>5, <2>1, ReleaseSound
<1>7. CASE /\ entry' = [entry EXCEPT !["lock"] = NoInode]
           /\ Become(c, [op[c] EXCEPT !.pc = "release_confirm", !.lock = NoInode])
  <2>1. Others(c) /\ op'[c] = [op[c] EXCEPT !.pc = "release_confirm", !.lock = NoInode]
    BY <1>7, BecomeFacts DEF SInv
  <2>2. /\ op'[c].pc = "release_confirm" /\ op'[c].lock = NoInode
        /\ op'[c].settled = op[c].settled /\ op'[c].err = op[c].err /\ op'[c].result = op[c].result
        /\ op'[c].changed = op[c].changed /\ op'[c].tracked = op[c].tracked
        /\ op'[c].confirmed = op[c].confirmed
    BY <2>1, SafeOf DEF Operations
  <2>3. entry'["lock"] = NoInode
    BY <1>7 DEF SInv, TypeOK, FixedNames
  <2> QED
    BY <1>1, <1>5, <2>1, <2>2, <2>3, ReleaseSound
<1> QED
  BY <1>6, <1>7 DEF ReleaseUnlink, Unlink


-----------------------------------------------------------------------------
(* Every step preserves the invariant.                                     *)

LEMMA StepSound ==
    ASSUME SInv, NEW c \in Commands, Step(c)
    PROVE  Sound(c) /\ DiskSound(c)
<1>1. ASSUME Sound(c), UNCHANGED disk PROVE Sound(c) /\ DiskSound(c)
  BY <1>1, SameDiskSound DEF disk, SameDisk
<1>2. CASE MakeStaging(c) \/ Probe(c)
  <2>1. SameDisk /\ \A d \in Commands \ {c} : staging'[d] = staging[d]
    BY <1>2 DEF MakeStaging, Probe, SameDisk, SInv, TypeOK
  <2> QED
    BY <1>2, <2>1, MakeStagingSound, ProbeSound, SameDiskSound
<1>3. CASE \/ ObserveFirst(c) \/ CheckInstallable(c) \/ VerifyStaging(c)
           \/ AbortCheck(c) \/ RollbackCheck(c) \/ Survey(c) \/ TrackReceipt(c) \/ TrackHook(c)
           \/ CheckInactive(c) \/ CheckVacant(c) \/ Catch(c)
           \/ ReleaseInspect(c) \/ ReleaseConfirm(c) \/ ReportOutcome(c)
  <2>1. UNCHANGED disk
    BY <1>3 DEF ObserveFirst, CheckInstallable, VerifyStaging, AbortCheck, RollbackCheck, Survey, TrackReceipt,
      TrackHook, CheckInactive, CheckVacant, Catch, ReleaseInspect, ReleaseConfirm, ReportOutcome
  <2> QED
    BY <1>1, <1>3, <2>1, ObserveFirstSound, CheckInstallableSound, VerifyStagingSound, AbortCheckSound,
      RollbackCheckSound, SurveySound, TrackReceiptSound, TrackHookSound, CheckInactiveSound, CheckVacantSound,
      CatchSound, ReleaseInspectSound, ReleaseConfirmSound, ReportOutcomeSound
<1>4. CASE RollbackInspect(c) \/ UnpublishInspect(c)
  <2>1. UNCHANGED disk
    BY <1>4 DEF RollbackInspect, UnpublishInspect, Inspect
  <2> QED
    BY <1>1, <1>4, <2>1, RollbackInspectSound, UnpublishInspectSound
<1>5. ASSUME NEW f \in Artifacts,
             \/ GuardPublish(c, f) \/ InspectPublish(c, f) \/ ConfirmPublish(c, f) \/ SettlePublish(c, f)
             \/ GuardDrop(c, f) \/ DropInspect(c, f) \/ SettleDrop(c, f)
      PROVE  Sound(c) /\ DiskSound(c)
  <2>1. UNCHANGED disk
    BY <1>5 DEF GuardPublish, InspectPublish, ConfirmPublish, SettlePublish, GuardDrop, DropInspect, Inspect,
      SettleDrop
  <2> QED
    BY <1>1, <1>5, <2>1, GuardPublishSound, InspectPublishSound, ConfirmPublishSound, SettlePublishSound,
      GuardDropSound, DropInspectSound, SettleDropSound
<1> QED
  BY <1>2, <1>3, <1>4, <1>5, CreateLockSound, WriteLockSound, AbandonLockSound, CreateStageFileSound, LinkSound,
    UnstageSound, RollbackUnlinkSound, UnpublishUnlinkSound, DropUnlinkSound, CleanupSound, ReleaseUnlinkSound
  DEF Step

\* A command that does not own the lock relies on nothing it saw.
LEMMA NothingSeen ==
    ASSUME NEW d \in Commands, ~Owns(d), HasItsLock(op[d]), NEW e, NEW ct
    PROVE  SeenInv(d, op[d], e, ct)
<1>1. op[d].pc \in {"done", "crashed"} \/ op[d].lock = NoInode
  BY DEF Owns, Running
<1>2. CASE op[d].pc \in {"done", "crashed"}
  BY <1>2 DEF SeenInv, LockedSteps, InstallSteps, RemoveSteps, CheckSteps,
    PublishedReceipt, PublishedHook, Unpublishing, TracksHook, DropsReceipt
<1>3. CASE op[d].lock = NoInode
  <2>1. op[d].pc \notin HoldingSteps /\ (op[d].pc = "catch" => op[d].settled = {})
    BY <1>3 DEF HasItsLock
  <2> QED
    BY <1>3, <2>1 DEF SeenInv, HoldingSteps, InstallSteps, RemoveSteps, CheckSteps,
      PublishedReceipt, PublishedHook, Unpublishing, TracksHook, DropsReceipt
<1> QED
  BY <1>1, <1>2, <1>3

LEMMA CommandKeeps ==
    ASSUME SInv, TypeOK', LockInv', NEW c \in Commands, Sound(c), DiskSound(c)
    PROVE  SInv'
<1>1. ASSUME NEW d \in Commands PROVE SafeInv(d, op'[d], entry', content', stage'[d], staging'[d])
  <2>1. CASE d = c
    BY <2>1 DEF Sound
  <2>2. CASE d # c
    <3>1. /\ op'[d] = op[d] /\ stage'[d] = stage[d] /\ staging'[d] = staging[d]
          /\ LeftInv(d, op[d], entry', content')
      BY <1>1, <2>2 DEF Sound, Others, DiskSound
    <3>2. SafeInv(d, op[d], entry, content, stage[d], staging[d]) /\ HasItsLock(op[d])
      BY <1>1, SafeOf
    <3>3. ASSUME Owns(d) PROVE UNCHANGED <<entry, content>>
      <4>1. entry["lock"] # NoInode
        BY <1>1, <3>3, SafeOf DEF Owns
      <4>2. ~Owns(c)
        BY <1>1, <2>2, <3>3 DEF SInv, LockInv
      <4>3. op[c].pc \notin HoldingSteps
        BY <4>2, SafeOf DEF HasItsLock, Owns, Running, HoldingSteps, InstallSteps, RemoveSteps, CheckSteps
      <4> QED
        BY <4>1, <4>3 DEF DiskSound, Present
    <3>4. SeenInv(d, op[d], entry', content')
      BY <1>1, <3>2, <3>3, NothingSeen DEF SafeInv
    <3> QED
      BY <3>1, <3>2, <3>4 DEF SafeInv
  <2> QED
    BY <2>1, <2>2
<1>2. ApartInv(entry', content', stage')
  BY DEF DiskSound
<1> QED
  BY <1>1, <1>2 DEF SInv

\* Other programs: what lies there stays, but for the configuration, and what
\* is new is nobody's and on an inode of its own.
LEMMA OthersKeep ==
    ASSUME OthersCreate, SInv, EnvStep
    PROVE  /\ op' = op /\ stage' = stage /\ staging' = staging /\ envLeft' # envLeft
           /\ \A n \in FixedNames : n # "config" /\ Present(n) =>
                 entry'[n] = entry[n] /\ content'[entry[n]] = content[entry[n]]
           /\ \A n \in FixedNames : n # "config" /\ ~Present(n) =>
                 entry'[n] = NoInode \/ content'[entry'[n]] = Foreign
           /\ ApartInv(entry', content', stage')
<1>1. op' = op /\ stage' = stage /\ staging' = staging
  BY DEF EnvStep
<1>2. envLeft' # envLeft
  BY TransactionAssumption DEF EnvStep, SInv, TypeOK
<1>3. ApartInv(entry, content, stage)
  BY DEF SInv
<1>4. /\ EnvNames \subseteq FixedNames
      /\ EnvKinds \subseteq {"create"} \/ EnvNames \subseteq {"config"}
  BY TransactionAssumption DEF OthersCreate
<1>5. PICK n \in FixedNames :
         /\ ~Present(n) \/ n = "config"
         /\ \/ \E i \in FreeInodes : /\ entry' = [entry EXCEPT ![n] = i]
                                     /\ content' = [content EXCEPT ![i] = Foreign]
            \/ entry' = [entry EXCEPT ![n] = NoInode] /\ content' = content /\ n = "config"
            \/ Present(n) /\ content' = [content EXCEPT ![entry[n]] = Foreign] /\ entry' = entry /\ n = "config"
  BY <1>4 DEF EnvStep
<1>6. CASE \E i \in FreeInodes : /\ entry' = [entry EXCEPT ![n] = i]
                                 /\ content' = [content EXCEPT ![i] = Foreign]
  <2>1. PICK i \in FreeInodes : /\ entry' = [entry EXCEPT ![n] = i]
                                /\ content' = [content EXCEPT ![i] = Foreign]
    BY <1>6
  <2>2. /\ i \in Inodes /\ i # NoInode /\ \A m \in FixedNames : entry[m] # i
        /\ \A d \in Commands, f \in Artifacts : stage[d][f] # i
    BY FreeFacts
  <2>3. /\ \A m \in FixedNames : entry'[m] = IF m = n THEN i ELSE entry[m]
        /\ \A j \in Inodes : content'[j] = IF j = i THEN Foreign ELSE content[j]
        /\ \A m \in FixedNames : entry[m] # NoInode => entry[m] \in Inodes
        /\ \A d \in Commands, f \in Artifacts : stage[d][f] # NoInode => stage[d][f] \in Inodes
    BY <2>1, <2>2 DEF SInv, TypeOK
  <2>4. \A m, k \in FixedNames : entry'[m] # NoInode /\ entry'[m] = entry'[k] => m = k
    BY <1>3, <2>2, <2>3 DEF ApartInv
  <2>5. \A m \in FixedNames, d \in Commands, f \in Artifacts : stage[d][f] # NoInode /\ entry'[m] = stage[d][f] => m = f
    BY <1>3, <2>2, <2>3 DEF ApartInv
  <2>6. \A d \in Commands, f \in Artifacts : stage[d][f] # NoInode => content'[stage[d][f]] = Bytes(f, d)
    BY <1>3, <2>2, <2>3 DEF ApartInv
  <2>7. ApartInv(entry', content', stage')
    BY <1>1, <1>3, <2>4, <2>5, <2>6 DEF ApartInv
  <2> QED
    BY <1>1, <1>2, <1>5, <2>2, <2>3, <2>7 DEF Present
<1>7. CASE entry' = [entry EXCEPT ![n] = NoInode] /\ content' = content /\ n = "config"
  <2>1. \A m \in FixedNames : entry'[m] = IF m = n THEN NoInode ELSE entry[m]
    BY <1>7 DEF SInv, TypeOK
  <2>2. ApartInv(entry', content', stage')
    BY <1>1, <1>3, <1>7, <2>1 DEF ApartInv
  <2> QED
    BY <1>1, <1>2, <1>7, <2>1, <2>2 DEF Present
<1>8. CASE Present(n) /\ content' = [content EXCEPT ![entry[n]] = Foreign] /\ entry' = entry /\ n = "config"
  <2>1. /\ \A j \in Inodes : content'[j] = IF j = entry[n] THEN Foreign ELSE content[j]
        /\ \A m \in FixedNames : entry[m] # NoInode => entry[m] \in Inodes
        /\ \A d \in Commands, f \in Artifacts : stage[d][f] # NoInode => stage[d][f] \in Inodes
    BY <1>8 DEF SInv, TypeOK
  <2>2. \A m \in FixedNames : m # "config" /\ entry[m] # NoInode => entry[m] # entry[n]
    BY <1>3, <1>8 DEF ApartInv, Present
  <2>3. \A d \in Commands, f \in Artifacts : stage[d][f] # NoInode => entry[n] # stage[d][f]
    BY <1>3, <1>8 DEF ApartInv, Artifacts
  <2>4. ApartInv(entry', content', stage')
    BY <1>1, <1>3, <1>8, <2>1, <2>3 DEF ApartInv
  <2> QED
    BY <1>1, <1>2, <1>8, <2>1, <2>2, <2>4 DEF Present
<1> QED
  BY <1>5, <1>6, <1>7, <1>8

LEMMA OthersSafe ==
    ASSUME OthersCreate, SInv, TypeOK', EnvStep
    PROVE  SInv'
<1>1. /\ op' = op /\ stage' = stage /\ staging' = staging
      /\ \A n \in FixedNames : n # "config" /\ Present(n) =>
            entry'[n] = entry[n] /\ content'[entry[n]] = content[entry[n]]
      /\ \A n \in FixedNames : n # "config" /\ ~Present(n) =>
            entry'[n] = NoInode \/ content'[entry'[n]] = Foreign
      /\ ApartInv(entry', content', stage')
  BY OthersKeep
<1>2. LockInv'
  <2>1. \A c \in Commands : Owns(c) => entry'["lock"] = op[c].lock
    BY <1>1 DEF SInv, LockInv, Owns, Present, FixedNames
  <2> QED
    BY <1>1, <2>1 DEF SInv, LockInv, Owns, Running, HasItsLock
<1>3. ASSUME NEW c \in Commands PROVE SafeInv(c, op[c], entry', content', stage[c], staging[c])
  <2>1. SafeInv(c, op[c], entry, content, stage[c], staging[c]) /\ HasItsLock(op[c])
    BY <1>3, SafeOf
  <2>2. \A f \in Artifacts : Knows(op[c], f, entry, content) => Knows(op[c], f, entry', content')
    BY <1>1 DEF Knows, Present, FixedNames, Artifacts
  <2>3. SeenInv(c, op[c], entry', content')
    <3>1. CASE Owns(c)
      <4>1. op[c].lock = entry["lock"] /\ op[c].lock # NoInode
        BY <1>3, <3>1, SafeOf DEF Owns
      <4>2. content'[op[c].lock] = content[op[c].lock]
        BY <1>1, <4>1 DEF Present, FixedNames
      <4>3. op[c].pc = "inspect_receipt" /\ op[c].changed # {} => entry'["receipt"] = op[c].file["receipt"]
        BY <1>1, <2>1 DEF SafeInv, SelfInv, SeenInv, StagedReceipt, Present, FixedNames, Artifacts
      <4>4. op[c].pc = "inspect_hook" /\ "hook" \in op[c].changed => entry'["hook"] = op[c].file["hook"]
        BY <1>1, <2>1 DEF SafeInv, SelfInv, SeenInv, StagedReceipt, Present, FixedNames, Artifacts
      <4> QED
        BY <2>1, <2>2, <4>2, <4>3, <4>4 DEF SafeInv, SeenInv, Artifacts
    <3>2. CASE ~Owns(c)
      BY <1>3, <2>1, <3>2, NothingSeen
    <3> QED
      BY <3>1, <3>2
  <2>4. LeftInv(c, op[c], entry', content')
    BY <1>1, <1>3, <2>1, FilesAssumption DEF SafeInv, LeftInv, Present, FixedNames, Foreign, Bytes
  <2> QED
    BY <2>1, <2>3, <2>4 DEF SafeInv
<1> QED
  BY <1>1, <1>2, <1>3 DEF SInv

LEMMA InitSafe == Init => SInv
<1> SUFFICES ASSUME Init PROVE SInv
  OBVIOUS
<1>1. TypeOK
  BY FilesAssumption, TransactionAssumption
  DEF Init, TypeOK, Fresh, Foreign, Bytes, Contents, Operations, Labels, Steps, Errors, Results, StagingStates
<1>2. LockInv
  BY DEF Init, LockInv, Fresh, Owns, HasItsLock, HoldingSteps, InstallSteps, RemoveSteps, CheckSteps
<1>3. ApartInv(entry, content, stage)
  BY DEF Init, ApartInv
<1>4. ASSUME NEW c \in Commands PROVE SafeInv(c, op[c], entry, content, stage[c], staging[c])
  <2>1. op[c] = Fresh /\ entry["lock"] = NoInode /\ staging[c] = "none"
    BY <1>4 DEF Init, FixedNames
  <2>2. SelfInv(c, op[c], stage[c])
    BY <2>1 DEF SelfInv, Fresh, InstallSteps, RemoveSteps, CheckSteps,
      StagedReceipt, PublishedReceipt, PublishedHook, Settled, Unpublishing, Unsettled, EarlySteps
  <2>3. SeenInv(c, op[c], entry, content)
    BY <2>1 DEF SeenInv, Fresh, LockedSteps, InstallSteps, RemoveSteps, CheckSteps,
      PublishedReceipt, PublishedHook, Unpublishing, TracksHook, DropsReceipt
  <2>4. LeftInv(c, op[c], entry, content)
    BY <2>1 DEF LeftInv
  <2>5. ChangesInv(c, op[c], staging[c])
    BY <2>1 DEF ChangesInv, Fresh, StagedReceipt, Unpublishing, Ending, Refusals
  <2> QED
    BY <2>2, <2>3, <2>4, <2>5 DEF SafeInv
<1> QED
  BY <1>1, <1>2, <1>3, <1>4 DEF SInv

LEMMA NextSafe ==
    ASSUME OthersCreate, SInv, [Next]_vars
    PROVE  SInv'
<1>1. TypeOK /\ LockInv
  BY DEF SInv
<1>2. CASE UNCHANGED vars
  <2>1. entry' = entry /\ content' = content /\ stage' = stage /\ staging' = staging /\ op' = op
        /\ envLeft' = envLeft
    BY <1>2 DEF vars
  <2>2. TypeOK' /\ LockInv'
    BY <1>1, <2>1 DEF TypeOK, LockInv, Owns, Running, HasItsLock
  <2> QED
    BY <2>1, <2>2 DEF SInv
<1>3. CASE EnvStep
  BY <1>1, <1>3, EnvStepType, OthersSafe
<1>4. ASSUME NEW c \in Commands, Step(c) PROVE SInv'
  BY <1>1, <1>4, StepType, StepLock, StepSound, CommandKeeps
<1>5. ASSUME NEW c \in Commands, Cancel(c) \/ Crash(c) PROVE SInv'
  <2>1. Sound(c) /\ SameDisk /\ staging' = staging
    BY <1>5, CancelSound, CrashSound
  <2>2. DiskSound(c)
    BY <2>1, SameDiskSound
  <2> QED
    BY <1>1, <1>5, <2>1, <2>2, CancelType, CrashType, CancelLock, CrashLock, CommandKeeps
<1> QED
  BY <1>2, <1>3, <1>4, <1>5 DEF Next

LEMMA SafeAlways == ASSUME OthersCreate PROVE Spec => []SInv
<1>1. SInv /\ [Next]_vars => SInv'
  BY NextSafe
<1> QED
  BY <1>1, InitSafe, PTL DEF Spec

\* A command that refuses, fails or is cancelled has left nothing behind: for
\* any number of commands, any interleaving, crash and cancellation, and files
\* that others create, as long as no call fails right after a change that the
\* code then takes for not made.
THEOREM RefusalIsClean ==
    ASSUME OthersCreate, ChangesAreKnown
    PROVE  Spec => []RefusalChangesNothing
<1>1. SInv => RefusalChangesNothing
  <2> SUFFICES ASSUME SInv, NEW c \in Commands, op[c].result \in Refusals
               PROVE  /\ op[c].changed = {} /\ staging[c] = "none"
                      /\ Present("lock") => content[entry["lock"]].by # c
    BY DEF RefusalChangesNothing
  <2>1. SafeInv(c, op[c], entry, content, stage[c], staging[c])
    BY SafeOf
  <2>2. op[c].changed = {} /\ staging[c] = "none" /\ op[c].confirmed /\ op[c].err # "recovery"
    BY <2>1, ChangesAreKnown DEF SafeInv, ChangesInv
  <2>3. op[c].lock = NoInode
    BY <2>1 DEF SafeInv, SelfInv, Refusals
  <2> QED
    BY <2>1, <2>2, <2>3 DEF SafeInv, LeftInv, Present
<1> QED
  BY <1>1, SafeAlways, PTL

\* No step of a command takes the name from a file that somebody else wrote,
\* whenever it appeared and whatever calls fail, as long as the others only
\* create files, or touch the configuration alone.
THEOREM ForeignIsKept ==
    ASSUME OthersCreate
    PROVE  Spec => NoForeignLoss
<1>1. ASSUME SInv, [Next]_vars, NEW n \in FixedNames, Present(n), content[entry[n]] = Foreign,
             entry'[n] # entry[n]
      PROVE  envLeft' # envLeft
  <2>1. CASE EnvStep
    BY <1>1, <2>1, OthersKeep
  <2>2. ~UNCHANGED vars
    BY <1>1 DEF vars
  <2>3. ASSUME NEW c \in Commands, Step(c) \/ Cancel(c) \/ Crash(c) PROVE FALSE
    <3>1. DiskSound(c)
      BY <1>1, <2>3, StepSound, CancelSound, CrashSound, SameDiskSound
    <3> QED
      BY <1>1, <3>1 DEF DiskSound
  <2> QED
    BY <1>1, <2>1, <2>2, <2>3 DEF Next
<1>2. SInv /\ [Next]_vars =>
        [\A n \in FixedNames : Present(n) /\ content[entry[n]] = Foreign /\ entry'[n] # entry[n]
             => envLeft' # envLeft]_vars
  BY <1>1
<1> QED
  BY <1>2, SafeAlways, PTL DEF Spec, NoForeignLoss

=============================================================================
