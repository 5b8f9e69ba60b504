--------------------- MODULE ClaudeHookTransactionProofs ---------------------
(***************************************************************************)
(* Theorems about ClaudeHookTransaction, for every set of commands and any *)
(* kills, cancellations, failing calls and foreign changes, as long as     *)
(* other programs replace no file but the settings file.                   *)
(***************************************************************************)
EXTENDS ClaudeHookTransaction, TLAPS

-----------------------------------------------------------------------------
(* Where a command of either kind can be, and what it holds there.         *)

Before == {"idle", "observe", "lock", "write_lock", "abandon_lock"}
Preparing == {"check_locked", "check_parents", "make_staging", "stage_receipt", "stage_hook", "probe",
              "check_staged", "check_receipt", "link_receipt", "inspect_receipt"}
\* The receipt is published, the hook is as well, the receipt is taken back.
ReceiptThere == {"confirm_receipt", "unstage_receipt", "settle_receipt", "check_hook", "link_hook",
                 "inspect_hook"}
HookThere == {"confirm_hook", "unstage_hook", "settle_hook", "check_committed"}
Returning == {"check_unpublish", "unpublish", "unpublished"}
Surveying == {"survey", "track_receipt"}
Disabling == {"track_hook", "check_exact", "drop_hook", "dropped_hook"}
Disclaiming == {"inactive", "check_inactive", "drop_receipt", "dropped_receipt", "vacant"}

Installing == Preparing \cup ReceiptThere \cup HookThere
Removing == Surveying \cup Disabling \cup Disclaiming
InLock == Installing \cup Returning \cup Removing \cup {"release"}

Pristine(r) == r.settled = {} /\ r.staged = {} /\ ~r.tracked /\ r.changed = {}

\* A command's own variables.
OwnInv(c, r) ==
    /\ r.pc \in Installing \cup Returning \cup {"cleanup"} => Install(c)
    /\ r.pc \in Removing => ~Install(c)
    /\ r.pc \in Before \cup {"report", "done"} => ~r.locked
    /\ r.pc \in InLock => r.locked
    /\ r.pc \notin Removals \cup {"crashed"} => r.phase = "verify"
    /\ r.pc \in Before \cup Installing \cup Removing => r.err = "none" /\ r.confirmed
    /\ r.pc = "catch" => r.err # "none" /\ r.confirmed
    /\ r.pc \in Returning => r.err # "none"
    /\ r.pc # "done" => r.result = "none"
    /\ Install(c) => r.author = c
    /\ r.pc \in Disabling \cup Disclaiming => r.author # Nobody
    /\ r.pc \in Before => Pristine(r)
    /\ r.pc \in {"catch", "cleanup"} /\ ~r.locked => Pristine(r)
    /\ r.pc \in {"stage_receipt", "stage_hook", "probe"} => r.tracked
    /\ r.pc \in Preparing \cup Surveying \cup Disabling => r.settled = {}
    /\ r.pc \in ReceiptThere \cup Returning => r.settled = {"receipt"}
    /\ r.pc \in HookThere => "hook" \in r.settled
    /\ (IF Install(c) THEN "hook" \in r.settled ELSE r.settled # {}) =>
          r.err # "cancelled" /\ r.result # "cancelled"

OwnAll == TypeOK /\ \A c \in Commands : OwnInv(c, op[c])
\* What a step must give back.
OpsKept == op' \in [Commands -> Operations] /\ \A c \in Commands : OwnInv(c, op'[c])

LEMMA Labelled == Before \cup InLock \cup {"catch", "cleanup", "report"} \cup {"done", "crashed"} = Labels
  BY DEF Before, InLock, Installing, Preparing, ReceiptThere, HookThere, Returning, Removing,
    Surveying,
         Disabling, Disclaiming, Labels, Steps, Checks, InstallChecks, RemoveChecks, PublishSteps, StepsOf,
         Artifacts, LinkStep, InspectStep, ConfirmStep, UnstageStep, SettleStep, DropStep, DroppedStep,
         Removals, RemovalOf

LEMMA OpType == ASSUME OwnAll, NEW c \in Commands PROVE op[c] \in Operations
  BY DEF OwnAll, TypeOK

LEMMA BecomeKeeps ==
    ASSUME OwnAll, NEW c \in Commands, NEW r \in Operations, OwnInv(c, r), Become(c, r)
    PROVE  OpsKept
<1>1. op \in [Commands -> Operations] /\ \A d \in Commands : OwnInv(d, op[d])
  BY DEF OwnAll, TypeOK
<1>2. op' = [op EXCEPT ![c] = r]
  BY DEF Become
<1>3. op' \in [Commands -> Operations]
  BY <1>1, <1>2
<1>4. \A d \in Commands : op'[d] = IF d = c THEN r ELSE op[d]
  BY <1>1, <1>2
<1>5. ASSUME NEW d \in Commands PROVE OwnInv(d, op'[d])
  <2>1. CASE d = c
    BY <2>1, <1>4
  <2>2. CASE d # c
    BY <2>2, <1>4, <1>1
  <2> QED
    BY <2>1, <2>2
<1> QED
  BY <1>3, <1>5 DEF OpsKept

LEMMA GoKeeps ==
    ASSUME OwnAll, NEW c \in Commands, NEW l \in Labels, Go(c, l),
           OwnInv(c, [op[c] EXCEPT !.pc = l])
    PROVE  OpsKept
<1>1. [op[c] EXCEPT !.pc = l] \in Operations
  BY OpType DEF Operations
<1> QED
  BY <1>1, BecomeKeeps DEF Go

\* An error before the command is committed, or one that is no cancellation.
LEMMA ThrowKeeps ==
    ASSUME OwnAll, NEW c \in Commands, NEW e \in Errors \ {"none"}, Throw(c, e),
           op[c].pc \in (Before \ {"idle"}) \cup Installing \cup Removing,
           e = "cancelled" => ~PastCommit(c),
           op[c].phase = "verify"
    PROVE  OpsKept
<1> DEFINE r == [op[c] EXCEPT !.pc = "catch", !.err = e]
<1>1. op[c] \in Operations /\ OwnInv(c, op[c])
  BY OpType DEF OwnAll
<1>2. "catch" \in Labels
  BY Labelled
<1>3. r \in Operations
  BY <1>1, <1>2 DEF Operations
<1>4. /\ r.pc = "catch" /\ r.err = e /\ r.phase = op[c].phase /\ r.locked = op[c].locked
      /\ r.author = op[c].author /\ r.staged = op[c].staged /\ r.tracked = op[c].tracked
      /\ r.settled = op[c].settled /\ r.confirmed = op[c].confirmed /\ r.result = op[c].result
      /\ r.changed = op[c].changed
  BY <1>1 DEF Operations
<1>5. (IF Install(c) THEN "hook" \in op[c].settled ELSE op[c].settled # {}) => e # "cancelled"
  BY DEF PastCommit, Committed
<1>6. op[c].pc \notin {"done", "catch"} /\ (op[c].pc \in Before \/ op[c].locked)
  BY <1>1 DEF OwnInv, Before, InLock, Installing, Preparing, ReceiptThere, HookThere, Returning,
    Removing,
              Surveying, Disabling, Disclaiming
<1>7. /\ op[c].confirmed /\ op[c].result = "none" /\ (Install(c) => op[c].author = c)
      /\ op[c].pc \in Before => Pristine(op[c])
  BY <1>1, <1>6 DEF OwnInv
<1>8. ~r.locked => Pristine(r)
  BY <1>4, <1>6, <1>7 DEF Pristine
<1>9. OwnInv(c, r)
  <2> HIDE DEF r
  <2> QED
    BY <1>4, <1>5, <1>7, <1>8
    DEF OwnInv, Before, InLock, Installing, Preparing, ReceiptThere, HookThere, Returning, Removing,
        Surveying, Disabling, Disclaiming, Removals, RemovalOf
<1> QED
  BY <1>3, <1>9, BecomeKeeps DEF Throw

LEMMA ReportKeeps ==
    ASSUME OwnAll, NEW c \in Commands, NEW res \in Results \ {"none"}, Report(c, res),
           op[c].pc \in {"observe", "report"},
           res = "cancelled" => ~PastCommit(c)
    PROVE  OpsKept
<1> DEFINE r == [op[c] EXCEPT !.pc = "done", !.result = res]
<1>1. op[c] \in Operations /\ OwnInv(c, op[c])
  BY OpType DEF OwnAll
<1>2. "done" \in Labels
  BY Labelled
<1>3. r \in Operations
  BY <1>1, <1>2 DEF Operations
<1>4. /\ r.pc = "done" /\ r.err = op[c].err /\ r.phase = op[c].phase /\ r.locked = op[c].locked
      /\ r.author = op[c].author /\ r.settled = op[c].settled /\ r.result = res
  BY <1>1 DEF Operations
<1>5. (IF Install(c) THEN "hook" \in op[c].settled ELSE op[c].settled # {}) => res # "cancelled"
  BY DEF PastCommit, Committed
<1>6. /\ ~op[c].locked /\ op[c].phase = "verify" /\ (Install(c) => op[c].author = c)
      /\ (IF Install(c) THEN "hook" \in op[c].settled ELSE op[c].settled # {}) => op[c].err # "cancelled"
  BY <1>1 DEF OwnInv, Before, Removals, RemovalOf
<1>7. OwnInv(c, r)
  <2> HIDE DEF r
  <2> QED
    BY <1>4, <1>5, <1>6
    DEF OwnInv, Before, InLock, Installing, Preparing, ReceiptThere, HookThere, Returning, Removing,
        Surveying, Disabling, Disclaiming, Removals, RemovalOf
<1> QED
  BY <1>3, <1>7, BecomeKeeps DEF Report

-----------------------------------------------------------------------------
(* The commands' variables, action by action.                              *)

LEMMA LockErrorsType == ASSUME NEW c PROVE LockErrors(c) \subseteq {"other", "input", "recovery"}
  BY DEF LockErrors

LEMMA ObserveFirstOwn ==
    ASSUME OwnAll, NEW c \in Commands, ObserveFirst(c)
    PROVE  OpsKept
<1>1. op[c] \in Operations /\ OwnInv(c, op[c]) /\ op[c].pc = "observe"
  BY OpType DEF OwnAll, ObserveFirst, At
<1>2. CASE Go(c, "lock")
  <2>1. OwnInv(c, [op[c] EXCEPT !.pc = "lock"])
    BY <1>1
    DEF Operations, OwnInv, Before, InLock, Installing, Preparing, ReceiptThere, HookThere,
      Returning, Removing,
        Surveying, Disabling, Disclaiming, Removals, RemovalOf, Pristine
  <2> QED
    BY <1>2, <2>1, GoKeeps, Labelled DEF Before
<1>3. CASE \E res \in {"cancelled", "input"} : Report(c, res)
  <2>1. ~PastCommit(c)
    BY <1>1 DEF OwnInv, Before, Pristine, PastCommit, Committed
  <2> QED
    BY <1>3, <1>1, <2>1, ReportKeeps DEF Results
<1> QED
  BY <1>2, <1>3 DEF ObserveFirst

LEMMA CreateLockOwn ==
    ASSUME OwnAll, NEW c \in Commands, CreateLock(c)
    PROVE  OpsKept
<1>1. op[c] \in Operations /\ OwnInv(c, op[c]) /\ op[c].pc = "lock"
  BY OpType DEF OwnAll, CreateLock, At
<1>2. CASE Go(c, "write_lock")
  <2>1. OwnInv(c, [op[c] EXCEPT !.pc = "write_lock"])
    BY <1>1
    DEF Operations, OwnInv, Before, InLock, Installing, Preparing, ReceiptThere, HookThere,
      Returning, Removing,
        Surveying, Disabling, Disclaiming, Removals, RemovalOf, Pristine
  <2> QED
    BY <1>2, <2>1, GoKeeps, Labelled DEF Before
<1>3. CASE \E e \in {"cancelled", "other"} : Throw(c, e)
  <2>1. ~PastCommit(c) /\ op[c].phase = "verify"
    BY <1>1 DEF OwnInv, Before, Pristine, PastCommit, Committed, Removals, RemovalOf
  <2> QED
    BY <1>3, <1>1, <2>1, ThrowKeeps DEF Errors, Before
<1> QED
  BY <1>2, <1>3 DEF CreateLock

LEMMA WriteLockOwn ==
    ASSUME OwnAll, NEW c \in Commands, WriteLock(c)
    PROVE  OpsKept
<1>1. op[c] \in Operations /\ OwnInv(c, op[c]) /\ op[c].pc = "write_lock"
  BY OpType DEF OwnAll, WriteLock, At
<1>2. CASE Go(c, "abandon_lock")
  <2>1. OwnInv(c, [op[c] EXCEPT !.pc = "abandon_lock"])
    BY <1>1
    DEF Operations, OwnInv, Before, InLock, Installing, Preparing, ReceiptThere, HookThere,
      Returning, Removing,
        Surveying, Disabling, Disclaiming, Removals, RemovalOf, Pristine
  <2> QED
    BY <1>2, <2>1, GoKeeps, Labelled DEF Before
<1>3. CASE Become(c, [op[c] EXCEPT !.pc = IF Install(c) THEN "check_locked" ELSE "survey", !.locked = TRUE])
  <2> DEFINE r == [op[c] EXCEPT !.pc = IF Install(c) THEN "check_locked" ELSE "survey", !.locked = TRUE]
  <2>1. r \in Operations
    <3>1. {"check_locked", "survey"} \subseteq Labels
      BY Labelled DEF InLock, Installing, Removing, Preparing, Surveying
    <3> QED
      BY <1>1, <3>1 DEF Operations
  <2>2. OwnInv(c, r)
    BY <1>1
    DEF Operations, OwnInv, Before, InLock, Installing, Preparing, ReceiptThere, HookThere,
      Returning, Removing,
        Surveying, Disabling, Disclaiming, Removals, RemovalOf, Pristine
  <2> QED
    BY <1>3, <2>1, <2>2, BecomeKeeps
<1> QED
  BY <1>2, <1>3 DEF WriteLock

LEMMA AbandonLockOwn ==
    ASSUME OwnAll, NEW c \in Commands, AbandonLock(c)
    PROVE  OpsKept
<1>1. OwnInv(c, op[c]) /\ op[c].pc = "abandon_lock"
  BY DEF OwnAll, AbandonLock, At
<1>2. op[c].phase = "verify"
  BY <1>1 DEF OwnInv, Removals, RemovalOf
<1> QED
  BY <1>1, <1>2, ThrowKeeps DEF AbandonLock, Errors, Before

LEMMA CheckLabels ==
    ASSUME NEW c, op[c].pc \in Checks
    PROVE  /\ op[c].pc \in Installing \cup Removing
           /\ op[c].pc \in {"check_locked", "check_parents", "check_staged", "check_receipt", "check_hook",
                            "check_committed", "survey", "check_exact", "inactive", "check_inactive", "vacant"}
           /\ op[c].pc \notin Removals
  BY DEF Checks, InstallChecks, RemoveChecks, Installing, Removing, Preparing, ReceiptThere,
    HookThere,
         Surveying, Disabling, Disclaiming, Removals, RemovalOf

\* What comes after a check.
NextOf(c) == [check_locked |-> "check_parents", check_parents |-> "make_staging", check_staged |-> "check_receipt",
              check_receipt |-> "link_receipt", check_hook |-> "link_hook", check_committed |-> "cleanup",
              survey |-> "track_receipt", check_exact |-> "drop_hook", inactive |-> "check_inactive",
              check_inactive |-> "drop_receipt", vacant |-> "release"][op[c].pc]

LEMMA AfterCheckIs ==
    ASSUME NEW c, NEW st, op[c].pc \in Checks, AfterCheck(c, st)
    PROVE  \/ op[c].pc # "survey" /\ Go(c, NextOf(c))
           \/ /\ op[c].pc = "survey"
              /\ Become(c, [op[c] EXCEPT !.pc = "track_receipt", !.exact = st.ownership = "owned_exact"])
<1>1. op[c].pc \in {"check_locked", "check_parents", "check_staged", "check_receipt", "check_hook",
                    "check_committed", "survey", "check_exact", "inactive", "check_inactive", "vacant"}
  BY CheckLabels
<1>2. CASE op[c].pc = "check_locked"
  BY <1>2 DEF AfterCheck, At, NextOf
<1>3. CASE op[c].pc = "check_parents"
  BY <1>3 DEF AfterCheck, At, NextOf
<1>4. CASE op[c].pc = "check_staged"
  BY <1>4 DEF AfterCheck, At, NextOf
<1>5. CASE op[c].pc = "check_receipt"
  BY <1>5 DEF AfterCheck, At, NextOf
<1>6. CASE op[c].pc = "check_hook"
  BY <1>6 DEF AfterCheck, At, NextOf
<1>7. CASE op[c].pc = "check_committed"
  BY <1>7 DEF AfterCheck, At, NextOf
<1>8. CASE op[c].pc = "survey"
  BY <1>8 DEF AfterCheck, At, NextOf
<1>9. CASE op[c].pc = "check_exact"
  BY <1>9 DEF AfterCheck, At, NextOf
<1>10. CASE op[c].pc = "inactive"
  BY <1>10 DEF AfterCheck, At, NextOf
<1>11. CASE op[c].pc = "check_inactive"
  BY <1>11 DEF AfterCheck, At, NextOf
<1>12. CASE op[c].pc = "vacant"
  BY <1>12 DEF AfterCheck, At, NextOf
<1> QED
  BY <1>1, <1>2, <1>3, <1>4, <1>5, <1>6, <1>7, <1>8, <1>9, <1>10, <1>11, <1>12

LEMMA AfterCheckOwn ==
    ASSUME OwnAll, NEW c \in Commands, NEW st, op[c].pc \in Checks, AfterCheck(c, st)
    PROVE  OpsKept
<1>1. op[c] \in Operations /\ OwnInv(c, op[c])
  BY OpType DEF OwnAll
<1>2. op[c].pc \in {"check_locked", "check_parents", "check_staged", "check_receipt", "check_hook",
                    "check_committed", "survey", "check_exact", "inactive", "check_inactive", "vacant"}
  BY CheckLabels
<1>3. CASE op[c].pc # "survey" /\ Go(c, NextOf(c))
  <2>1. NextOf(c) \in Labels
    BY <1>2, <1>3, Labelled
    DEF NextOf, InLock, Installing, Preparing, ReceiptThere, Removing, Disabling, Disclaiming
  <2>2. OwnInv(c, [op[c] EXCEPT !.pc = NextOf(c)])
    BY <1>1, <1>2, <1>3
    DEF NextOf, Operations, OwnInv, Before, InLock, Installing, Preparing, ReceiptThere, HookThere,
      Returning,
        Removing, Surveying, Disabling, Disclaiming, Removals, RemovalOf, Pristine
  <2> QED
    BY <1>3, <2>1, <2>2, GoKeeps
<1>4. CASE /\ op[c].pc = "survey"
           /\ Become(c, [op[c] EXCEPT !.pc = "track_receipt", !.exact = st.ownership = "owned_exact"])
  <2> DEFINE r == [op[c] EXCEPT !.pc = "track_receipt", !.exact = st.ownership = "owned_exact"]
  <2>1. r \in Operations
    <3>1. "track_receipt" \in Labels
      BY Labelled DEF InLock, Removing, Surveying
    <3>2. (st.ownership = "owned_exact") \in BOOLEAN
      OBVIOUS
    <3> QED
      BY <1>1, <3>1, <3>2 DEF Operations
  <2>2. OwnInv(c, r)
    BY <1>1, <1>4
    DEF Operations, OwnInv, Before, InLock, Installing, Preparing, ReceiptThere, HookThere,
      Returning, Removing,
        Surveying, Disabling, Disclaiming, Removals, RemovalOf, Pristine
  <2> QED
    BY <1>4, <2>1, <2>2, BecomeKeeps
<1> QED
  BY <1>3, <1>4, AfterCheckIs

LEMMA CheckOwn ==
    ASSUME OwnAll, NEW c \in Commands, Check(c)
    PROVE  OpsKept
<1>1. op[c] \in Operations /\ OwnInv(c, op[c]) /\ op[c].pc \in Checks
  BY OpType DEF OwnAll, Check
<1>2. op[c].pc \in Installing \cup Removing /\ op[c].phase = "verify"
  BY <1>1, CheckLabels DEF OwnInv
<1>3. Cancellable(c) => ~PastCommit(c)
  BY <1>1, CheckLabels
  DEF Cancellable, PastCommit, Committed, OwnInv, Preparing, ReceiptThere, HookThere, Removing,
    Surveying,
      Disabling, Disclaiming, Installing
<1>4. \A e \in {"other", "input", "recovery"} : Throw(c, e) => OpsKept
  BY <1>2, ThrowKeeps DEF Errors
<1>5. Unexpected(op[c].pc) \in {"input", "recovery"}
  BY DEF Unexpected
<1>6. CASE Cancellable(c)
  BY <1>2, <1>3, <1>6, ThrowKeeps DEF Check, Errors
<1>7. CASE ~Cancellable(c)
  <2>1. CASE \E e \in LockErrors(c) : Throw(c, e)
    BY <2>1, <1>4, LockErrorsType
  <2>2. CASE \E st \in Observations(c) : AfterCheck(c, st) \/ Throw(c, Unexpected(op[c].pc))
    BY <2>2, <1>1, <1>4, <1>5, AfterCheckOwn
  <2> QED
    BY <1>7, <2>1, <2>2 DEF Check
<1> QED
  BY <1>6, <1>7

LEMMA MakeStagingOwn ==
    ASSUME OwnAll, NEW c \in Commands, MakeStaging(c)
    PROVE  OpsKept
<1> DEFINE r == [op[c] EXCEPT !.pc = "stage_receipt", !.tracked = TRUE]
<1>1. op[c] \in Operations /\ OwnInv(c, op[c]) /\ op[c].pc = "make_staging" /\ "stage_receipt" \in Labels
  BY OpType, Labelled DEF OwnAll, MakeStaging, At, InLock, Installing, Preparing
<1>2. r \in Operations
  BY <1>1 DEF Operations
<1>3. OwnInv(c, r)
  BY <1>1 DEF Operations, OwnInv, Before, InLock, Installing, Preparing, ReceiptThere, HookThere,
    Returning, Removing, Surveying, Disabling, Disclaiming, Removals, RemovalOf, Pristine
<1> QED
  BY <1>2, <1>3, BecomeKeeps DEF MakeStaging

LEMMA CreateStageFileOwn ==
    ASSUME OwnAll, NEW c \in Commands, NEW f \in Artifacts, CreateStageFile(c, f)
    PROVE  OpsKept
<1> DEFINE r == [op[c] EXCEPT !.pc = IF f = "receipt" THEN "stage_hook" ELSE "probe", !.staged = @ \cup {f}]
<1>1. /\ op[c] \in Operations /\ OwnInv(c, op[c]) /\ {"stage_hook", "probe"} \subseteq Labels
      /\ op[c].pc \in {"stage_receipt", "stage_hook"}
  BY OpType, Labelled DEF OwnAll, CreateStageFile, At, InLock, Installing, Preparing
<1>2. CASE Become(c, r)
  <2>1. r \in Operations
    BY <1>1 DEF Operations
  <2>2. OwnInv(c, r)
    BY <1>1 DEF Operations, OwnInv, Before, InLock, Installing, Preparing, ReceiptThere, HookThere,
      Returning, Removing, Surveying, Disabling, Disclaiming, Removals, RemovalOf, Pristine
  <2> QED
    BY <1>2, <2>1, <2>2, BecomeKeeps
<1>3. CASE Throw(c, "cancelled")
  <2>1. ~PastCommit(c) /\ op[c].phase = "verify"
    BY <1>1 DEF OwnInv, Installing, Preparing, PastCommit, Committed, Removals, RemovalOf
  <2> QED
    BY <1>1, <1>3, <2>1, ThrowKeeps DEF Installing, Preparing, Errors
<1> QED
  BY <1>2, <1>3 DEF CreateStageFile

LEMMA ProbeOwn ==
    ASSUME OwnAll, NEW c \in Commands, Probe(c)
    PROVE  OpsKept
<1>1. op[c] \in Operations /\ OwnInv(c, op[c]) /\ op[c].pc = "probe" /\ "check_staged" \in Labels
  BY OpType, Labelled DEF OwnAll, Probe, At, InLock, Installing, Preparing
<1>2. OwnInv(c, [op[c] EXCEPT !.pc = "check_staged"])
  BY <1>1 DEF Operations, OwnInv, Before, InLock, Installing, Preparing, ReceiptThere, HookThere,
    Returning, Removing, Surveying, Disabling, Disclaiming, Removals, RemovalOf, Pristine
<1> QED
  BY <1>1, <1>2, GoKeeps DEF Probe

\* A file of the command's own has got its name.
LEMMA PublishedOwn ==
    ASSUME OwnAll, NEW c \in Commands, NEW f \in Artifacts, op[c].pc \in {LinkStep[f], InspectStep[f]},
           Published(c, f)
    PROVE  OpsKept
<1> DEFINE r == [op[c] EXCEPT !.pc = ConfirmStep[f], !.changed = @ \cup {f}, !.settled = @ \cup {f}]
<1>1. /\ op[c] \in Operations /\ OwnInv(c, op[c])
      /\ \/ f = "receipt" /\ op[c].pc \in {"link_receipt", "inspect_receipt"}
         \/ f = "hook" /\ op[c].pc \in {"link_hook", "inspect_hook"}
  BY OpType DEF OwnAll, Artifacts, LinkStep, InspectStep
<1>2. ConfirmStep[f] = IF f = "receipt" THEN "confirm_receipt" ELSE "confirm_hook"
  BY DEF Artifacts, ConfirmStep
<1>3. ConfirmStep[f] \in Labels
  BY <1>2, Labelled DEF InLock, Installing, ReceiptThere, HookThere
<1>4. KnownAsPublished([op[c] EXCEPT !.pc = ConfirmStep[f], !.changed = @ \cup {f}], f) = r
  BY <1>1 DEF KnownAsPublished, Operations
<1>5. r \in Operations
  BY <1>1, <1>3 DEF Operations
<1>6. OwnInv(c, r)
  BY <1>1, <1>2 DEF Operations, OwnInv, Before, InLock, Installing, Preparing, ReceiptThere,
    HookThere, Returning, Removing, Surveying, Disabling, Disclaiming, Removals, RemovalOf, Pristine
<1> QED
  BY <1>4, <1>5, <1>6, BecomeKeeps DEF Published

LEMMA LinkOwn ==
    ASSUME OwnAll, NEW c \in Commands, NEW f \in Artifacts, Link(c, f)
    PROVE  OpsKept
<1>1. op[c] \in Operations /\ OwnInv(c, op[c]) /\ op[c].pc = LinkStep[f]
  BY OpType DEF OwnAll, Link, At
<1>2. CASE Go(c, InspectStep[f])
  <2>1. InspectStep[f] \in Labels
    BY Labelled DEF Artifacts, InspectStep, InLock, Installing, Preparing, ReceiptThere
  <2>2. OwnInv(c, [op[c] EXCEPT !.pc = InspectStep[f]])
    <3>1. \/ op[c].pc = "link_receipt" /\ InspectStep[f] = "inspect_receipt"
          \/ op[c].pc = "link_hook" /\ InspectStep[f] = "inspect_hook"
      BY <1>1 DEF Artifacts, LinkStep, InspectStep
    <3> QED
      BY <1>1, <3>1 DEF Operations, OwnInv, Before, InLock, Installing, Preparing, ReceiptThere,
        HookThere, Returning, Removing, Surveying, Disabling, Disclaiming, Removals, RemovalOf,
        Pristine
  <2> QED
    BY <1>2, <2>1, <2>2, GoKeeps
<1>3. CASE Published(c, f)
  BY <1>1, <1>3, PublishedOwn
<1> QED
  BY <1>2, <1>3 DEF Link

\* The five steps of a publication, and how they throw.
LEMMA PublishLabels ==
    ASSUME NEW f \in Artifacts
    PROVE  /\ {LinkStep[f], InspectStep[f], ConfirmStep[f], UnstageStep[f], SettleStep[f]} \subseteq Installing
           /\ {LinkStep[f], InspectStep[f], ConfirmStep[f], UnstageStep[f], SettleStep[f]} \cap Removals = {}
  BY DEF Artifacts, LinkStep, InspectStep, ConfirmStep, UnstageStep, SettleStep, Removals,
    RemovalOf,
         Installing, Preparing, ReceiptThere, HookThere

LEMMA PublishThrows ==
    ASSUME OwnAll, NEW c \in Commands, NEW f \in Artifacts, NEW e \in {"input", "recovery", "other"},
           op[c].pc \in {LinkStep[f], InspectStep[f], ConfirmStep[f], UnstageStep[f], SettleStep[f]},
           Throw(c, e)
    PROVE  OpsKept
<1>1. op[c].pc \in Installing /\ op[c].pc \notin Removals
  BY PublishLabels
<1>2. op[c].phase = "verify"
  BY <1>1 DEF OwnAll, OwnInv, Installing, Preparing, ReceiptThere, HookThere
<1> QED
  BY <1>1, <1>2, ThrowKeeps DEF Errors

LEMMA InspectPublishOwn ==
    ASSUME OwnAll, NEW c \in Commands, NEW f \in Artifacts, InspectPublish(c, f)
    PROVE  OpsKept
  BY PublishedOwn, PublishThrows DEF InspectPublish, At

LEMMA ConfirmPublishOwn ==
    ASSUME OwnAll, NEW c \in Commands, NEW f \in Artifacts, ConfirmPublish(c, f)
    PROVE  OpsKept
<1>1. op[c] \in Operations /\ OwnInv(c, op[c]) /\ op[c].pc = ConfirmStep[f]
  BY OpType DEF OwnAll, ConfirmPublish, At
<1>2. CASE Go(c, UnstageStep[f])
  <2>1. UnstageStep[f] \in Labels
    BY Labelled DEF Artifacts, UnstageStep, InLock, Installing, ReceiptThere, HookThere
  <2>2. OwnInv(c, [op[c] EXCEPT !.pc = UnstageStep[f]])
    <3>1. \/ op[c].pc = "confirm_receipt" /\ UnstageStep[f] = "unstage_receipt"
          \/ op[c].pc = "confirm_hook" /\ UnstageStep[f] = "unstage_hook"
      BY <1>1 DEF Artifacts, ConfirmStep, UnstageStep
    <3> QED
      BY <1>1, <3>1 DEF Operations, OwnInv, Before, InLock, Installing, Preparing, ReceiptThere,
        HookThere, Returning, Removing, Surveying, Disabling, Disclaiming, Removals, RemovalOf,
        Pristine
  <2> QED
    BY <1>2, <2>1, <2>2, GoKeeps
<1>3. CASE \E e \in {"input", "recovery", "other"} : Throw(c, e)
  BY <1>1, <1>3, PublishThrows
<1> QED
  BY <1>2, <1>3, LockErrorsType DEF ConfirmPublish

LEMMA UnstageOwn ==
    ASSUME OwnAll, NEW c \in Commands, NEW f \in Artifacts, Unstage(c, f)
    PROVE  OpsKept
<1>1. op[c] \in Operations /\ OwnInv(c, op[c]) /\ op[c].pc = UnstageStep[f]
  BY OpType DEF OwnAll, Unstage, At
<1>2. CASE Go(c, SettleStep[f])
  <2>1. SettleStep[f] \in Labels
    BY Labelled DEF Artifacts, SettleStep, InLock, Installing, ReceiptThere, HookThere
  <2>2. OwnInv(c, [op[c] EXCEPT !.pc = SettleStep[f]])
    <3>1. \/ op[c].pc = "unstage_receipt" /\ SettleStep[f] = "settle_receipt"
          \/ op[c].pc = "unstage_hook" /\ SettleStep[f] = "settle_hook"
      BY <1>1 DEF Artifacts, SettleStep, UnstageStep
    <3> QED
      BY <1>1, <3>1 DEF Operations, OwnInv, Before, InLock, Installing, Preparing, ReceiptThere,
        HookThere, Returning, Removing, Surveying, Disabling, Disclaiming, Removals, RemovalOf,
        Pristine
  <2> QED
    BY <1>2, <2>1, <2>2, GoKeeps
<1>3. CASE Throw(c, "recovery")
  BY <1>1, <1>3, PublishThrows
<1> QED
  BY <1>2, <1>3 DEF Unstage

LEMMA SettlePublishOwn ==
    ASSUME OwnAll, NEW c \in Commands, NEW f \in Artifacts, SettlePublish(c, f)
    PROVE  OpsKept
<1> DEFINE r == [op[c] EXCEPT !.pc = IF f = "receipt" THEN "check_hook" ELSE "check_committed",
                              !.staged = @ \ {f}, !.settled = @ \cup {f}]
<1>1. op[c] \in Operations /\ OwnInv(c, op[c]) /\ op[c].pc = SettleStep[f]
  BY OpType DEF OwnAll, SettlePublish, At
<1>2. CASE Become(c, r)
  <2>1. {"check_hook", "check_committed"} \subseteq Labels
    BY Labelled DEF InLock, Installing, ReceiptThere, HookThere
  <2>2. r \in Operations
    BY <1>1, <2>1 DEF Operations
  <2>3. \/ f = "receipt" /\ op[c].pc = "settle_receipt" /\ op[c].settled = {"receipt"}
        \/ f = "hook" /\ op[c].pc = "settle_hook" /\ "hook" \in op[c].settled
    BY <1>1 DEF Artifacts, SettleStep, OwnInv, ReceiptThere, HookThere
  <2>4. /\ r.pc = IF f = "receipt" THEN "check_hook" ELSE "check_committed"
        /\ r.settled = op[c].settled \cup {f}
        /\ r.phase = op[c].phase /\ r.locked = op[c].locked /\ r.author = op[c].author /\ r.err = op[c].err
        /\ r.confirmed = op[c].confirmed /\ r.result = op[c].result
    BY <1>1 DEF Operations
  <2>5. r.settled = op[c].settled
    BY <2>3, <2>4
  <2>6. OwnInv(c, r)
    <3> HIDE DEF r
    <3> QED
      BY <1>1, <2>3, <2>4, <2>5 DEF Operations, OwnInv, Before, InLock, Installing, Preparing,
        ReceiptThere, HookThere, Returning, Removing, Surveying, Disabling, Disclaiming, Removals,
        RemovalOf, Pristine
  <2> QED
    BY <1>2, <2>2, <2>6, BecomeKeeps
<1>3. CASE \E e \in {"input", "recovery", "other"} : Throw(c, e)
  BY <1>1, <1>3, PublishThrows
<1> QED
  BY <1>2, <1>3, LockErrorsType DEF SettlePublish

LEMMA TrackReceiptOwn ==
    ASSUME OwnAll, NEW c \in Commands, TrackReceipt(c)
    PROVE  OpsKept
<1> DEFINE r == [op[c] EXCEPT !.author = entry["receipt"].by,
                              !.pc = IF op[c].exact THEN "track_hook" ELSE "inactive"]
<1>1. op[c] \in Operations /\ OwnInv(c, op[c]) /\ op[c].pc = "track_receipt" /\ op[c].phase = "verify"
  BY OpType DEF OwnAll, TrackReceipt, At, OwnInv, Removals, RemovalOf
<1>2. CASE Recorded /\ Become(c, r)
  <2>1. {"track_hook", "inactive"} \subseteq Labels
    BY Labelled DEF InLock, Removing, Disabling, Disclaiming
  <2>2. entry["receipt"].by \in Commands
    BY <1>2 DEF Recorded, OwnAll, TypeOK, FixedNames, Artifacts, Files
  <2>3. r \in Operations
    BY <1>1, <2>1, <2>2 DEF Operations
  <2>4. /\ r.pc = IF op[c].exact THEN "track_hook" ELSE "inactive"
        /\ r.author = entry["receipt"].by /\ r.author # Nobody
    BY <1>1, <1>2 DEF Operations, Recorded
  <2>5. OwnInv(c, r)
    BY <1>1, <2>4 DEF Operations, OwnInv, Before, InLock, Installing, Preparing, ReceiptThere,
      HookThere, Returning, Removing, Surveying, Disabling, Disclaiming, Removals, RemovalOf,
      Pristine
  <2> QED
    BY <1>2, <2>3, <2>5, BecomeKeeps
<1>3. CASE \E e \in {"input", "recovery", "other"} : Throw(c, e)
  BY <1>1, <1>3, ThrowKeeps DEF Errors, Removing, Surveying
<1> QED
  BY <1>2, <1>3, LockErrorsType DEF TrackReceipt

LEMMA TrackHookOwn ==
    ASSUME OwnAll, NEW c \in Commands, TrackHook(c)
    PROVE  OpsKept
<1>1. op[c] \in Operations /\ OwnInv(c, op[c]) /\ op[c].pc = "track_hook" /\ op[c].phase = "verify"
  BY OpType DEF OwnAll, TrackHook, At, OwnInv, Removals, RemovalOf
<1>2. CASE Go(c, "check_exact")
  <2>1. "check_exact" \in Labels
    BY Labelled DEF InLock, Removing, Disabling
  <2>2. OwnInv(c, [op[c] EXCEPT !.pc = "check_exact"])
    BY <1>1 DEF Operations, OwnInv, Before, InLock, Installing, Preparing, ReceiptThere, HookThere,
      Returning, Removing, Surveying, Disabling, Disclaiming, Removals, RemovalOf, Pristine
  <2> QED
    BY <1>2, <2>1, <2>2, GoKeeps
<1>3. CASE \E e \in {"cancelled", "input", "other"} : Throw(c, e)
  <2>1. ~PastCommit(c)
    BY <1>1 DEF OwnInv, Removing, Disabling, PastCommit, Committed
  <2> QED
    BY <1>1, <1>3, <2>1, ThrowKeeps DEF Errors, Removing, Disabling
<1> QED
  BY <1>2, <1>3 DEF TrackHook

LEMMA SettleDropOwn ==
    ASSUME OwnAll, NEW c \in Commands, NEW f \in Artifacts, SettleDrop(c, f)
    PROVE  OpsKept
<1> DEFINE r == [op[c] EXCEPT !.pc = IF f = "hook" THEN "inactive" ELSE "vacant", !.settled = @ \cup {f}]
<1>1. /\ op[c] \in Operations /\ OwnInv(c, op[c])
      /\ \/ f = "hook" /\ op[c].pc = "dropped_hook"
         \/ f = "receipt" /\ op[c].pc = "dropped_receipt"
  BY OpType DEF OwnAll, SettleDrop, At, Artifacts, DroppedStep
<1>2. CASE Become(c, r)
  <2>1. {"inactive", "vacant"} \subseteq Labels
    BY Labelled DEF InLock, Removing, Disclaiming
  <2>2. r \in Operations
    BY <1>1, <2>1 DEF Operations
  <2>3. OwnInv(c, r)
    BY <1>1 DEF Operations, OwnInv, Before, InLock, Installing, Preparing, ReceiptThere, HookThere,
      Returning, Removing, Surveying, Disabling, Disclaiming, Removals, RemovalOf, Pristine
  <2> QED
    BY <1>2, <2>2, <2>3, BecomeKeeps
<1>3. CASE \E e \in {"input", "recovery", "other"} : Throw(c, e)
  <2>1. op[c].pc \in Removing /\ op[c].phase = "verify"
    BY <1>1 DEF OwnInv, Removing, Disabling, Disclaiming, Removals, RemovalOf
  <2> QED
    BY <1>3, <2>1, ThrowKeeps DEF Errors
<1> QED
  BY <1>2, <1>3, LockErrorsType DEF SettleDrop

LEMMA RemovalLabels == Removals = {"unpublish", "drop_hook", "drop_receipt", "release"}
  BY DEF Removals, RemovalOf

\* What follows a removal that is known to have happened.
AfterRemoval(c) == CASE At(c, "unpublish") -> "unpublished"
                     [] At(c, "drop_hook") -> "dropped_hook"
                     [] At(c, "drop_receipt") -> "dropped_receipt"
                     [] At(c, "release") -> "report"

LEMMA RemovedIs ==
    ASSUME OwnAll, NEW c \in Commands, op[c].pc \in Removals, Removed(c)
    PROVE  Become(c, [op[c] EXCEPT !.pc = AfterRemoval(c), !.phase = "verify",
                                   !.locked = @ /\ op[c].pc # "release"])
<1>1. op[c] \in Operations /\ op[c].locked = TRUE
  <2>1. op[c].locked
    BY RemovalLabels DEF OwnAll, OwnInv, InLock, Returning, Removing, Disabling, Disclaiming
  <2> QED
    BY <2>1, OpType DEF Operations
<1>2. op[c].pc \in {"unpublish", "drop_hook", "drop_receipt", "release"}
  BY RemovalLabels
<1>3. CASE op[c].pc = "unpublish"
  BY <1>1, <1>3 DEF Removed, AfterRemoval, At, Operations
<1>4. CASE op[c].pc = "drop_hook"
  BY <1>1, <1>4 DEF Removed, AfterRemoval, At, Operations
<1>5. CASE op[c].pc = "drop_receipt"
  BY <1>1, <1>5 DEF Removed, AfterRemoval, At, Operations
<1>6. CASE op[c].pc = "release"
  BY <1>1, <1>6 DEF Removed, AfterRemoval, At, Operations
<1> QED
  BY <1>2, <1>3, <1>4, <1>5, <1>6

LEMMA RemovedOwn ==
    ASSUME OwnAll, NEW c \in Commands, op[c].pc \in Removals, Removed(c)
    PROVE  OpsKept
<1> DEFINE r == [op[c] EXCEPT !.pc = AfterRemoval(c), !.phase = "verify", !.locked = @ /\ op[c].pc # "release"]
<1>1. op[c] \in Operations /\ OwnInv(c, op[c])
  BY OpType DEF OwnAll
<1>2. \/ op[c].pc = "unpublish" /\ AfterRemoval(c) = "unpublished"
      \/ op[c].pc = "drop_hook" /\ AfterRemoval(c) = "dropped_hook"
      \/ op[c].pc = "drop_receipt" /\ AfterRemoval(c) = "dropped_receipt"
      \/ op[c].pc = "release" /\ AfterRemoval(c) = "report"
  BY RemovalLabels DEF AfterRemoval, At
<1>3. AfterRemoval(c) \in Labels
  BY <1>2, Labelled DEF InLock, Returning, Removing, Disabling, Disclaiming
<1>4. r \in Operations
  BY <1>1, <1>3 DEF Operations
<1>5. /\ r.pc = AfterRemoval(c) /\ r.phase = "verify"
      /\ r.locked = (op[c].locked /\ op[c].pc # "release")
      /\ r.author = op[c].author /\ r.settled = op[c].settled /\ r.err = op[c].err
      /\ r.confirmed = op[c].confirmed /\ r.result = op[c].result
  BY <1>1 DEF Operations
<1>6. OwnInv(c, r)
  <2> HIDE DEF r
  <2> QED
    BY <1>1, <1>2, <1>5 DEF Operations, OwnInv, Before, InLock, Installing, Preparing,
      ReceiptThere, HookThere, Returning, Removing, Surveying, Disabling, Disclaiming, Removals,
      RemovalOf, Pristine
<1> QED
  BY <1>4, <1>6, RemovedIs, BecomeKeeps

LEMMA UnconfirmedOwn ==
    ASSUME OwnAll, NEW c \in Commands, op[c].pc \in Returning, Unconfirmed(c, "cleanup")
    PROVE  OpsKept
<1> DEFINE r == [op[c] EXCEPT !.pc = "cleanup", !.phase = "verify", !.confirmed = FALSE]
<1>1. op[c] \in Operations /\ OwnInv(c, op[c]) /\ "cleanup" \in Labels
  BY OpType, Labelled DEF OwnAll
<1>2. r \in Operations
  BY <1>1 DEF Operations
<1>3. OwnInv(c, r)
  BY <1>1 DEF Operations, OwnInv, Before, InLock, Installing, Preparing, ReceiptThere, HookThere,
    Returning, Removing, Surveying, Disabling, Disclaiming, Removals, RemovalOf, Pristine
<1> QED
  BY <1>2, <1>3, BecomeKeeps DEF Unconfirmed

LEMMA NotRemovedOwn ==
    ASSUME OwnAll, NEW c \in Commands, op[c].pc \in Removals, NotRemoved(c)
    PROVE  OpsKept
<1>1. /\ op[c] \in Operations /\ OwnInv(c, op[c]) /\ {"report", "catch"} \subseteq Labels
      /\ op[c].pc \in {"unpublish", "drop_hook", "drop_receipt", "release"}
  BY OpType, Labelled, RemovalLabels DEF OwnAll
<1>2. CASE op[c].pc = "release"
  <2> DEFINE r == [op[c] EXCEPT !.pc = "report", !.phase = "verify", !.locked = FALSE, !.confirmed = FALSE]
  <2>1. r \in Operations
    BY <1>1 DEF Operations
  <2>2. OwnInv(c, r)
    BY <1>1, <1>2 DEF Operations, OwnInv, Before, InLock, Installing, Preparing, ReceiptThere,
      HookThere, Returning, Removing, Surveying, Disabling, Disclaiming, Removals, RemovalOf,
      Pristine
  <2> QED
    BY <1>2, <2>1, <2>2, BecomeKeeps DEF NotRemoved, At
<1>3. CASE op[c].pc = "unpublish"
  BY <1>3, UnconfirmedOwn DEF NotRemoved, At, Returning
<1>4. CASE op[c].pc \in {"drop_hook", "drop_receipt"}
  <2> DEFINE r == [op[c] EXCEPT !.pc = "catch", !.phase = "verify", !.err = "recovery"]
  <2>1. r \in Operations
    BY <1>1 DEF Operations, Errors
  <2>2. OwnInv(c, r)
    BY <1>1, <1>4 DEF Operations, OwnInv, Before, InLock, Installing, Preparing, ReceiptThere,
      HookThere, Returning, Removing, Surveying, Disabling, Disclaiming, Removals, RemovalOf,
      Pristine
  <2> QED
    BY <1>4, <2>1, <2>2, BecomeKeeps DEF NotRemoved, At
<1> QED
  BY <1>1, <1>2, <1>3, <1>4

LEMMA RemoveVerifyOwn ==
    ASSUME OwnAll, NEW c \in Commands, RemoveVerify(c)
    PROVE  OpsKept
<1>1. op[c] \in Operations /\ OwnInv(c, op[c]) /\ op[c].pc \in Removals
  BY OpType DEF OwnAll, RemoveVerify
<1>2. CASE Become(c, [op[c] EXCEPT !.phase = "unlink"])
  <2>1. [op[c] EXCEPT !.phase = "unlink"] \in Operations
    BY <1>1 DEF Operations
  <2>2. OwnInv(c, [op[c] EXCEPT !.phase = "unlink"])
    BY <1>1 DEF Operations, OwnInv, Before, InLock, Installing, Preparing, ReceiptThere, HookThere,
      Returning, Removing, Surveying, Disabling, Disclaiming, Removals, RemovalOf, Pristine
  <2> QED
    BY <1>2, <2>1, <2>2, BecomeKeeps
<1> QED
  BY <1>1, <1>2, RemovedOwn, NotRemovedOwn DEF RemoveVerify

LEMMA TargetIs ==
    ASSUME NEW c, op[c].pc \in Removals
    PROVE  Target(c) = IF op[c].pc = "release" THEN "lock"
                       ELSE IF op[c].pc = "drop_hook" THEN "hook" ELSE "receipt"
  BY RemovalLabels DEF Target, RemovalOf

LEMMA RemoveUnlinkOwn ==
    ASSUME OwnAll, NEW c \in Commands, RemoveUnlink(c)
    PROVE  OpsKept
<1> DEFINE r == [op[c] EXCEPT !.phase = "gone", !.changed = Touched(c)]
<1>1. op[c] \in Operations /\ OwnInv(c, op[c]) /\ op[c].pc \in Removals
  BY OpType DEF OwnAll, RemoveUnlink
<1>2. CASE Become(c, r)
  <2>1. op[c].changed \subseteq Artifacts
    BY <1>1 DEF Operations
  <2>2. Touched(c) \subseteq Artifacts
    BY <1>1, <2>1, TargetIs DEF Touched, Artifacts
  <2>3. r \in Operations
    BY <1>1, <2>2 DEF Operations
  <2>4. /\ r.pc = op[c].pc /\ r.phase = "gone" /\ r.locked = op[c].locked
        /\ r.author = op[c].author /\ r.settled = op[c].settled /\ r.err = op[c].err
        /\ r.confirmed = op[c].confirmed /\ r.result = op[c].result
    BY <1>1 DEF Operations
  <2>5. OwnInv(c, r)
    <3> HIDE DEF r
    <3> QED
      BY <1>1, <2>4 DEF Operations, OwnInv, Before, InLock, Installing, Preparing, ReceiptThere,
        HookThere, Returning, Removing, Surveying, Disabling, Disclaiming, Removals, RemovalOf,
        Pristine
  <2> QED
    BY <1>2, <2>3, <2>5, BecomeKeeps
<1> QED
  BY <1>1, <1>2, NotRemovedOwn DEF RemoveUnlink

LEMMA RemoveGoneOwn ==
    ASSUME OwnAll, NEW c \in Commands, RemoveGone(c)
    PROVE  OpsKept
  BY RemovedOwn, NotRemovedOwn DEF RemoveGone

LEMMA CatchOwn ==
    ASSUME OwnAll, NEW c \in Commands, Catch(c)
    PROVE  OpsKept
<1> DEFINE l == IF ~Install(c) THEN IF op[c].locked THEN "release" ELSE "report"
                ELSE IF NeedsUnpublish(c) THEN "check_unpublish" ELSE "cleanup"
<1>1. op[c] \in Operations /\ OwnInv(c, op[c]) /\ op[c].pc = "catch"
  BY OpType DEF OwnAll, Catch, At
<1>2. l \in Labels
  BY Labelled DEF InLock, Returning
<1>3. NeedsUnpublish(c) => op[c].settled = {"receipt"} /\ op[c].locked
  BY <1>1 DEF NeedsUnpublish, OwnInv, Pristine
<1>4. OwnInv(c, [op[c] EXCEPT !.pc = l])
  BY <1>1, <1>3 DEF Operations, OwnInv, Before, InLock, Installing, Preparing, ReceiptThere,
    HookThere, Returning, Removing, Surveying, Disabling, Disclaiming, Removals, RemovalOf, Pristine
<1> QED
  BY <1>2, <1>4, GoKeeps DEF Catch

LEMMA CheckUnpublishOwn ==
    ASSUME OwnAll, NEW c \in Commands, CheckUnpublish(c)
    PROVE  OpsKept
<1>1. /\ op[c] \in Operations /\ OwnInv(c, op[c]) /\ op[c].pc \in {"check_unpublish", "unpublished"}
      /\ {"unpublish", "cleanup"} \subseteq Labels
  BY OpType, Labelled DEF OwnAll, CheckUnpublish, InLock, Returning
<1>2. CASE op[c].pc = "check_unpublish" /\ Go(c, "unpublish")
  <2>1. OwnInv(c, [op[c] EXCEPT !.pc = "unpublish"])
    BY <1>1, <1>2 DEF Operations, OwnInv, Before, InLock, Installing, Preparing, ReceiptThere,
      HookThere, Returning, Removing, Surveying, Disabling, Disclaiming, Removals, RemovalOf,
      Pristine
  <2> QED
    BY <1>1, <1>2, <2>1, GoKeeps
<1>3. CASE Go(c, "cleanup")
  <2>1. OwnInv(c, [op[c] EXCEPT !.pc = "cleanup"])
    BY <1>1 DEF Operations, OwnInv, Before, InLock, Installing, Preparing, ReceiptThere, HookThere,
      Returning, Removing, Surveying, Disabling, Disclaiming, Removals, RemovalOf, Pristine
  <2> QED
    BY <1>1, <1>3, <2>1, GoKeeps
<1>4. CASE Unconfirmed(c, "cleanup")
  BY <1>1, <1>4, UnconfirmedOwn DEF Returning
<1> QED
  BY <1>1, <1>2, <1>3, <1>4 DEF CheckUnpublish, At

\* What cleanupOperation leaves behind.
Emptied(c, gone) == op[c].tracked => stage[c] \ gone = {} /\ staging[c] = "clean"
Cleaned(c, gone) == op[c].staged \subseteq gone /\ Emptied(c, gone)

LEMMA CleanUpIs ==
    ASSUME NEW c \in Commands, NEW gone, CleanUp(c, gone)
    PROVE  /\ stage' = [stage EXCEPT ![c] = stage[c] \ gone]
           /\ staging' = [staging EXCEPT ![c] = IF op[c].tracked /\ Emptied(c, gone) THEN "none" ELSE @]
           /\ Become(c, [op[c] EXCEPT !.pc = IF op[c].locked /\ Cleaned(c, gone) THEN "release" ELSE "report",
                                      !.confirmed = @ /\ Cleaned(c, gone), !.locked = @ /\ Cleaned(c, gone)])
  BY DEF CleanUp, Emptied, Cleaned, AfterCleanup

LEMMA CleanUpOwn ==
    ASSUME OwnAll, NEW c \in Commands, op[c].pc = "cleanup", NEW gone, CleanUp(c, gone)
    PROVE  OpsKept
<1> DEFINE r == [op[c] EXCEPT !.pc = IF op[c].locked /\ Cleaned(c, gone) THEN "release" ELSE "report",
                              !.confirmed = @ /\ Cleaned(c, gone), !.locked = @ /\ Cleaned(c, gone)]
<1>1. op[c] \in Operations /\ OwnInv(c, op[c]) /\ {"release", "report"} \subseteq Labels
  BY OpType, Labelled DEF OwnAll, InLock
<1>2. r \in Operations
  <2>1. (op[c].confirmed /\ Cleaned(c, gone)) \in BOOLEAN /\ (op[c].locked /\ Cleaned(c, gone)) \in BOOLEAN
    OBVIOUS
  <2> QED
    BY <1>1, <2>1 DEF Operations
<1>3. /\ r.pc = IF op[c].locked /\ Cleaned(c, gone) THEN "release" ELSE "report"
      /\ r.locked = (op[c].locked /\ Cleaned(c, gone))
      /\ r.author = op[c].author /\ r.settled = op[c].settled /\ r.err = op[c].err
      /\ r.phase = op[c].phase /\ r.result = op[c].result
  BY <1>1 DEF Operations
<1>4. OwnInv(c, r)
  <2> HIDE DEF r
  <2> QED
    BY <1>1, <1>3 DEF Operations, OwnInv, Before, InLock, Installing, Preparing, ReceiptThere,
      HookThere, Returning, Removing, Surveying, Disabling, Disclaiming, Removals, RemovalOf,
      Pristine
<1> QED
  BY <1>2, <1>4, CleanUpIs, BecomeKeeps

LEMMA CleanupOwn ==
    ASSUME OwnAll, NEW c \in Commands, Cleanup(c)
    PROVE  OpsKept
  BY CleanUpOwn DEF Cleanup, At

LEMMA OutcomeIs ==
    ASSUME OwnAll, NEW c \in Commands, ~(op[c].err = "none" /\ op[c].confirmed)
    PROVE  Outcome(c) \in Results \ {"none"} /\ (Outcome(c) = "cancelled" => ~PastCommit(c))
<1>1. op[c].err \in Errors
  BY OpType DEF Operations
<1> QED
  BY <1>1 DEF Outcome, Errors, Results

LEMMA ReportOutcomeOwn ==
    ASSUME OwnAll, NEW c \in Commands, ReportOutcome(c)
    PROVE  OpsKept
<1>1. op[c].pc = "report"
  BY DEF ReportOutcome, At
<1>2. CASE \E res \in {"installed", "removed", "recovery"} : Report(c, res)
  BY <1>1, <1>2, ReportKeeps DEF Results
<1>3. CASE ~(op[c].err = "none" /\ op[c].confirmed) /\ Report(c, Outcome(c))
  BY <1>1, <1>3, OutcomeIs, ReportKeeps
<1> QED
  BY <1>2, <1>3 DEF ReportOutcome

LEMMA CancelOwn ==
    ASSUME OwnAll, NEW c \in Commands, Cancel(c)
    PROVE  OpsKept
<1> DEFINE r == [op[c] EXCEPT !.aborted = TRUE]
<1>1. op[c] \in Operations /\ OwnInv(c, op[c])
  BY OpType DEF OwnAll
<1>2. r \in Operations
  BY <1>1 DEF Operations
<1>3. OwnInv(c, r)
  BY <1>1 DEF Operations, OwnInv, Before, InLock, Installing, Preparing, ReceiptThere, HookThere,
    Returning, Removing, Surveying, Disabling, Disclaiming, Removals, RemovalOf, Pristine
<1> QED
  BY <1>2, <1>3, BecomeKeeps DEF Cancel

LEMMA CrashOwn ==
    ASSUME OwnAll, NEW c \in Commands, Crash(c)
    PROVE  OpsKept
<1>1. op[c] \in Operations /\ OwnInv(c, op[c]) /\ op[c].pc # "done" /\ "crashed" \in Labels
  BY OpType, Labelled DEF OwnAll, Crash, Running
<1>2. OwnInv(c, [op[c] EXCEPT !.pc = "crashed"])
  BY <1>1 DEF Operations, OwnInv, Before, InLock, Installing, Preparing, ReceiptThere, HookThere,
    Returning, Removing, Surveying, Disabling, Disclaiming, Removals, RemovalOf, Pristine
<1> QED
  BY <1>1, <1>2, GoKeeps DEF Crash

\* A call that fails, step by step.
LEMMA FailOwn ==
    ASSUME OwnAll, NEW c \in Commands, FailingCall(c)
    PROVE  OpsKept
<1>1. op[c] \in Operations /\ OwnInv(c, op[c])
  BY OpType DEF OwnAll
<1>2. CASE op[c].pc = "observe" /\ \E res \in {"input", "failed"} : Report(c, res)
  BY <1>2, ReportKeeps DEF Results
<1>3. CASE op[c].pc = "write_lock" /\ Go(c, "abandon_lock")
  <2>1. OwnInv(c, [op[c] EXCEPT !.pc = "abandon_lock"])
    BY <1>1, <1>3 DEF Operations, OwnInv, Before, InLock, Installing, Preparing, ReceiptThere,
      HookThere, Returning, Removing, Surveying, Disabling, Disclaiming, Removals, RemovalOf,
      Pristine
  <2> QED
    BY <1>3, <2>1, GoKeeps, Labelled DEF Before
<1>4. CASE op[c].pc \in Checks /\ \E e \in {"other", "input", Unexpected(op[c].pc)} : Throw(c, e)
  <2>1. op[c].pc \in Installing \cup Removing /\ op[c].phase = "verify"
    BY <1>1, <1>4, CheckLabels DEF OwnInv
  <2>2. Unexpected(op[c].pc) \in {"input", "recovery"}
    BY DEF Unexpected
  <2> QED
    BY <1>4, <2>1, <2>2, ThrowKeeps DEF Errors
<1>5. CASE op[c].pc = "make_staging" /\ Become(c, StagingUnknown(c))
  <2>1. StagingUnknown(c) \in Operations
    <3>1. "report" \in Labels
      BY Labelled
    <3> QED
      BY <1>1, <3>1 DEF StagingUnknown, Operations, Errors
  <2>2. OwnInv(c, StagingUnknown(c))
    BY <1>1, <1>5 DEF StagingUnknown, Operations, OwnInv, Before, InLock, Installing, Preparing,
      ReceiptThere, HookThere, Returning, Removing, Surveying, Disabling, Disclaiming, Removals,
      RemovalOf, Pristine
  <2> QED
    BY <1>5, <2>1, <2>2, BecomeKeeps
<1>6. CASE /\ op[c].pc \in {"lock", "abandon_lock", "stage_receipt", "stage_hook", "probe",
                            "track_receipt", "track_hook"}
           /\ \E e \in {"input", "other", "recovery"} : Throw(c, e)
  <2>1. op[c].phase = "verify" /\ op[c].pc \in (Before \ {"idle"}) \cup Installing \cup Removing
    BY <1>1, <1>6 DEF OwnInv, Removals, RemovalOf, Before, Installing, Preparing, Removing,
      Surveying, Disabling
  <2> QED
    BY <1>6, <2>1, ThrowKeeps DEF Errors
<1>7. CASE \E f \in Artifacts :
              /\ At(c, LinkStep[f])
              /\ Become(c, [op[c] EXCEPT !.pc = InspectStep[f],
                                         !.changed = IF entry' = entry THEN @ ELSE @ \cup {f}])
  <2>1. PICK f \in Artifacts :
              /\ At(c, LinkStep[f])
              /\ Become(c, [op[c] EXCEPT !.pc = InspectStep[f],
                                         !.changed = IF entry' = entry THEN @ ELSE @ \cup {f}])
    BY <1>7
  <2> DEFINE r == [op[c] EXCEPT !.pc = InspectStep[f],
                                !.changed = IF entry' = entry THEN @ ELSE @ \cup {f}]
  <2>2. \/ op[c].pc = "link_receipt" /\ InspectStep[f] = "inspect_receipt"
        \/ op[c].pc = "link_hook" /\ InspectStep[f] = "inspect_hook"
    BY <2>1 DEF At, Artifacts, LinkStep, InspectStep
  <2>3. InspectStep[f] \in Labels
    BY <2>2, Labelled DEF InLock, Installing, Preparing, ReceiptThere
  <2>4. r \in Operations
    BY <1>1, <2>3 DEF Operations
  <2>5. OwnInv(c, r)
    BY <1>1, <2>2 DEF Operations, OwnInv, Before, InLock, Installing, Preparing, ReceiptThere,
      HookThere, Returning, Removing, Surveying, Disabling, Disclaiming, Removals, RemovalOf,
      Pristine
  <2> QED
    BY <2>1, <2>4, <2>5, BecomeKeeps
<1>8. CASE \E f \in Artifacts : /\ op[c].pc \in {InspectStep[f], ConfirmStep[f], UnstageStep[f], SettleStep[f]}
                                /\ \E e \in {"input", "recovery", "other"} : Throw(c, e)
  BY <1>8, PublishThrows
<1>9. CASE op[c].pc \in StepsOf(DroppedStep) /\ \E e \in {"input", "recovery", "other"} : Throw(c, e)
  <2>1. op[c].pc \in Removing /\ op[c].phase = "verify"
    BY <1>1, <1>9 DEF StepsOf, DroppedStep, Artifacts, OwnInv, Removals, RemovalOf, Removing,
      Disabling, Disclaiming
  <2> QED
    BY <1>9, <2>1, ThrowKeeps DEF Errors
<1>10. CASE op[c].pc \in Removals /\ NotRemoved(c)
  BY <1>10, NotRemovedOwn
<1>11. CASE op[c].pc \in {"check_unpublish", "unpublished"} /\ Unconfirmed(c, "cleanup")
  BY <1>11, UnconfirmedOwn DEF Returning
<1>12. CASE op[c].pc = "cleanup" /\ \E gone \in SUBSET op[c].staged : CleanUp(c, gone)
  BY <1>12, CleanUpOwn
<1>13. CASE op[c].pc = "report" /\ Report(c, "recovery")
  BY <1>13, ReportKeeps DEF Results
<1>14. \A s \in {InspectStep, ConfirmStep, SettleStep} : op[c].pc \in StepsOf(s) => \E f \in Artifacts : op[c].pc = s[f]
  BY DEF StepsOf
<1> QED
  BY <1>2, <1>3, <1>4, <1>5, <1>6, <1>7, <1>8, <1>9, <1>10, <1>11, <1>12, <1>13,
    <1>14 DEF FailingCall, At

-----------------------------------------------------------------------------
(* The disk keeps its type; both together for every step.                  *)

DiskType == /\ entry \in [FixedNames -> Files]
            /\ stage \in [Commands -> SUBSET Artifacts]
            /\ staging \in [Commands -> {"none", "clean", "littered"}]

LEMMA FilesTyped ==
    NoFile \in Files /\ Foreign \in Files /\ \A c \in Commands : Whole(c) \in Files /\ Blank(c) \in Files
  BY DEF Files, NoFile, Foreign, Whole, Blank

\* How the lock, the receipt and the settings file may change at once.
LEMMA EntryTyped ==
    ASSUME DiskType, NEW n \in FixedNames, NEW f \in Files, entry' \in {entry, [entry EXCEPT ![n] = f]},
           UNCHANGED <<stage, staging>>
    PROVE  DiskType'
  BY DEF DiskType

LEMMA CleanUpTyped ==
    ASSUME DiskType, NEW c \in Commands, NEW gone, CleanUp(c, gone), UNCHANGED entry
    PROVE  DiskType'
<1>1. stage' \in [Commands -> SUBSET Artifacts]
  <2>1. stage' = [stage EXCEPT ![c] = stage[c] \ gone]
    BY CleanUpIs
  <2>2. stage[c] \ gone \in SUBSET Artifacts
    BY DEF DiskType
  <2> QED
    BY <2>1, <2>2 DEF DiskType
<1>2. staging' = [staging EXCEPT ![c] = "none"] \/ staging' = [staging EXCEPT ![c] = staging[c]]
  <2>1. CASE op[c].tracked /\ Emptied(c, gone)
    BY <2>1, CleanUpIs
  <2>2. CASE ~(op[c].tracked /\ Emptied(c, gone))
    BY <2>2, CleanUpIs
  <2> QED
    BY <2>1, <2>2
<1>3. staging' \in [Commands -> {"none", "clean", "littered"}]
  BY <1>2 DEF DiskType
<1> QED
  BY <1>1, <1>3 DEF DiskType

LEMMA StepDisk ==
    ASSUME DiskType, NEW c \in Commands, Step(c)
    PROVE  DiskType'
<1>1. "lock" \in FixedNames /\ Artifacts \subseteq FixedNames
  BY DEF FixedNames
<1>2. CASE CreateLock(c) \/ WriteLock(c) \/ AbandonLock(c)
  BY <1>1, <1>2, FilesTyped, EntryTyped DEF CreateLock, WriteLock, AbandonLock
<1>3. CASE UNCHANGED disk
  BY <1>3 DEF disk, DiskType
<1>4. CASE MakeStaging(c)
  BY <1>4 DEF MakeStaging, DiskType
<1>5. CASE \E f \in Artifacts : CreateStageFile(c, f) \/ Unstage(c, f)
  BY <1>5 DEF CreateStageFile, Unstage, DiskType
<1>6. CASE \E f \in Artifacts : Link(c, f)
  BY <1>1, <1>6, FilesTyped, EntryTyped DEF Link
<1>7. CASE RemoveUnlink(c)
  <2>1. Target(c) \in FixedNames
    BY <1>7, TargetIs DEF RemoveUnlink, FixedNames, Artifacts
  <2> QED
    BY <1>7, <2>1, FilesTyped, EntryTyped DEF RemoveUnlink
<1>8. CASE Cleanup(c)
  BY <1>8, CleanUpTyped DEF Cleanup
<1> QED
  BY <1>2, <1>3, <1>4, <1>5, <1>6, <1>7, <1>8
  DEF Step, ObserveFirst, Check, Probe, InspectPublish, ConfirmPublish, SettlePublish, SettleDrop,
    TrackReceipt,
      TrackHook, RemoveVerify, RemoveGone, Catch, CheckUnpublish, ReportOutcome

LEMMA FailDisk ==
    ASSUME DiskType, NEW c \in Commands, FailingCall(c)
    PROVE  DiskType'
<1>1. "lock" \in FixedNames /\ Artifacts \subseteq FixedNames
  BY DEF FixedNames
<1>2. CASE UNCHANGED disk
  BY <1>2 DEF disk, DiskType
<1>3. CASE \E n \in FixedNames, f \in Files : entry' \in {entry, [entry EXCEPT ![n] = f]} /\ UNCHANGED <<stage, staging>>
  BY <1>3, EntryTyped
<1>4. CASE /\ staging' \in {staging, [staging EXCEPT ![c] = "clean"], [staging EXCEPT ![c] = "littered"]}
           /\ UNCHANGED <<entry, stage>>
  BY <1>4 DEF DiskType
<1>5. CASE \E f \in Artifacts : stage' \in {stage, [stage EXCEPT ![c] = @ \ {f}]} /\ UNCHANGED <<entry, staging>>
  BY <1>5 DEF DiskType
<1>6. CASE \E gone : CleanUp(c, gone) /\ UNCHANGED entry
  BY <1>6, CleanUpTyped
<1>7. \/ UNCHANGED disk
      \/ \E n \in FixedNames, f \in Files : entry' \in {entry, [entry EXCEPT ![n] = f]} /\ UNCHANGED <<stage, staging>>
      \/ /\ staging' \in {staging, [staging EXCEPT ![c] = "clean"], [staging EXCEPT ![c] = "littered"]}
         /\ UNCHANGED <<entry, stage>>
      \/ \E f \in Artifacts : stage' \in {stage, [stage EXCEPT ![c] = @ \ {f}]} /\ UNCHANGED <<entry, staging>>
      \/ \E gone : CleanUp(c, gone) /\ UNCHANGED entry
  <2>1. CASE At(c, "write_lock") /\ UNCHANGED <<stage, staging>>
          /\ entry' \in {entry} \cup (IF entry["lock"] = Blank(c)
                                        THEN {[entry EXCEPT !["lock"] = Whole(c)]} ELSE {})
    BY <2>1, <1>1, FilesTyped
  <2>2. CASE \E f \in Artifacts :
               /\ entry' \in {entry} \cup (IF Present(f) THEN {} ELSE {[entry EXCEPT ![f] = Whole(c)]})
               /\ UNCHANGED <<stage, staging>>
    BY <2>2, <1>1, FilesTyped
  <2> QED
    BY <2>1, <2>2 DEF FailingCall, Littering
<1> QED
  BY <1>2, <1>3, <1>4, <1>5, <1>6, <1>7

LEMMA StepOwn ==
    ASSUME OwnAll, NEW c \in Commands, Step(c)
    PROVE  OpsKept
  BY ObserveFirstOwn, CreateLockOwn, WriteLockOwn, AbandonLockOwn, CheckOwn, MakeStagingOwn,
    ProbeOwn,
     CreateStageFileOwn, LinkOwn, InspectPublishOwn, ConfirmPublishOwn, UnstageOwn, SettlePublishOwn,
     SettleDropOwn, TrackReceiptOwn, TrackHookOwn, RemoveVerifyOwn, RemoveUnlinkOwn, RemoveGoneOwn,
     CatchOwn, CheckUnpublishOwn, CleanupOwn, ReportOutcomeOwn
  DEF Step

LEMMA EnvKeeps ==
    ASSUME OwnAll, EnvStep
    PROVE  OwnAll'
<1>1. entry' \in [FixedNames -> Files] /\ hygiene' \in Hygienes
  BY FilesTyped DEF EnvStep, OwnAll, TypeOK
<1>2. scenario.changes \in Nat
  BY ClaudeAssumption DEF OwnAll, TypeOK
<1>3. changes' \in 0..scenario'.changes
  BY <1>2 DEF EnvStep, OwnAll, TypeOK
<1>4. \A c \in Commands : OwnInv(c, op[c])'
  BY DEF EnvStep, OwnAll, OwnInv, Pristine, Install
<1> QED
  BY <1>1, <1>3, <1>4 DEF EnvStep, OwnAll, TypeOK

LEMMA OwnStep ==
    ASSUME OwnAll, [Next]_vars
    PROVE  OwnAll'
<1>1. DiskType /\ scenario.faults \in Nat
  BY ClaudeAssumption DEF OwnAll, TypeOK, DiskType
<1>2. ASSUME NEW c \in Commands, OpsKept, DiskType', UNCHANGED <<hygiene, scenario, changes>>,
             faults' \in 0..scenario.faults
      PROVE  OwnAll'
  BY <1>2 DEF OpsKept, OwnAll, TypeOK, DiskType, OwnInv, Pristine, Install
<1>3. ASSUME NEW c \in Commands, Step(c)
      PROVE  OwnAll'
  <2>1. UNCHANGED <<hygiene, scenario, changes>> /\ faults' \in 0..scenario.faults
    BY <1>3 DEF Step, OwnAll, TypeOK
  <2> QED
    BY <1>1, <1>2, <1>3, <2>1, StepOwn, StepDisk
<1>4. ASSUME NEW c \in Commands, Fail(c)
      PROVE  OwnAll'
  <2>1. UNCHANGED <<hygiene, scenario, changes>> /\ faults' \in 0..scenario.faults
    BY <1>1, <1>4 DEF Fail, OwnAll, TypeOK
  <2> QED
    BY <1>1, <1>2, <1>4, <2>1, FailOwn, FailDisk DEF Fail
<1>5. ASSUME NEW c \in Commands, Cancel(c) \/ Crash(c)
      PROVE  OwnAll'
  <2>1. UNCHANGED <<hygiene, scenario, changes>> /\ faults' \in 0..scenario.faults /\ UNCHANGED disk
    BY <1>5 DEF Cancel, Crash, OwnAll, TypeOK
  <2>2. DiskType'
    BY <1>1, <2>1 DEF DiskType, disk
  <2> QED
    BY <1>2, <1>5, <2>1, <2>2, CancelOwn, CrashOwn
<1>6. CASE UNCHANGED vars
  BY <1>6 DEF vars, disk, OwnAll, TypeOK, OwnInv, Pristine, Install
<1> QED
  BY <1>3, <1>4, <1>5, <1>6, EnvKeeps DEF Next

LEMMA InitOwn == Init => OwnAll
<1> SUFFICES ASSUME Init PROVE OwnAll
  OBVIOUS
<1>1. /\ scenario.running \in SUBSET Commands /\ scenario.earlier \in Commands \cup {Nobody}
      /\ scenario.faults \in Nat /\ scenario.changes \in Nat
  BY ClaudeAssumption DEF Init
<1>2. ASSUME NEW c \in Commands, NEW b
      PROVE  Start(c, b) \in Operations
  <2> DEFINE l == IF b THEN "observe" ELSE "idle"
             a == IF Kind[c] = "install" THEN c ELSE Nobody
  <2>1. l \in Labels
    BY Labelled DEF Before
  <2>2. a \in Commands \cup {Nobody}
    OBVIOUS
  <2>3. Start(c, b) = [pc |-> l, phase |-> "verify", aborted |-> FALSE, locked |-> FALSE, author |-> a,
                       exact |-> FALSE, staged |-> {}, tracked |-> FALSE, settled |-> {}, confirmed |-> TRUE,
                       err |-> "none", result |-> "none", changed |-> {}]
    BY DEF Start
  <2> HIDE DEF l, a
  <2> QED
    BY <2>1, <2>2, <2>3 DEF Operations, Errors, Results
<1>3. op \in [Commands -> Operations] /\ \A c \in Commands : op[c] = Start(c, c \in scenario.running)
  BY <1>2 DEF Init
<1>4. \A c \in Commands : OwnInv(c, op[c])
  <2>1. ASSUME NEW c \in Commands, NEW b
        PROVE  OwnInv(c, Start(c, b))
    BY DEF Start, Install, Operations, OwnInv, Before, InLock, Installing, Preparing, ReceiptThere,
      HookThere, Returning, Removing, Surveying, Disabling, Disclaiming, Removals, RemovalOf,
      Pristine
  <2> QED
    BY <1>3, <2>1
<1>5. entry \in [FixedNames -> Files]
  BY <1>1, FilesTyped DEF Init
<1> QED
  BY <1>1, <1>3, <1>4, <1>5 DEF Init, OwnAll, TypeOK, Hygienes

LEMMA OwnAlways == Spec => []OwnAll
  BY InitOwn, OwnStep, PTL DEF Spec

\* Every variable keeps the type it was declared with, whatever fails, is
\* killed or interferes.
THEOREM TypeCorrect == Spec => []TypeOK
<1>1. OwnAll => TypeOK
  BY DEF OwnAll
<1> QED
  BY <1>1, OwnAlways, PTL

\* Once a command is committed a cancellation is neither the error it stops
\* with nor its answer: options.signal is passed on only until then.
THEOREM CommitIsFinal == Spec => []CommitOutlivesCancellation
<1>1. OwnAll => CommitOutlivesCancellation
  BY DEF OwnAll, OwnInv, CommitOutlivesCancellation, PastCommit, Committed
<1> QED
  BY <1>1, OwnAlways, PTL

-----------------------------------------------------------------------------
(* The disk and what a command knows of it: who holds the lock, which of   *)
(* its files are in place, what it has changed and not taken back.         *)

\* Other programs replace no file but the settings file.
OthersReplaceHookOnly == EnvEdits \subseteq {"hook"}

\* The check of the lock right after a file of the installation was removed
\* does not fail.
DropsSucceed == FaultSteps \cap StepsOf(DroppedStep) = {}

Holding(r) == r.locked /\ r.pc # "crashed" /\ ~(r.pc = "release" /\ r.phase = "gone")

\* r: the command's variables, e: the fixed names, s: its staging directory.
LockInv(c, r, e, s) ==
    /\ Holding(r) => e["lock"] = Whole(c)
    /\ r.pc = "write_lock" => e["lock"] = Blank(c)
    /\ r.pc = "abandon_lock" => e["lock"].by = c
    /\ r.pc \in {"idle", "observe", "lock"} => e["lock"].by # c
    /\ r.pc = "release" /\ r.phase = "gone" => e["lock"].by # c
    /\ s # "none" => /\ e["lock"] = Whole(c) /\ Install(c)
                     /\ r.pc \in {"report", "done", "crashed"} \/ r.tracked
    /\ r.pc = "release" => s = "none"

FilesInv(c, r, e) ==
    /\ r.pc \in Removals /\ r.phase = "unlink" =>
          e[RemovalOf[r.pc]] = Whole(IF r.pc = "release" THEN c ELSE r.author)
    /\ r.pc \in {"unpublish", "drop_receipt"} => e["hook"].by = Nobody
    /\ Install(c) /\ "receipt" \in r.settled /\ ~(r.pc = "unpublish" /\ r.phase = "gone")
          /\ r.pc \in ReceiptThere \cup HookThere \cup {"catch", "check_unpublish", "unpublish"} =>
          e["receipt"] = Whole(c)

InstallChanges(c, r, e) ==
    /\ r.pc \in Preparing \ {"inspect_receipt"} => r.changed = {}
    /\ r.pc = "inspect_receipt" => r.changed = {} \/ (r.changed = {"receipt"} /\ e["receipt"] = Whole(c))
    /\ r.pc \in ReceiptThere \ {"inspect_hook"} => r.changed = {"receipt"}
    /\ r.pc \in {"inspect_hook", "catch", "check_unpublish"} /\ "hook" \in r.changed =>
          "hook" \in r.settled \/ e["hook"] # NoFile
    /\ r.pc = "catch" /\ r.err # "recovery" /\ r.settled = {} => r.changed = {}
    /\ r.pc = "unpublish" => r.changed \subseteq (IF r.phase = "gone" THEN {} ELSE {"receipt"})
    /\ r.pc = "unpublished" => r.changed = {}
    /\ r.pc \in {"cleanup", "release", "report"} /\ r.confirmed /\ r.err \notin {"none", "recovery"}
          /\ "hook" \notin r.settled => r.changed = {}

RemoveChanges(r) ==
    r.changed # {} => \/ r.pc \in {"crashed", "done", "dropped_hook", "dropped_receipt"}
                      \/ r.settled # {} \/ r.err = "recovery"
                      \/ (r.pc \in {"drop_hook", "drop_receipt"} /\ r.phase = "gone")

RefusalInv(c, r, e, s) ==
    /\ IF Install(c) THEN InstallChanges(c, r, e) ELSE RemoveChanges(r)
    /\ r.pc \in {"catch", "cleanup"} /\ ~r.locked /\ r.err # "recovery" => e["lock"].by # c
    /\ r.pc = "report" /\ r.confirmed => s = "none"
    /\ r.pc = "report" /\ r.confirmed /\ r.err # "recovery" => e["lock"].by # c
    /\ r.result \in Refusals => r.changed = {} /\ s = "none" /\ e["lock"].by # c

DiskInv(c, r, e, s) == LockInv(c, r, e, s) /\ FilesInv(c, r, e) /\ (DropsSucceed => RefusalInv(c, r, e, s))

DiskAll == HookKeepsRecord /\ \A c \in Commands : DiskInv(c, op[c], entry, staging[c])
All == OwnAll /\ DiskAll

\* What every step of a command shows besides.
Serves == [Lifecycle!Next]_(Lifecycle!lifecycle)
ForeignStays == \A n \in FixedNames : entry[n] = Foreign => entry'[n] = Foreign

LEMMA FileFacts ==
    /\ NoFile.by = Nobody /\ Foreign.by = Nobody /\ NoFile # Foreign
    /\ \A c \in Commands : /\ Whole(c).by = c /\ Blank(c).by = c /\ c # Nobody
                           /\ Whole(c) \notin {NoFile, Foreign} /\ Blank(c) \notin {NoFile, Foreign}
                           /\ \A d \in Commands : Whole(c) # Blank(d)
  BY ClaudeAssumption DEF NoFile, Foreign, Whole, Blank

LEMMA BecomeIs ==
    ASSUME OwnAll, NEW c \in Commands, NEW r, Become(c, r)
    PROVE  op'[c] = r /\ \A d \in Commands \ {c} : op'[d] = op[d]
  BY DEF OwnAll, TypeOK, Become

LEMMA HeldNoErrors ==
    ASSUME All, NEW c \in Commands, Holding(op[c])
    PROVE  LockErrors(c) = {}
  BY FileFacts DEF All, DiskAll, DiskInv, LockInv, LockErrors, Present

\* One command moves, its staging directory with it, and no name changes.
LEMMA StillStep ==
    ASSUME All, NEW c \in Commands, \A d \in Commands \ {c} : op'[d] = op[d] /\ staging'[d] = staging[d],
           entry' = entry, DiskInv(c, op'[c], entry, staging'[c])
    PROVE  DiskAll' /\ Serves /\ ForeignStays
<1>1. \A d \in Commands : DiskInv(d, op'[d], entry', staging'[d])
  BY DEF All, DiskAll
<1>2. HookKeepsRecord'
  BY DEF All, DiskAll, HookKeepsRecord
<1>3. Serves
  BY DEF Serves, Lifecycle!lifecycle
<1> QED
  BY <1>1, <1>2, <1>3 DEF DiskAll, ForeignStays

\* It creates, fills or removes its own lock.
LEMMA LockStep ==
    ASSUME All, NEW c \in Commands, \A d \in Commands \ {c} : op'[d] = op[d], staging' = staging,
           NEW x \in {NoFile, Blank(c), Whole(c)}, entry["lock"] \in {NoFile, Blank(c), Whole(c)},
           entry' = [entry EXCEPT !["lock"] = x], DiskInv(c, op'[c], entry', staging[c])
    PROVE  DiskAll' /\ Serves /\ ForeignStays
<1>1. entry \in [FixedNames -> Files] /\ FixedNames = {"receipt", "hook", "lock"}
  BY DEF All, OwnAll, TypeOK, FixedNames, Artifacts
<1>2. entry'["receipt"] = entry["receipt"] /\ entry'["hook"] = entry["hook"] /\ entry'["lock"] = x
  BY <1>1
<1>3. ASSUME NEW d \in Commands \ {c}
      PROVE  DiskInv(d, op[d], entry', staging[d])
  <2>1. DiskInv(d, op[d], entry, staging[d]) /\ OwnInv(d, op[d])
    BY DEF All, DiskAll, OwnAll
  <2>2. entry["lock"] # Whole(d) /\ entry["lock"] # Blank(d) /\ entry["lock"].by # d /\ x.by # d
    BY FileFacts
  <2>3. \A n \in Removals : RemovalOf[n] = IF n = "release" THEN "lock"
                                           ELSE IF n = "drop_hook" THEN "hook" ELSE "receipt"
    BY DEF Removals, RemovalOf
  <2>4. LockInv(d, op[d], entry', staging[d])
    BY <1>2, <2>1, <2>2 DEF DiskInv, LockInv
  <2>5. FilesInv(d, op[d], entry')
    BY <1>2, <2>1, <2>2, <2>3 DEF DiskInv, FilesInv
  <2>6. DropsSucceed => RefusalInv(d, op[d], entry', staging[d])
    BY <1>2, <2>1, <2>2 DEF DiskInv, RefusalInv, InstallChanges
  <2> QED
    BY <2>4, <2>5, <2>6 DEF DiskInv
<1>4. \A d \in Commands : DiskInv(d, op'[d], entry', staging'[d])
  BY <1>3
<1>5. HookKeepsRecord'
  BY <1>2 DEF All, DiskAll, HookKeepsRecord
<1>6. ForeignStays
  BY <1>1, <1>2, FileFacts DEF ForeignStays
<1>7. Serves
  <2>1. entry["lock"].by \in {Nobody, c} /\ entry'["lock"].by \in {Nobody, c}
    BY <1>2, FileFacts
  <2>2. CASE entry'["lock"].by = entry["lock"].by
    BY <1>2, <2>2 DEF Serves, Lifecycle!lifecycle
  <2>3. CASE entry["lock"].by = Nobody /\ entry'["lock"].by = c
    <3>1. Lifecycle!Enter(c)
      BY <1>2, <2>3 DEF Lifecycle!Enter
    <3> QED
      BY <3>1 DEF Serves, Lifecycle!Next
  <2>4. CASE entry["lock"].by = c /\ entry'["lock"].by = Nobody
    <3>1. Lifecycle!Leave(c)
      BY <1>2, <2>4 DEF Lifecycle!Leave
    <3> QED
      BY <3>1 DEF Serves, Lifecycle!Next
  <2> QED
    BY <2>1, <2>2, <2>3, <2>4
<1> QED
  BY <1>4, <1>5, <1>6, <1>7 DEF DiskAll

\* The holder of the lock gives a file its name or takes it away.
LEMMA FileStep ==
    ASSUME All, NEW c \in Commands, \A d \in Commands \ {c} : op'[d] = op[d], staging' = staging,
           Holding(op[c]), NEW f \in Artifacts, NEW x \in {NoFile, Whole(c)}, entry[f] # Foreign,
           entry' = [entry EXCEPT ![f] = x], DiskInv(c, op'[c], entry', staging[c]),
           HookKeepsRecord', Serves
    PROVE  DiskAll' /\ Serves /\ ForeignStays
<1>1. entry \in [FixedNames -> Files] /\ FixedNames = {"receipt", "hook", "lock"} /\ f \in {"receipt", "hook"}
  BY DEF All, OwnAll, TypeOK, FixedNames, Artifacts
<1>2. entry'["lock"] = entry["lock"] /\ entry["lock"] = Whole(c)
  BY <1>1 DEF All, DiskAll, DiskInv, LockInv
<1>3. ASSUME NEW d \in Commands \ {c}
      PROVE  DiskInv(d, op[d], entry', staging[d])
  <2>1. DiskInv(d, op[d], entry, staging[d]) /\ OwnInv(d, op[d])
    BY DEF All, DiskAll, OwnAll
  <2>2. ~Holding(op[d])
    BY <1>2, <2>1, FileFacts DEF DiskInv, LockInv
  <2>3. \A n \in Removals : RemovalOf[n] = IF n = "release" THEN "lock"
                                           ELSE IF n = "drop_hook" THEN "hook" ELSE "receipt"
    BY DEF Removals, RemovalOf
  <2>4. LockInv(d, op[d], entry', staging[d])
    BY <1>2, <2>1 DEF DiskInv, LockInv
  <2>5. /\ op[d].pc \in InLock \ {"release"} => FALSE
        /\ op[d].pc = "release" => op[d].phase = "gone"
        /\ op[d].pc = "catch" => Pristine(op[d])
    BY <2>1, <2>2 DEF Holding, OwnInv, InLock, Installing, Preparing, ReceiptThere, HookThere,
      Returning, Removing,
                      Surveying, Disabling, Disclaiming
  <2>6. FilesInv(d, op[d], entry')
    BY <2>5, RemovalLabels DEF FilesInv, Pristine, InLock, Installing, ReceiptThere, HookThere,
      Returning, Removing,
                      Disabling, Disclaiming
  <2>7. DropsSucceed => RefusalInv(d, op[d], entry', staging[d])
    BY <1>2, <2>1, <2>5 DEF DiskInv, RefusalInv, InstallChanges, Pristine, InLock, Installing,
      Preparing, ReceiptThere, Returning
  <2> QED
    BY <2>4, <2>6, <2>7 DEF DiskInv
<1>4. \A d \in Commands : DiskInv(d, op'[d], entry', staging'[d])
  BY <1>3
<1>5. ForeignStays
  BY <1>1 DEF ForeignStays
<1> QED
  BY <1>4, <1>5 DEF DiskAll

-----------------------------------------------------------------------------
(* The disk, action by action.                                             *)

Sound == DiskAll' /\ Serves /\ ForeignStays

LEMMA MoveSound ==
    ASSUME All, NEW c \in Commands, NEW r, Become(c, r), UNCHANGED disk, DiskInv(c, r, entry, staging[c])
    PROVE  Sound
<1>1. op'[c] = r /\ \A d \in Commands \ {c} : op'[d] = op[d]
  BY BecomeIs DEF All
<1> QED
  BY <1>1, StillStep DEF disk, Sound

LEMMA ThrowSound ==
    ASSUME All, NEW c \in Commands, NEW e \in Errors \ {"none"}, Throw(c, e),
           entry' = entry, \A d \in Commands \ {c} : staging'[d] = staging[d],
           staging'[c] = staging[c] \/ (op[c].pc \in {"stage_receipt", "stage_hook", "probe"} /\ op[c].tracked),
           op[c].pc \in (Before \ {"idle"}) \cup Installing \cup Removing, op[c].phase = "verify",
           op[c].pc \in Before /\ e # "recovery" => entry["lock"].by # c,
           op[c].pc = "inspect_receipt" => e = "recovery" \/ entry["receipt"] # Whole(c),
           op[c].pc \in {"dropped_hook", "dropped_receipt"} => ~DropsSucceed
    PROVE  Sound
<1> DEFINE r == [op[c] EXCEPT !.pc = "catch", !.err = e]
           s == staging'[c]
<1>1. op'[c] = r /\ \A d \in Commands \ {c} : op'[d] = op[d]
  BY BecomeIs DEF All, Throw
<1>2. op[c] \in Operations /\ OwnInv(c, op[c]) /\ DiskInv(c, op[c], entry, staging[c])
  BY OpType DEF All, OwnAll, DiskAll
<1>3. /\ r.pc = "catch" /\ r.err = e /\ r.phase = op[c].phase /\ r.locked = op[c].locked
      /\ r.author = op[c].author /\ r.staged = op[c].staged /\ r.tracked = op[c].tracked
      /\ r.settled = op[c].settled /\ r.confirmed = op[c].confirmed /\ r.result = op[c].result
      /\ r.changed = op[c].changed
  BY <1>2 DEF Operations
<1>4. /\ op[c].pc \in Before \/ (op[c].locked /\ Holding(op[c]))
      /\ op[c].pc \in Before => ~op[c].locked /\ Pristine(op[c])
      /\ op[c].result = "none"
  BY <1>2 DEF OwnInv, Holding, Before, InLock, Installing, Preparing, ReceiptThere, HookThere,
    Returning, Removing, Surveying, Disabling, Disclaiming
<1>5. LockInv(c, r, entry, s)
  <2>1. CASE s = staging[c]
    BY <1>2, <1>3, <1>4, <2>1 DEF DiskInv, LockInv, Holding, Before, InLock, Installing, Preparing,
      ReceiptThere, HookThere, Returning, Removing, Surveying, Disabling, Disclaiming
  <2>2. CASE op[c].pc \in {"stage_receipt", "stage_hook", "probe"} /\ op[c].tracked
    BY <1>2, <1>3, <1>4, <2>2 DEF DiskInv, LockInv, Holding, OwnInv, Before, InLock, Installing,
      Preparing, ReceiptThere, HookThere, Returning, Removing, Surveying, Disabling, Disclaiming
  <2> QED
    BY <2>1, <2>2
<1>6. FilesInv(c, r, entry)
  BY <1>2, <1>3, <1>4 DEF DiskInv, FilesInv, OwnInv, Pristine, Removals, RemovalOf, Before, InLock,
    Installing, Preparing, ReceiptThere, HookThere, Returning, Removing, Surveying, Disabling,
    Disclaiming
<1>7. DropsSucceed => RefusalInv(c, r, entry, s)
  <2>1. ASSUME DropsSucceed, Install(c)
        PROVE  InstallChanges(c, r, entry)
    <3>1. InstallChanges(c, op[c], entry)
      BY <1>2, <2>1 DEF DiskInv, RefusalInv
    <3>2. CASE op[c].pc \in Before
      BY <1>3, <1>4, <3>2 DEF InstallChanges, Pristine, Before, InLock, Installing, Preparing,
        ReceiptThere, HookThere, Returning, Removing, Surveying, Disabling, Disclaiming
    <3>3. CASE op[c].pc \in Preparing
      BY <1>2, <1>3, <3>1, <3>3 DEF InstallChanges, OwnInv, Before, InLock, Installing, Preparing,
        ReceiptThere, HookThere, Returning, Removing, Surveying, Disabling, Disclaiming
    <3>4. CASE op[c].pc \in ReceiptThere
      BY <1>2, <1>3, <3>1, <3>4 DEF InstallChanges, OwnInv, Before, InLock, Installing, Preparing,
        ReceiptThere, HookThere, Returning, Removing, Surveying, Disabling, Disclaiming
    <3>5. CASE op[c].pc \in HookThere
      BY <1>2, <1>3, <3>1, <3>5 DEF InstallChanges, OwnInv, Before, InLock, Installing, Preparing,
        ReceiptThere, HookThere, Returning, Removing, Surveying, Disabling, Disclaiming
    <3> QED
      BY <1>2, <2>1, <3>2, <3>3, <3>4, <3>5 DEF OwnInv, Installing
  <2>2. ASSUME DropsSucceed, ~Install(c)
        PROVE  RemoveChanges(r)
    BY <1>2, <1>3, <1>4, <2>2 DEF DiskInv, RefusalInv, RemoveChanges, OwnInv, Pristine, Before,
      InLock, Installing, Preparing, ReceiptThere, HookThere, Returning, Removing, Surveying,
      Disabling, Disclaiming
  <2> QED
    BY <1>3, <1>4, <2>1, <2>2 DEF RefusalInv, Refusals
<1>8. DiskInv(c, r, entry, s)
  BY <1>5, <1>6, <1>7 DEF DiskInv
<1> QED
  BY <1>1, <1>8, StillStep DEF Sound

\* A command that has never had the lock leaves no trace.
LEMMA ReportFirstSound ==
    ASSUME All, NEW c \in Commands, NEW res \in Results, op[c].pc = "observe", Report(c, res), UNCHANGED disk
    PROVE  Sound
<1> DEFINE r == [op[c] EXCEPT !.pc = "done", !.result = res]
<1>1. op[c] \in Operations /\ OwnInv(c, op[c]) /\ DiskInv(c, op[c], entry, staging[c])
  BY OpType DEF All, OwnAll, DiskAll
<1>2. entry["lock"].by # c /\ staging[c] = "none" /\ Pristine(op[c]) /\ ~op[c].locked
  BY <1>1, FileFacts DEF DiskInv, LockInv, OwnInv, Before
<1>3. r.pc = "done" /\ r.locked = op[c].locked /\ r.changed = {} /\ r.settled = {}
  BY <1>1, <1>2 DEF Operations, Pristine
<1>4. DiskInv(c, r, entry, staging[c])
  <2> HIDE DEF r
  <2> QED
    BY <1>2, <1>3 DEF DiskInv, LockInv, FilesInv, RefusalInv, InstallChanges, RemoveChanges,
      Holding,
                      Removals, RemovalOf, Before, InLock, Installing, Preparing, ReceiptThere, HookThere, Returning, Removing, Surveying, Disabling, Disclaiming
<1> QED
  BY <1>4, MoveSound DEF Report

LEMMA ObserveFirstSound ==
    ASSUME All, NEW c \in Commands, ObserveFirst(c)
    PROVE  Sound
<1>1. /\ op[c] \in Operations /\ OwnInv(c, op[c]) /\ DiskInv(c, op[c], entry, staging[c])
      /\ op[c].pc = "observe"
  BY OpType DEF All, OwnAll, DiskAll, ObserveFirst, At
<1>2. CASE Go(c, "lock")
  <2>1. DiskInv(c, [op[c] EXCEPT !.pc = "lock"], entry, staging[c])
    BY <1>1 DEF Operations, OwnInv, DiskInv, LockInv, FilesInv, RefusalInv, InstallChanges,
      RemoveChanges, Holding, Pristine, Refusals, Removals, RemovalOf, Before, InLock, Installing,
      Preparing, ReceiptThere, HookThere, Returning, Removing, Surveying, Disabling, Disclaiming
  <2> QED
    BY <1>2, <2>1, MoveSound DEF Go, ObserveFirst
<1>3. CASE \E res \in {"cancelled", "input"} : Report(c, res)
  BY <1>1, <1>3, ReportFirstSound DEF Results, ObserveFirst
<1> QED
  BY <1>2, <1>3 DEF ObserveFirst

LEMMA CreateLockSound ==
    ASSUME All, NEW c \in Commands, CreateLock(c)
    PROVE  Sound
<1>1. /\ op[c] \in Operations /\ OwnInv(c, op[c]) /\ DiskInv(c, op[c], entry, staging[c])
      /\ op[c].pc = "lock" /\ entry \in [FixedNames -> Files] /\ "lock" \in FixedNames
  BY OpType DEF All, OwnAll, DiskAll, CreateLock, At, TypeOK, FixedNames
<1>2. entry["lock"].by # c /\ op[c].phase = "verify"
  BY <1>1 DEF DiskInv, LockInv, OwnInv, Removals, RemovalOf
<1>3. CASE LockFree /\ entry' = [entry EXCEPT !["lock"] = Blank(c)] /\ Go(c, "write_lock")
  <2> DEFINE r == [op[c] EXCEPT !.pc = "write_lock"]
  <2>1. op'[c] = r /\ \A d \in Commands \ {c} : op'[d] = op[d]
    BY <1>3, BecomeIs DEF All, Go
  <2>2. entry'["lock"] = Blank(c) /\ entry["lock"] = NoFile
    BY <1>1, <1>3 DEF LockFree, Present
  <2>3. DiskInv(c, r, entry', staging[c])
    BY <1>1, <1>2, <2>2, FileFacts DEF Operations, OwnInv, DiskInv, LockInv, FilesInv, RefusalInv,
      InstallChanges, RemoveChanges, Holding, Pristine, Refusals, Removals, RemovalOf, Before,
      InLock, Installing, Preparing, ReceiptThere, HookThere, Returning, Removing, Surveying,
      Disabling, Disclaiming
  <2>4. staging' = staging
    BY DEF CreateLock
  <2> QED
    BY <1>3, <2>1, <2>2, <2>3, <2>4, LockStep DEF Sound
<1>4. CASE entry' = entry /\ \E e \in {"cancelled", "other"} : Throw(c, e)
  BY <1>1, <1>2, <1>4, ThrowSound DEF Errors, Before, CreateLock
<1> QED
  BY <1>3, <1>4 DEF CreateLock

LEMMA WriteLockSound ==
    ASSUME All, NEW c \in Commands, WriteLock(c)
    PROVE  Sound
<1>1. /\ op[c] \in Operations /\ OwnInv(c, op[c]) /\ DiskInv(c, op[c], entry, staging[c])
      /\ op[c].pc = "write_lock" /\ entry \in [FixedNames -> Files] /\ "lock" \in FixedNames
  BY OpType DEF All, OwnAll, DiskAll, WriteLock, At, TypeOK, FixedNames
<1>2. entry["lock"] = Blank(c) /\ staging[c] = "none"
  BY <1>1, FileFacts DEF DiskInv, LockInv
<1> DEFINE r == [op[c] EXCEPT !.pc = IF Install(c) THEN "check_locked" ELSE "survey", !.locked = TRUE]
<1>3. entry' = [entry EXCEPT !["lock"] = Whole(c)] /\ Become(c, r) /\ staging' = staging
  BY <1>2 DEF WriteLock
<1>4. op'[c] = r /\ \A d \in Commands \ {c} : op'[d] = op[d]
  BY <1>3, BecomeIs DEF All
<1>5. entry'["lock"] = Whole(c)
  BY <1>1, <1>3
<1>6. DiskInv(c, r, entry', staging[c])
  <2>1. /\ r.pc = IF Install(c) THEN "check_locked" ELSE "survey"
        /\ r.phase = "verify" /\ r.settled = {} /\ r.changed = {} /\ r.result = "none"
    BY <1>1 DEF Operations, OwnInv, Before, Pristine, Removals, RemovalOf
  <2> HIDE DEF r
  <2> QED
    BY <1>2, <1>5, <2>1, FileFacts DEF Operations, OwnInv, DiskInv, LockInv, FilesInv, RefusalInv,
      InstallChanges, RemoveChanges, Holding, Pristine, Refusals, Removals, RemovalOf, Before,
      InLock, Installing, Preparing, ReceiptThere, HookThere, Returning, Removing, Surveying,
      Disabling, Disclaiming
<1> QED
  BY <1>2, <1>3, <1>4, <1>6, LockStep DEF Sound

LEMMA AbandonLockSound ==
    ASSUME All, NEW c \in Commands, AbandonLock(c)
    PROVE  Sound
<1>1. /\ op[c] \in Operations /\ OwnInv(c, op[c]) /\ DiskInv(c, op[c], entry, staging[c])
      /\ op[c].pc = "abandon_lock" /\ entry \in [FixedNames -> Files] /\ "lock" \in FixedNames
  BY OpType DEF All, OwnAll, DiskAll, AbandonLock, At, TypeOK, FixedNames
<1>2. entry["lock"].by = c /\ op[c].phase = "verify"
  BY <1>1 DEF DiskInv, LockInv, OwnInv, Removals, RemovalOf
<1>3. CASE entry["lock"] = Blank(c)
  <2> DEFINE r == [op[c] EXCEPT !.pc = "catch", !.err = "other"]
  <2>1. entry' = [entry EXCEPT !["lock"] = NoFile] /\ Become(c, r) /\ staging' = staging
    BY <1>3 DEF AbandonLock, Throw
  <2>2. op'[c] = r /\ \A d \in Commands \ {c} : op'[d] = op[d]
    BY <2>1, BecomeIs DEF All
  <2>3. entry'["lock"] = NoFile
    BY <1>1, <2>1
  <2>4. staging[c] = "none"
    BY <1>1, <1>3, FileFacts DEF DiskInv, LockInv
  <2>5. DiskInv(c, r, entry', staging[c])
    <3>1. /\ r.pc = "catch" /\ r.phase = "verify" /\ r.settled = {} /\ r.changed = {} /\ r.result = "none"
          /\ ~r.locked
      BY <1>1, <1>2 DEF Operations, OwnInv, Before, Pristine
    <3> HIDE DEF r
    <3> QED
      BY <2>3, <2>4, <3>1, FileFacts DEF Operations, OwnInv, DiskInv, LockInv, FilesInv,
        RefusalInv, InstallChanges, RemoveChanges, Holding, Pristine, Refusals, Removals,
        RemovalOf, Before, InLock, Installing, Preparing, ReceiptThere, HookThere, Returning,
        Removing, Surveying, Disabling, Disclaiming
  <2> QED
    BY <1>3, <2>1, <2>2, <2>5, LockStep DEF Sound
<1>4. CASE entry["lock"] # Blank(c)
  <2>1. entry["lock"] # NoFile
    BY <1>2, FileFacts
  <2>2. Throw(c, "recovery") /\ entry' = entry /\ staging' = staging
    BY <1>4, <2>1 DEF AbandonLock
  <2> QED
    BY <1>1, <1>2, <2>2, ThrowSound DEF Errors, Before
<1> QED
  BY <1>3, <1>4

\* What every step of a running command may use.
LEMMA Known ==
    ASSUME All, NEW c \in Commands
    PROVE  /\ op[c] \in Operations /\ OwnInv(c, op[c]) /\ DiskInv(c, op[c], entry, staging[c])
           /\ op[c].pc \in InLock /\ op[c].pc # "release" => op[c].locked /\ Holding(op[c]) /\ entry["lock"] = Whole(c)
<1>1. op[c] \in Operations /\ OwnInv(c, op[c]) /\ DiskInv(c, op[c], entry, staging[c])
  BY OpType DEF All, OwnAll, DiskAll
<1>2. ASSUME op[c].pc \in InLock, op[c].pc # "release"
      PROVE  op[c].locked /\ Holding(op[c]) /\ entry["lock"] = Whole(c)
  <2>1. op[c].pc # "crashed"
    BY <1>2 DEF Before, InLock, Installing, Preparing, ReceiptThere, HookThere, Returning,
      Removing, Surveying, Disabling, Disclaiming
  <2> QED
    BY <1>1, <1>2, <2>1 DEF OwnInv, DiskInv, LockInv, Holding
<1> QED
  BY <1>1, <1>2

LEMMA GoSound ==
    ASSUME All, NEW c \in Commands, NEW l, Go(c, l), UNCHANGED disk,
           DiskInv(c, [op[c] EXCEPT !.pc = l], entry, staging[c])
    PROVE  Sound
  BY MoveSound DEF Go

LEMMA AfterCheckSound ==
    ASSUME All, NEW c \in Commands, NEW st, op[c].pc \in Checks, AfterCheck(c, st), UNCHANGED disk,
           op[c].pc = "check_inactive" => ~Present("hook")
    PROVE  Sound
<1>1. /\ op[c] \in Operations /\ OwnInv(c, op[c]) /\ DiskInv(c, op[c], entry, staging[c])
      /\ op[c].pc \in {"check_locked", "check_parents", "check_staged", "check_receipt", "check_hook",
                       "check_committed", "survey", "check_exact", "inactive", "check_inactive", "vacant"}
  BY Known, CheckLabels
<1>2. CASE op[c].pc # "survey" /\ Go(c, NextOf(c))
  <2> DEFINE r == [op[c] EXCEPT !.pc = NextOf(c)]
  <2>1. /\ r.pc = NextOf(c) /\ r.phase = op[c].phase /\ r.locked = op[c].locked /\ r.author = op[c].author
        /\ r.tracked = op[c].tracked /\ r.settled = op[c].settled /\ r.confirmed = op[c].confirmed
        /\ r.err = op[c].err /\ r.result = op[c].result /\ r.changed = op[c].changed
    BY <1>1 DEF Operations
  <2>2. LockInv(c, r, entry, staging[c])
    <3>1. op[c].pc = "vacant" => staging[c] = "none"
      BY <1>1 DEF DiskInv, LockInv, OwnInv, Removing, Disclaiming
    <3>2. op[c].phase = "verify" /\ Holding(op[c])
      BY <1>1, Known DEF OwnInv, Removals, RemovalOf, Before, InLock, Installing, Preparing,
        ReceiptThere, HookThere, Returning, Removing, Surveying, Disabling, Disclaiming
    <3>3. NextOf(c) \in InLock \cup {"cleanup"} /\ (NextOf(c) = "release" => op[c].pc = "vacant")
      BY <1>1 DEF NextOf, Before, InLock, Installing, Preparing, ReceiptThere, HookThere,
        Returning, Removing, Surveying, Disabling, Disclaiming
    <3>4. NextOf(c) \notin Before \cup {"crashed"}
      BY <1>1 DEF NextOf, Before
    <3>5. op[c].pc \notin {"report", "done", "crashed"}
      BY <1>1
    <3> HIDE DEF r
    <3> QED
      BY <1>1, <2>1, <3>1, <3>2, <3>3, <3>4, <3>5 DEF DiskInv, LockInv, Holding, Before
  <2>3. FilesInv(c, r, entry)
    <3>1. op[c].pc = "check_inactive" => entry["hook"].by = Nobody
      BY FileFacts DEF Present
    <3> HIDE DEF r
    <3> QED
      BY <1>1, <1>2, <2>1, <3>1 DEF NextOf, DiskInv, FilesInv, OwnInv, Removals, RemovalOf, Before,
        InLock, Installing, Preparing, ReceiptThere, HookThere, Returning, Removing, Surveying,
        Disabling, Disclaiming
  <2>4. DropsSucceed => RefusalInv(c, r, entry, staging[c])
    <3> HIDE DEF r
    <3> QED
      BY <1>1, <1>2, <2>1
      DEF NextOf, DiskInv, RefusalInv, InstallChanges, RemoveChanges, OwnInv, Refusals, Before,
        InLock, Installing, Preparing, ReceiptThere, HookThere, Returning, Removing, Surveying,
        Disabling, Disclaiming
  <2> QED
    BY <1>2, <2>2, <2>3, <2>4, GoSound DEF DiskInv
<1>3. CASE /\ op[c].pc = "survey"
           /\ Become(c, [op[c] EXCEPT !.pc = "track_receipt", !.exact = st.ownership = "owned_exact"])
  <2> DEFINE r == [op[c] EXCEPT !.pc = "track_receipt", !.exact = st.ownership = "owned_exact"]
  <2>1. DiskInv(c, r, entry, staging[c])
    BY <1>1, <1>3 DEF Operations, OwnInv, DiskInv, LockInv, FilesInv, RefusalInv, InstallChanges,
      RemoveChanges, Holding, Pristine, Refusals, Removals, RemovalOf, Before, InLock, Installing,
      Preparing, ReceiptThere, HookThere, Returning, Removing, Surveying, Disabling, Disclaiming
  <2> QED
    BY <1>3, <2>1, MoveSound
<1> QED
  BY <1>2, <1>3, AfterCheckIs

LEMMA CheckSound ==
    ASSUME All, NEW c \in Commands, Check(c)
    PROVE  Sound
<1>1. op[c] \in Operations /\ OwnInv(c, op[c]) /\ op[c].pc \in Checks /\ UNCHANGED disk
  BY Known DEF Check
<1>2. /\ op[c].pc \in Installing \cup Removing /\ op[c].phase = "verify" /\ op[c].pc \notin Before
      /\ op[c].pc \notin {"inspect_receipt", "dropped_hook", "dropped_receipt"}
  BY <1>1, CheckLabels DEF OwnInv, Before
<1>3. \A e \in Errors \ {"none"} : Throw(c, e) => Sound
  BY <1>1, <1>2, ThrowSound DEF disk
<1>4. {Unexpected(op[c].pc), "cancelled", "other", "input", "recovery"} \subseteq Errors \ {"none"}
  BY DEF Unexpected, Errors
<1>5. CASE \E e \in LockErrors(c) \cup {"cancelled", Unexpected(op[c].pc)} : Throw(c, e)
  BY <1>3, <1>4, <1>5, LockErrorsType
<1>6. CASE \E st \in Observations(c) : Expected(op[c].pc, st) /\ AfterCheck(c, st)
  <2>1. PICK st \in Observations(c) : Expected(op[c].pc, st) /\ AfterCheck(c, st)
    BY <1>6
  <2>2. op[c].pc = "check_inactive" => st.ownership = "owned_inactive"
    BY <2>1 DEF Expected
  <2>3. st.ownership \in {Ownership, "unsafe"}
    BY DEF Observations, Status, Unsafe
  <2>4. Ownership = "owned_inactive" => ~Present("hook")
    BY DEF Ownership
  <2>5. op[c].pc = "check_inactive" => ~Present("hook")
    BY <2>2, <2>3, <2>4
  <2> QED
    BY <1>1, <2>1, <2>5, AfterCheckSound
<1> QED
  BY <1>5, <1>6 DEF Check

LEMMA MakeStagingSound ==
    ASSUME All, NEW c \in Commands, MakeStaging(c)
    PROVE  Sound
<1> DEFINE r == [op[c] EXCEPT !.pc = "stage_receipt", !.tracked = TRUE]
<1>1. /\ op[c] \in Operations /\ OwnInv(c, op[c]) /\ DiskInv(c, op[c], entry, staging[c])
      /\ op[c].pc = "make_staging" /\ entry["lock"] = Whole(c) /\ Install(c) /\ op[c].phase = "verify"
  BY Known DEF MakeStaging, At, OwnInv, InLock, Installing, Preparing, Removals, RemovalOf
<1>2. op'[c] = r /\ \A d \in Commands \ {c} : op'[d] = op[d]
  BY BecomeIs DEF All, MakeStaging
<1>3. staging'[c] = "clean" /\ \A d \in Commands \ {c} : staging'[d] = staging[d]
  BY DEF All, OwnAll, TypeOK, MakeStaging
<1>4. DiskInv(c, r, entry, staging'[c])
  <2>1. /\ r.pc = "stage_receipt" /\ r.tracked /\ r.phase = "verify" /\ r.settled = {} /\ r.result = "none"
        /\ r.changed = op[c].changed
    BY <1>1 DEF Operations, OwnInv, Preparing
  <2> HIDE DEF r
  <2> QED
    BY <1>1, <1>3, <2>1 DEF Operations, OwnInv, DiskInv, LockInv, FilesInv, RefusalInv,
      InstallChanges, RemoveChanges, Holding, Pristine, Refusals, Removals, RemovalOf, Before,
      InLock, Installing, Preparing, ReceiptThere, HookThere, Returning, Removing, Surveying,
      Disabling, Disclaiming
<1> QED
  BY <1>2, <1>3, <1>4, StillStep DEF MakeStaging, Sound

LEMMA CreateStageFileSound ==
    ASSUME All, NEW c \in Commands, NEW f \in Artifacts, CreateStageFile(c, f)
    PROVE  Sound
<1> DEFINE r == [op[c] EXCEPT !.pc = IF f = "receipt" THEN "stage_hook" ELSE "probe", !.staged = @ \cup {f}]
<1>1. /\ op[c] \in Operations /\ OwnInv(c, op[c]) /\ DiskInv(c, op[c], entry, staging[c])
      /\ op[c].pc \in {"stage_receipt", "stage_hook"} /\ op[c].phase = "verify" /\ Holding(op[c])
      /\ UNCHANGED <<entry, staging>>
  BY Known DEF CreateStageFile, At, OwnInv, InLock, Installing, Preparing, Removals, RemovalOf
<1>2. CASE Become(c, r)
  <2>1. op'[c] = r /\ \A d \in Commands \ {c} : op'[d] = op[d]
    BY <1>2, BecomeIs DEF All
  <2>2. DiskInv(c, r, entry, staging[c])
    BY <1>1 DEF Operations, OwnInv, DiskInv, LockInv, FilesInv, RefusalInv, InstallChanges,
      RemoveChanges, Holding, Pristine, Refusals, Removals, RemovalOf, Before, InLock, Installing,
      Preparing, ReceiptThere, HookThere, Returning, Removing, Surveying, Disabling, Disclaiming
  <2> QED
    BY <1>1, <2>1, <2>2, StillStep DEF Sound
<1>3. CASE Throw(c, "cancelled")
  BY <1>1, <1>3, ThrowSound DEF Installing, Preparing, Before, Errors
<1> QED
  BY <1>2, <1>3 DEF CreateStageFile

LEMMA ProbeSound ==
    ASSUME All, NEW c \in Commands, Probe(c)
    PROVE  Sound
<1>1. /\ op[c] \in Operations /\ OwnInv(c, op[c]) /\ DiskInv(c, op[c], entry, staging[c])
      /\ op[c].pc = "probe"
  BY Known DEF Probe, At
<1>2. DiskInv(c, [op[c] EXCEPT !.pc = "check_staged"], entry, staging[c])
  BY <1>1 DEF Operations, OwnInv, DiskInv, LockInv, FilesInv, RefusalInv, InstallChanges,
    RemoveChanges, Holding, Pristine, Refusals, Removals, RemovalOf, Before, InLock, Installing,
    Preparing, ReceiptThere, HookThere, Returning, Removing, Surveying, Disabling, Disclaiming
<1> QED
  BY <1>2, GoSound DEF Probe

\* A link(2) that happens, whether it is reported or not.
LEMMA NewName ==
    ASSUME All, NEW c \in Commands, NEW f \in Artifacts, op[c].pc = LinkStep[f], ~Present(f),
           entry' = [entry EXCEPT ![f] = Whole(c)]
    PROVE  HookKeepsRecord' /\ Serves
<1>1. /\ entry \in [FixedNames -> Files] /\ {"receipt", "hook", "lock"} = FixedNames
      /\ OwnInv(c, op[c]) /\ DiskInv(c, op[c], entry, staging[c])
      /\ HookKeepsRecord /\ entry[f] = NoFile
  BY Known DEF All, OwnAll, TypeOK, DiskAll, FixedNames, Artifacts, Present
<1>2. CASE f = "receipt"
  <2>1. op[c].pc = "link_receipt"
    BY <1>2 DEF LinkStep
  <2>2. Install(c) /\ entry["lock"] = Whole(c)
    BY <1>1, <2>1, Known DEF OwnInv, InLock, Installing, Preparing
  <2>3. entry["hook"].by = Nobody
    BY <1>1, <1>2, FileFacts DEF HookKeepsRecord
  <2>4. entry'["receipt"] = Whole(c) /\ entry'["hook"] = entry["hook"] /\ entry'["lock"] = entry["lock"]
    BY <1>1, <1>2
  <2>5. Lifecycle!Claim(c)
    BY <1>1, <1>2, <2>2, <2>3, <2>4, FileFacts DEF Lifecycle!Claim, Install
  <2>6. HookKeepsRecord'
    BY <2>3, <2>4 DEF HookKeepsRecord
  <2> QED
    BY <2>5, <2>6 DEF Serves, Lifecycle!Next
<1>3. CASE f = "hook"
  <2>1. op[c].pc = "link_hook"
    BY <1>3 DEF LinkStep
  <2>2. Install(c) /\ entry["lock"] = Whole(c) /\ entry["receipt"] = Whole(c)
    BY <1>1, <2>1, Known DEF OwnInv, InLock, Installing, ReceiptThere, DiskInv, FilesInv
  <2>3. entry'["hook"] = Whole(c) /\ entry'["receipt"] = entry["receipt"] /\ entry'["lock"] = entry["lock"]
    BY <1>1, <1>3
  <2>4. Lifecycle!Enable(c)
    BY <1>1, <1>3, <2>2, <2>3, FileFacts DEF Lifecycle!Enable, Install
  <2>5. HookKeepsRecord'
    BY <2>2, <2>3 DEF HookKeepsRecord
  <2> QED
    BY <2>4, <2>5 DEF Serves, Lifecycle!Next
<1> QED
  BY <1>2, <1>3 DEF Artifacts

\* The command knows that its file has its name.
LEMMA PublishedIs ==
    ASSUME All, NEW c \in Commands, NEW f \in Artifacts, op[c].pc \in {LinkStep[f], InspectStep[f]},
           NEW e, e["lock"] = entry["lock"], e[f] = Whole(c), \A g \in Artifacts \ {f} : e[g] = entry[g]
    PROVE  DiskInv(c, KnownAsPublished([op[c] EXCEPT !.pc = ConfirmStep[f], !.changed = @ \cup {f}], f),
                   e, staging[c])
<1> DEFINE r == KnownAsPublished([op[c] EXCEPT !.pc = ConfirmStep[f], !.changed = @ \cup {f}], f)
<1>1. /\ op[c] \in Operations /\ OwnInv(c, op[c]) /\ DiskInv(c, op[c], entry, staging[c])
      /\ \/ f = "receipt" /\ op[c].pc \in {"link_receipt", "inspect_receipt"}
         \/ f = "hook" /\ op[c].pc \in {"link_hook", "inspect_hook"}
  BY Known DEF Artifacts, LinkStep, InspectStep
<1>2. Holding(op[c]) /\ Install(c) /\ op[c].phase = "verify" /\ op[c].result = "none"
  BY <1>1, Known DEF OwnInv, InLock, Installing, Preparing, ReceiptThere, Removals, RemovalOf
<1>3. /\ r.pc = IF f = "receipt" THEN "confirm_receipt" ELSE "confirm_hook"
      /\ r.phase = op[c].phase /\ r.locked = op[c].locked /\ r.tracked = op[c].tracked
      /\ r.changed = op[c].changed \cup {f} /\ r.settled = op[c].settled \cup {f} /\ r.result = op[c].result
  BY <1>1 DEF Operations, KnownAsPublished, Artifacts, ConfirmStep
<1>4. LockInv(c, r, e, staging[c])
  <2> HIDE DEF r
  <2> QED
    BY <1>1, <1>2, <1>3 DEF DiskInv, LockInv, Holding
<1>5. FilesInv(c, r, e)
  <2>1. e["receipt"] = Whole(c)
    BY <1>1, <1>2 DEF DiskInv, FilesInv, OwnInv, ReceiptThere, Artifacts
  <2> HIDE DEF r
  <2> QED
    BY <1>2, <1>3, <2>1 DEF FilesInv
<1>6. DropsSucceed => RefusalInv(c, r, e, staging[c])
  <2>1. ASSUME DropsSucceed, f = "receipt"
        PROVE  r.changed = {"receipt"}
    <3>1. op[c].changed \subseteq {"receipt"}
      BY <1>1, <1>2, <2>1 DEF DiskInv, RefusalInv, InstallChanges, Preparing
    <3> HIDE DEF r
    <3> QED
      BY <1>3, <2>1, <3>1
  <2> HIDE DEF r
  <2> QED
    BY <1>1, <1>2, <1>3, <2>1 DEF RefusalInv, InstallChanges, Refusals, Preparing, ReceiptThere
<1> QED
  BY <1>4, <1>5, <1>6 DEF DiskInv

LEMMA LinkSound ==
    ASSUME All, NEW c \in Commands, NEW f \in Artifacts, Link(c, f)
    PROVE  Sound
<1>1. /\ op[c] \in Operations /\ OwnInv(c, op[c]) /\ DiskInv(c, op[c], entry, staging[c])
      /\ op[c].pc = LinkStep[f] /\ entry \in [FixedNames -> Files] /\ FixedNames = {"receipt", "hook", "lock"}
      /\ UNCHANGED <<stage, staging>>
  BY Known DEF Link, At, All, OwnAll, TypeOK, FixedNames, Artifacts
<1>2. \/ f = "receipt" /\ op[c].pc = "link_receipt" /\ InspectStep[f] = "inspect_receipt"
      \/ f = "hook" /\ op[c].pc = "link_hook" /\ InspectStep[f] = "inspect_hook"
  BY <1>1 DEF Artifacts, LinkStep, InspectStep
<1>3. CASE ~Present(f)
  <2> DEFINE r == KnownAsPublished([op[c] EXCEPT !.pc = ConfirmStep[f], !.changed = @ \cup {f}], f)
  <2>1. entry' = [entry EXCEPT ![f] = Whole(c)] /\ Become(c, r)
    BY <1>3 DEF Link, Published
  <2>2. op'[c] = r /\ \A d \in Commands \ {c} : op'[d] = op[d]
    BY <2>1, BecomeIs DEF All
  <2>3. entry'["lock"] = entry["lock"] /\ entry'[f] = Whole(c) /\ \A g \in Artifacts \ {f} : entry'[g] = entry[g]
    BY <1>1, <2>1 DEF Artifacts
  <2>4. DiskInv(c, r, entry', staging[c])
    BY <1>1, <2>3, PublishedIs
  <2>5. HookKeepsRecord' /\ Serves
    BY <1>1, <1>3, <2>1, NewName
  <2>6. Holding(op[c])
    BY <1>2, Known DEF Before, InLock, Installing, Preparing, ReceiptThere, HookThere, Returning,
      Removing, Surveying, Disabling, Disclaiming
  <2>7. entry[f] # Foreign
    BY <1>3, FileFacts DEF Present
  <2>8. DiskAll' /\ Serves /\ ForeignStays
    BY <1>1, <2>1, <2>2, <2>4, <2>5, <2>6, <2>7, FileStep
  <2> QED
    BY <2>8 DEF Sound
<1>4. CASE Present(f)
  <2>1. Go(c, InspectStep[f]) /\ entry' = entry
    BY <1>4 DEF Link
  <2>2. DiskInv(c, [op[c] EXCEPT !.pc = InspectStep[f]], entry, staging[c])
    BY <1>1, <1>2 DEF Operations, OwnInv, DiskInv, LockInv, FilesInv, RefusalInv, InstallChanges,
      RemoveChanges, Holding, Pristine, Refusals, Removals, RemovalOf, Before, InLock, Installing,
      Preparing, ReceiptThere, HookThere, Returning, Removing, Surveying, Disabling, Disclaiming
  <2> QED
    BY <1>1, <2>1, <2>2, GoSound DEF disk
<1> QED
  BY <1>3, <1>4

LEMMA PublishThrowSound ==
    ASSUME All, NEW c \in Commands, NEW f \in Artifacts, NEW e \in {"input", "recovery", "other"},
           op[c].pc \in {InspectStep[f], ConfirmStep[f], UnstageStep[f], SettleStep[f]},
           op[c].pc = InspectStep[f] => e = "recovery" \/ entry[f] # Whole(c),
           Throw(c, e), UNCHANGED <<entry, staging>>
    PROVE  Sound
<1>1. /\ op[c].pc \in Installing /\ op[c].pc \notin Removals
      /\ op[c].pc = "inspect_receipt" => op[c].pc = InspectStep[f] /\ f = "receipt"
      /\ op[c].pc \notin Before \cup {"dropped_hook", "dropped_receipt"}
  BY DEF Artifacts, InspectStep, ConfirmStep, UnstageStep, SettleStep, Installing, Preparing,
    ReceiptThere,
         HookThere, Before, Removals, RemovalOf
<1>2. op[c].phase = "verify"
  BY <1>1, Known DEF OwnInv, Installing, Preparing, ReceiptThere, HookThere
<1>3. e \in Errors \ {"none"}
  BY DEF Errors
<1> QED
  BY <1>1, <1>2, <1>3, ThrowSound

LEMMA InspectPublishSound ==
    ASSUME All, NEW c \in Commands, NEW f \in Artifacts, InspectPublish(c, f)
    PROVE  Sound
<1>1. op[c].pc = InspectStep[f] /\ UNCHANGED disk
  BY DEF InspectPublish, At
<1>2. CASE entry[f] = Whole(c)
  <2> DEFINE r == KnownAsPublished([op[c] EXCEPT !.pc = ConfirmStep[f], !.changed = @ \cup {f}], f)
  <2>1. Become(c, r)
    BY <1>2 DEF InspectPublish, Published
  <2>2. DiskInv(c, r, entry, staging[c])
    BY <1>1, <1>2, PublishedIs
  <2> QED
    BY <1>1, <2>1, <2>2, MoveSound
<1>3. CASE entry[f] # Whole(c)
  BY <1>1, <1>3, PublishThrowSound DEF InspectPublish, disk
<1> QED
  BY <1>2, <1>3

LEMMA ConfirmPublishSound ==
    ASSUME All, NEW c \in Commands, NEW f \in Artifacts, ConfirmPublish(c, f)
    PROVE  Sound
<1>1. /\ op[c] \in Operations /\ OwnInv(c, op[c]) /\ DiskInv(c, op[c], entry, staging[c])
      /\ op[c].pc = ConfirmStep[f] /\ UNCHANGED disk
  BY Known DEF ConfirmPublish, At
<1>2. CASE Go(c, UnstageStep[f])
  <2>1. \/ op[c].pc = "confirm_receipt" /\ UnstageStep[f] = "unstage_receipt"
        \/ op[c].pc = "confirm_hook" /\ UnstageStep[f] = "unstage_hook"
    BY <1>1 DEF Artifacts, ConfirmStep, UnstageStep
  <2>2. DiskInv(c, [op[c] EXCEPT !.pc = UnstageStep[f]], entry, staging[c])
    BY <1>1, <2>1 DEF Operations, OwnInv, DiskInv, LockInv, FilesInv, RefusalInv, InstallChanges,
      RemoveChanges, Holding, Pristine, Refusals, Removals, RemovalOf, Before, InLock, Installing,
      Preparing, ReceiptThere, HookThere, Returning, Removing, Surveying, Disabling, Disclaiming
  <2> QED
    BY <1>1, <1>2, <2>2, GoSound
<1>3. CASE \E e \in {"input", "recovery", "other"} : Throw(c, e)
  <2>1. op[c].pc # InspectStep[f]
    BY <1>1 DEF Artifacts, ConfirmStep, InspectStep
  <2> QED
    BY <1>1, <1>3, <2>1, PublishThrowSound DEF disk
<1> QED
  BY <1>2, <1>3, LockErrorsType DEF ConfirmPublish

LEMMA UnstageSound ==
    ASSUME All, NEW c \in Commands, NEW f \in Artifacts, Unstage(c, f)
    PROVE  Sound
<1>1. /\ op[c] \in Operations /\ OwnInv(c, op[c]) /\ DiskInv(c, op[c], entry, staging[c])
      /\ op[c].pc = UnstageStep[f] /\ UNCHANGED <<entry, staging>>
  BY Known DEF Unstage, At
<1>2. CASE Go(c, SettleStep[f])
  <2>1. \/ op[c].pc = "unstage_receipt" /\ SettleStep[f] = "settle_receipt"
        \/ op[c].pc = "unstage_hook" /\ SettleStep[f] = "settle_hook"
    BY <1>1 DEF Artifacts, SettleStep, UnstageStep
  <2>2. DiskInv(c, [op[c] EXCEPT !.pc = SettleStep[f]], entry, staging[c])
    BY <1>1, <2>1 DEF Operations, OwnInv, DiskInv, LockInv, FilesInv, RefusalInv, InstallChanges,
      RemoveChanges, Holding, Pristine, Refusals, Removals, RemovalOf, Before, InLock, Installing,
      Preparing, ReceiptThere, HookThere, Returning, Removing, Surveying, Disabling, Disclaiming
  <2>3. op'[c] = [op[c] EXCEPT !.pc = SettleStep[f]] /\ \A d \in Commands \ {c} : op'[d] = op[d]
    BY <1>2, BecomeIs DEF All, Go
  <2> QED
    BY <1>1, <2>2, <2>3, StillStep DEF Sound
<1>3. CASE Throw(c, "recovery")
  BY <1>1, <1>3, PublishThrowSound
<1> QED
  BY <1>2, <1>3 DEF Unstage

LEMMA SettlePublishSound ==
    ASSUME All, NEW c \in Commands, NEW f \in Artifacts, SettlePublish(c, f)
    PROVE  Sound
<1> DEFINE r == [op[c] EXCEPT !.pc = IF f = "receipt" THEN "check_hook" ELSE "check_committed",
                              !.staged = @ \ {f}, !.settled = @ \cup {f}]
<1>1. /\ op[c] \in Operations /\ OwnInv(c, op[c]) /\ DiskInv(c, op[c], entry, staging[c])
      /\ op[c].pc = SettleStep[f] /\ UNCHANGED disk
  BY Known DEF SettlePublish, At
<1>2. CASE Become(c, r)
  <2>1. \/ f = "receipt" /\ op[c].pc = "settle_receipt" /\ op[c].settled = {"receipt"}
        \/ f = "hook" /\ op[c].pc = "settle_hook" /\ "hook" \in op[c].settled
    BY <1>1 DEF Artifacts, SettleStep, OwnInv, ReceiptThere, HookThere
  <2>2. /\ r.pc = IF f = "receipt" THEN "check_hook" ELSE "check_committed"
        /\ r.settled = op[c].settled \cup {f} /\ r.changed = op[c].changed /\ r.tracked = op[c].tracked
        /\ r.phase = op[c].phase /\ r.locked = op[c].locked /\ r.author = op[c].author /\ r.err = op[c].err
        /\ r.confirmed = op[c].confirmed /\ r.result = op[c].result
    BY <1>1 DEF Operations
  <2>3. r.settled = op[c].settled
    BY <2>1, <2>2
  <2>4. DiskInv(c, r, entry, staging[c])
    <3> HIDE DEF r
    <3> QED
      BY <1>1, <2>1, <2>2, <2>3 DEF Operations, OwnInv, DiskInv, LockInv, FilesInv, RefusalInv,
        InstallChanges, RemoveChanges, Holding, Pristine, Refusals, Removals, RemovalOf, Before,
        InLock, Installing, Preparing, ReceiptThere, HookThere, Returning, Removing, Surveying,
        Disabling, Disclaiming
  <2> QED
    BY <1>1, <1>2, <2>4, MoveSound
<1>3. CASE \E e \in {"input", "recovery", "other"} : Throw(c, e)
  <2>1. op[c].pc # InspectStep[f]
    BY <1>1 DEF Artifacts, SettleStep, InspectStep
  <2> QED
    BY <1>1, <1>3, <2>1, PublishThrowSound DEF disk
<1> QED
  BY <1>2, <1>3, LockErrorsType DEF SettlePublish

LEMMA TrackReceiptSound ==
    ASSUME All, NEW c \in Commands, TrackReceipt(c)
    PROVE  Sound
<1> DEFINE r == [op[c] EXCEPT !.author = entry["receipt"].by,
                              !.pc = IF op[c].exact THEN "track_hook" ELSE "inactive"]
<1>1. /\ op[c] \in Operations /\ OwnInv(c, op[c]) /\ DiskInv(c, op[c], entry, staging[c])
      /\ op[c].pc = "track_receipt" /\ UNCHANGED disk /\ op[c].phase = "verify"
  BY Known DEF TrackReceipt, At, OwnInv, Removals, RemovalOf
<1>2. CASE Become(c, r)
  <2>1. /\ r.pc = IF op[c].exact THEN "track_hook" ELSE "inactive"
        /\ r.settled = op[c].settled /\ r.changed = op[c].changed /\ r.tracked = op[c].tracked
        /\ r.phase = op[c].phase /\ r.locked = op[c].locked /\ r.err = op[c].err
        /\ r.confirmed = op[c].confirmed /\ r.result = op[c].result
    BY <1>1 DEF Operations
  <2>2. DiskInv(c, r, entry, staging[c])
    <3> HIDE DEF r
    <3> QED
      BY <1>1, <2>1 DEF Operations, OwnInv, DiskInv, LockInv, FilesInv, RefusalInv, InstallChanges,
        RemoveChanges, Holding, Pristine, Refusals, Removals, RemovalOf, Before, InLock,
        Installing, Preparing, ReceiptThere, HookThere, Returning, Removing, Surveying, Disabling,
        Disclaiming
  <2> QED
    BY <1>1, <1>2, <2>2, MoveSound
<1>3. CASE \E e \in {"input", "recovery", "other"} : Throw(c, e)
  BY <1>1, <1>3, ThrowSound DEF Errors, Removing, Surveying, Before, disk
<1> QED
  BY <1>2, <1>3, LockErrorsType DEF TrackReceipt

LEMMA TrackHookSound ==
    ASSUME All, NEW c \in Commands, TrackHook(c)
    PROVE  Sound
<1>1. /\ op[c] \in Operations /\ OwnInv(c, op[c]) /\ DiskInv(c, op[c], entry, staging[c])
      /\ op[c].pc = "track_hook" /\ UNCHANGED disk /\ op[c].phase = "verify"
  BY Known DEF TrackHook, At, OwnInv, Removals, RemovalOf
<1>2. CASE Go(c, "check_exact")
  <2>1. DiskInv(c, [op[c] EXCEPT !.pc = "check_exact"], entry, staging[c])
    BY <1>1 DEF Operations, OwnInv, DiskInv, LockInv, FilesInv, RefusalInv, InstallChanges,
      RemoveChanges, Holding, Pristine, Refusals, Removals, RemovalOf, Before, InLock, Installing,
      Preparing, ReceiptThere, HookThere, Returning, Removing, Surveying, Disabling, Disclaiming
  <2> QED
    BY <1>1, <1>2, <2>1, GoSound
<1>3. CASE \E e \in {"cancelled", "input", "other"} : Throw(c, e)
  BY <1>1, <1>3, ThrowSound DEF Errors, Removing, Disabling, Before, disk
<1> QED
  BY <1>2, <1>3 DEF TrackHook

LEMMA SettleDropSound ==
    ASSUME All, NEW c \in Commands, NEW f \in Artifacts, SettleDrop(c, f)
    PROVE  Sound
<1> DEFINE r == [op[c] EXCEPT !.pc = IF f = "hook" THEN "inactive" ELSE "vacant", !.settled = @ \cup {f}]
<1>1. /\ op[c] \in Operations /\ OwnInv(c, op[c]) /\ DiskInv(c, op[c], entry, staging[c]) /\ UNCHANGED disk
      /\ \/ f = "hook" /\ op[c].pc = "dropped_hook"
         \/ f = "receipt" /\ op[c].pc = "dropped_receipt"
  BY Known DEF SettleDrop, At, Artifacts, DroppedStep
<1>2. LockErrors(c) = {}
  <2>1. Holding(op[c])
    BY <1>1, Known DEF Before, InLock, Installing, Preparing, ReceiptThere, HookThere, Returning,
      Removing, Surveying, Disabling, Disclaiming
  <2> QED
    BY <2>1, HeldNoErrors
<1>3. Become(c, r)
  BY <1>2 DEF SettleDrop
<1>4. DiskInv(c, r, entry, staging[c])
  <2>1. /\ r.pc = IF f = "hook" THEN "inactive" ELSE "vacant"
        /\ r.settled = op[c].settled \cup {f} /\ r.changed = op[c].changed /\ r.tracked = op[c].tracked
        /\ r.phase = op[c].phase /\ r.locked = op[c].locked /\ r.err = op[c].err
        /\ r.confirmed = op[c].confirmed /\ r.result = op[c].result
    BY <1>1 DEF Operations
  <2>2. r.settled # {}
    BY <2>1
  <2>3. ~Install(c) /\ r.phase = "verify"
    BY <1>1, <2>1 DEF OwnInv, Removals, RemovalOf, Removing, Disabling, Disclaiming
  <2> HIDE DEF r
  <2> QED
    BY <1>1, <2>1, <2>2, <2>3 DEF Operations, OwnInv, DiskInv, LockInv, FilesInv, RefusalInv,
      InstallChanges, RemoveChanges, Holding, Pristine, Refusals, Removals, RemovalOf, Before,
      InLock, Installing, Preparing, ReceiptThere, HookThere, Returning, Removing, Surveying,
      Disabling, Disclaiming
<1> QED
  BY <1>1, <1>3, <1>4, MoveSound

LEMMA RemovedSound ==
    ASSUME All, NEW c \in Commands, op[c].pc \in Removals, Removed(c), UNCHANGED disk,
           op[c].phase = "gone" \/ op[c].pc \in {"drop_hook", "drop_receipt"}
    PROVE  Sound
<1> DEFINE r == [op[c] EXCEPT !.pc = AfterRemoval(c), !.phase = "verify", !.locked = @ /\ op[c].pc # "release"]
<1>1. /\ op[c] \in Operations /\ OwnInv(c, op[c]) /\ DiskInv(c, op[c], entry, staging[c])
      /\ Become(c, r)
  BY Known, RemovedIs DEF All
<1>2. \/ op[c].pc = "unpublish" /\ AfterRemoval(c) = "unpublished"
      \/ op[c].pc = "drop_hook" /\ AfterRemoval(c) = "dropped_hook"
      \/ op[c].pc = "drop_receipt" /\ AfterRemoval(c) = "dropped_receipt"
      \/ op[c].pc = "release" /\ AfterRemoval(c) = "report"
  BY RemovalLabels DEF AfterRemoval, At
<1>3. /\ r.pc = AfterRemoval(c) /\ r.phase = "verify" /\ r.tracked = op[c].tracked
      /\ r.locked = (op[c].locked /\ op[c].pc # "release")
      /\ r.author = op[c].author /\ r.settled = op[c].settled /\ r.err = op[c].err
      /\ r.confirmed = op[c].confirmed /\ r.result = op[c].result /\ r.changed = op[c].changed
  BY <1>1 DEF Operations
<1>4. r.result = "none" /\ (op[c].pc # "release" => Holding(op[c]))
  BY <1>1, <1>2, <1>3, Known DEF OwnInv, Before, InLock, Installing, Preparing, ReceiptThere,
    HookThere, Returning, Removing, Surveying, Disabling, Disclaiming
<1>5. LockInv(c, r, entry, staging[c])
  <2> HIDE DEF r
  <2> QED
    BY <1>1, <1>2, <1>3, <1>4 DEF DiskInv, LockInv, Holding
<1>6. FilesInv(c, r, entry)
  <2> HIDE DEF r
  <2> QED
    BY <1>2, <1>3 DEF FilesInv, Removals, RemovalOf, ReceiptThere, HookThere
<1>7. DropsSucceed => RefusalInv(c, r, entry, staging[c])
  <2>1. op[c].pc = "release" => staging[c] = "none" /\ entry["lock"].by # c
    BY <1>1 DEF DiskInv, LockInv
  <2>2. ASSUME DropsSucceed, Install(c)
        PROVE  InstallChanges(c, r, entry)
    <3>1. InstallChanges(c, op[c], entry)
      BY <1>1, <2>2 DEF DiskInv, RefusalInv
    <3>2. op[c].pc \in {"unpublish", "release"}
      BY <1>1, <1>2, <2>2 DEF OwnInv, Removing, Disabling, Disclaiming
    <3> HIDE DEF r
    <3> QED
      BY <1>2, <1>3, <3>1, <3>2 DEF InstallChanges, Preparing, ReceiptThere
  <2>3. ASSUME DropsSucceed, ~Install(c)
        PROVE  RemoveChanges(r)
    <3>1. RemoveChanges(op[c])
      BY <1>1, <2>3 DEF DiskInv, RefusalInv
    <3>2. op[c].pc # "unpublish"
      BY <1>1, <2>3 DEF OwnInv, Returning
    <3> HIDE DEF r
    <3> QED
      BY <1>2, <1>3, <3>1, <3>2 DEF RemoveChanges
  <2> HIDE DEF r
  <2> QED
    BY <1>2, <1>3, <1>4, <2>1, <2>2, <2>3 DEF RefusalInv, Refusals
<1>8. DiskInv(c, r, entry, staging[c])
  BY <1>5, <1>6, <1>7 DEF DiskInv
<1> QED
  BY <1>1, <1>8, MoveSound

LEMMA UnconfirmedSound ==
    ASSUME All, NEW c \in Commands, op[c].pc \in Returning, Unconfirmed(c, "cleanup"), UNCHANGED disk
    PROVE  Sound
<1> DEFINE r == [op[c] EXCEPT !.pc = "cleanup", !.phase = "verify", !.confirmed = FALSE]
<1>1. /\ op[c] \in Operations /\ OwnInv(c, op[c]) /\ DiskInv(c, op[c], entry, staging[c])
      /\ Holding(op[c])
  BY Known DEF Before, InLock, Installing, Preparing, ReceiptThere, HookThere, Returning, Removing,
    Surveying, Disabling, Disclaiming
<1>2. /\ r.pc = "cleanup" /\ r.phase = "verify" /\ r.tracked = op[c].tracked /\ r.locked = op[c].locked
      /\ ~r.confirmed /\ r.result = op[c].result
  BY <1>1 DEF Operations
<1>3. Install(c) /\ r.locked /\ r.result = "none"
  BY <1>1, <1>2 DEF OwnInv, InLock, Returning
<1>4. DiskInv(c, r, entry, staging[c])
  <2> HIDE DEF r
  <2> QED
    BY <1>1, <1>2, <1>3 DEF Operations, OwnInv, DiskInv, LockInv, FilesInv, RefusalInv,
      InstallChanges, RemoveChanges, Holding, Pristine, Refusals, Removals, RemovalOf, Before,
      InLock, Installing, Preparing, ReceiptThere, HookThere, Returning, Removing, Surveying,
      Disabling, Disclaiming
<1> QED
  BY <1>4, MoveSound DEF Unconfirmed

LEMMA NotRemovedSound ==
    ASSUME All, NEW c \in Commands, op[c].pc \in Removals, NotRemoved(c), UNCHANGED disk
    PROVE  Sound
<1>1. /\ op[c] \in Operations /\ OwnInv(c, op[c]) /\ DiskInv(c, op[c], entry, staging[c])
      /\ op[c].pc \in {"unpublish", "drop_hook", "drop_receipt", "release"}
  BY Known, RemovalLabels
<1>2. CASE op[c].pc = "release"
  <2> DEFINE r == [op[c] EXCEPT !.pc = "report", !.phase = "verify", !.locked = FALSE, !.confirmed = FALSE]
  <2>1. /\ r.pc = "report" /\ ~r.locked /\ ~r.confirmed /\ r.result = op[c].result
        /\ r.settled = op[c].settled /\ r.changed = op[c].changed /\ r.err = op[c].err
    BY <1>1 DEF Operations
  <2>2. r.result = "none" /\ staging[c] = "none"
    BY <1>1, <1>2, <2>1 DEF OwnInv, DiskInv, LockInv
  <2>3. DiskInv(c, r, entry, staging[c])
    <3> HIDE DEF r
    <3> QED
      BY <1>1, <1>2, <2>1, <2>2 DEF Operations, OwnInv, DiskInv, LockInv, FilesInv, RefusalInv,
        InstallChanges, RemoveChanges, Holding, Pristine, Refusals, Removals, RemovalOf, Before,
        InLock, Installing, Preparing, ReceiptThere, HookThere, Returning, Removing, Surveying,
        Disabling, Disclaiming
  <2> QED
    BY <1>2, <2>3, MoveSound DEF NotRemoved, At
<1>3. CASE op[c].pc = "unpublish"
  BY <1>3, UnconfirmedSound DEF NotRemoved, At, Returning
<1>4. CASE op[c].pc \in {"drop_hook", "drop_receipt"}
  <2> DEFINE r == [op[c] EXCEPT !.pc = "catch", !.phase = "verify", !.err = "recovery"]
  <2>1. /\ r.pc = "catch" /\ r.phase = "verify" /\ r.locked = op[c].locked /\ r.tracked = op[c].tracked
        /\ r.err = "recovery" /\ r.result = op[c].result
    BY <1>1 DEF Operations
  <2>2. ~Install(c) /\ r.result = "none" /\ Holding(op[c])
    BY <1>1, <1>4, <2>1, Known DEF OwnInv, Before, InLock, Installing, Preparing, ReceiptThere,
      HookThere, Returning, Removing, Surveying, Disabling, Disclaiming
  <2>3. DiskInv(c, r, entry, staging[c])
    <3> HIDE DEF r
    <3> QED
      BY <1>1, <1>4, <2>1, <2>2 DEF Operations, OwnInv, DiskInv, LockInv, FilesInv, RefusalInv,
        InstallChanges, RemoveChanges, Holding, Pristine, Refusals, Removals, RemovalOf, Before,
        InLock, Installing, Preparing, ReceiptThere, HookThere, Returning, Removing, Surveying,
        Disabling, Disclaiming
  <2> QED
    BY <1>4, <2>3, MoveSound DEF NotRemoved, At
<1> QED
  BY <1>1, <1>2, <1>3, <1>4

LEMMA RemoveVerifySound ==
    ASSUME All, NEW c \in Commands, RemoveVerify(c)
    PROVE  Sound
<1>1. /\ op[c] \in Operations /\ OwnInv(c, op[c]) /\ DiskInv(c, op[c], entry, staging[c])
      /\ op[c].pc \in Removals /\ op[c].phase = "verify" /\ UNCHANGED disk
  BY Known DEF RemoveVerify
<1>2. CASE SameFile(c, Target(c))
  <2> DEFINE r == [op[c] EXCEPT !.phase = "unlink"]
  <2>1. /\ r.pc = op[c].pc /\ r.phase = "unlink" /\ r.tracked = op[c].tracked /\ r.locked = op[c].locked
        /\ r.author = op[c].author /\ r.settled = op[c].settled /\ r.err = op[c].err
        /\ r.confirmed = op[c].confirmed /\ r.result = op[c].result /\ r.changed = op[c].changed
    BY <1>1 DEF Operations
  <2>2. entry[RemovalOf[op[c].pc]] = Whole(IF op[c].pc = "release" THEN c ELSE op[c].author)
    BY <1>1, <1>2, TargetIs DEF SameFile, Verified, Target
  <2>3. LockInv(c, r, entry, staging[c])
    <3> HIDE DEF r
    <3> QED
      BY <1>1, <2>1 DEF DiskInv, LockInv, Holding
  <2>4. FilesInv(c, r, entry)
    <3> HIDE DEF r
    <3> QED
      BY <1>1, <2>1, <2>2 DEF DiskInv, FilesInv
  <2>5. DropsSucceed => RefusalInv(c, r, entry, staging[c])
    <3> HIDE DEF r
    <3> QED
      BY <1>1, <2>1 DEF DiskInv, RefusalInv, InstallChanges, RemoveChanges
  <2> QED
    BY <1>1, <1>2, <2>3, <2>4, <2>5, MoveSound DEF RemoveVerify, DiskInv
<1>3. CASE ~SameFile(c, Target(c)) /\ ~Present(Target(c)) /\ Target(c) # "lock"
  <2>1. op[c].pc \in {"unpublish", "drop_hook", "drop_receipt"}
    BY <1>1, <1>3, TargetIs, RemovalLabels
  <2>2. op[c].pc # "unpublish"
    <3> SUFFICES ASSUME op[c].pc = "unpublish" PROVE FALSE
      OBVIOUS
    <3>1. Install(c) /\ op[c].settled = {"receipt"}
      BY <1>1 DEF OwnInv, Returning
    <3>2. entry["receipt"] = Whole(c)
      BY <1>1, <3>1 DEF DiskInv, FilesInv
    <3> QED
      BY <1>1, <1>3, <3>2, TargetIs, FileFacts DEF Present
  <2> QED
    BY <1>1, <1>3, <2>1, <2>2, RemovedSound DEF RemoveVerify
<1> QED
  BY <1>1, <1>2, <1>3, NotRemovedSound DEF RemoveVerify

\* An unlink of a file of the installation.
LEMMA LostName ==
    ASSUME All, NEW c \in Commands, op[c].pc \in {"unpublish", "drop_hook", "drop_receipt"},
           op[c].phase = "unlink", entry' = [entry EXCEPT ![Target(c)] = NoFile]
    PROVE  HookKeepsRecord' /\ Serves /\ entry[Target(c)] # Foreign
<1>1. /\ entry \in [FixedNames -> Files] /\ {"receipt", "hook", "lock"} = FixedNames
      /\ OwnInv(c, op[c]) /\ DiskInv(c, op[c], entry, staging[c]) /\ HookKeepsRecord
      /\ op[c] \in Operations
  BY Known DEF All, OwnAll, TypeOK, DiskAll, FixedNames, Artifacts
<1>2. entry["lock"] = Whole(c) /\ op[c].pc \in Removals
  BY Known, RemovalLabels DEF Before, InLock, Installing, Preparing, ReceiptThere, HookThere,
    Returning, Removing, Surveying, Disabling, Disclaiming
<1>3. op[c].author \in Commands
  BY <1>1 DEF Operations, OwnInv, Returning, Disabling, Disclaiming
<1>4. entry[Target(c)] = Whole(op[c].author)
  BY <1>1, <1>2 DEF Target, DiskInv, FilesInv
<1>5. Kind[c] \in {"install", "remove"}
  BY ClaudeAssumption
<1>6. CASE op[c].pc = "drop_hook"
  <2>1. Target(c) = "hook" /\ ~Install(c)
    BY <1>1, <1>2, <1>6, TargetIs DEF OwnInv, Removing, Disabling
  <2>2. entry["receipt"] = entry["hook"] /\ entry["hook"].by # Nobody
    BY <1>1, <1>3, <1>4, <2>1, FileFacts DEF HookKeepsRecord
  <2>3. entry'["hook"] = NoFile /\ entry'["receipt"] = entry["receipt"] /\ entry'["lock"] = entry["lock"]
    BY <1>1, <2>1
  <2>4. Lifecycle!Disable(c)
    BY <1>2, <1>5, <2>1, <2>2, <2>3, FileFacts DEF Lifecycle!Disable, Install
  <2>5. HookKeepsRecord'
    BY <2>3, FileFacts DEF HookKeepsRecord
  <2> QED
    BY <1>3, <1>4, <2>4, <2>5, FileFacts DEF Serves, Lifecycle!Next
<1>7. CASE op[c].pc \in {"unpublish", "drop_receipt"}
  <2>1. Target(c) = "receipt" /\ (op[c].pc = "unpublish" => op[c].author = c)
        /\ (op[c].pc = "drop_receipt" => ~Install(c))
    BY <1>1, <1>2, <1>7, TargetIs DEF OwnInv, Returning, Removing, Disclaiming
  <2>2. entry["hook"].by = Nobody
    BY <1>1, <1>7 DEF DiskInv, FilesInv
  <2>3. entry'["receipt"] = NoFile /\ entry'["hook"] = entry["hook"] /\ entry'["lock"] = entry["lock"]
    BY <1>1, <2>1
  <2>4. Lifecycle!Disclaim(c)
    BY <1>2, <1>3, <1>4, <1>5, <1>7, <2>1, <2>2, <2>3, FileFacts DEF Lifecycle!Disclaim, Install
  <2>5. HookKeepsRecord'
    BY <2>2, <2>3, FileFacts DEF HookKeepsRecord
  <2> QED
    BY <1>3, <1>4, <2>4, <2>5, FileFacts DEF Serves, Lifecycle!Next
<1> QED
  BY <1>6, <1>7

LEMMA RemoveUnlinkSound ==
    ASSUME All, NEW c \in Commands, RemoveUnlink(c)
    PROVE  Sound
<1>1. /\ op[c] \in Operations /\ OwnInv(c, op[c]) /\ DiskInv(c, op[c], entry, staging[c])
      /\ op[c].pc \in Removals /\ op[c].phase = "unlink" /\ UNCHANGED <<stage, staging>>
      /\ entry \in [FixedNames -> Files] /\ {"receipt", "hook", "lock"} = FixedNames
  BY Known DEF RemoveUnlink, All, OwnAll, TypeOK, FixedNames, Artifacts
<1> DEFINE r == [op[c] EXCEPT !.phase = "gone", !.changed = Touched(c)]
<1>2. /\ r.pc = op[c].pc /\ r.phase = "gone" /\ r.tracked = op[c].tracked /\ r.locked = op[c].locked
      /\ r.author = op[c].author /\ r.settled = op[c].settled /\ r.err = op[c].err
      /\ r.confirmed = op[c].confirmed /\ r.result = op[c].result /\ r.changed = Touched(c)
  BY <1>1 DEF Operations
<1>3. op[c].result = "none" /\ op[c].locked
  BY <1>1, RemovalLabels DEF OwnInv, Before, InLock, Installing, Preparing, ReceiptThere,
    HookThere, Returning, Removing, Surveying, Disabling, Disclaiming
<1>4. CASE Present(Target(c))
  <2>1. entry' = [entry EXCEPT ![Target(c)] = NoFile] /\ Become(c, r)
    BY <1>4 DEF RemoveUnlink
  <2>2. op'[c] = r /\ \A d \in Commands \ {c} : op'[d] = op[d]
    BY <2>1, BecomeIs DEF All
  <2>3. CASE op[c].pc = "release"
    <3>1. Target(c) = "lock" /\ Touched(c) = op[c].changed
      BY <1>1, <2>3, TargetIs DEF Touched
    <3>2. entry["lock"] = Whole(c) /\ entry'["lock"] = NoFile /\ staging[c] = "none"
      BY <1>1, <1>3, <2>1, <2>3, <3>1 DEF DiskInv, LockInv, Holding
    <3>3. LockInv(c, r, entry', staging[c])
      <4> HIDE DEF r
      <4> QED
        BY <1>2, <2>3, <3>2, FileFacts DEF LockInv, Holding
    <3>4. FilesInv(c, r, entry')
      <4> HIDE DEF r
      <4> QED
        BY <1>2, <2>3 DEF FilesInv, ReceiptThere, HookThere
    <3>5. DropsSucceed => RefusalInv(c, r, entry', staging[c])
      <4> HIDE DEF r
      <4> QED
        BY <1>1, <1>2, <1>3, <2>3, <3>1
        DEF DiskInv, RefusalInv, InstallChanges, RemoveChanges, Refusals, Preparing, ReceiptThere
    <3>6. DiskInv(c, r, entry', staging[c])
      BY <3>3, <3>4, <3>5 DEF DiskInv
    <3> QED
      BY <1>1, <2>1, <2>2, <3>1, <3>2, <3>6, LockStep DEF Sound
  <2>4. CASE op[c].pc # "release"
    <3>1. /\ op[c].pc \in {"unpublish", "drop_hook", "drop_receipt"}
          /\ Target(c) = IF op[c].pc = "drop_hook" THEN "hook" ELSE "receipt"
          /\ Holding(op[c])
      BY <1>1, <1>3, <2>4, TargetIs, RemovalLabels DEF Holding
    <3>2. HookKeepsRecord' /\ Serves /\ entry[Target(c)] # Foreign
      BY <1>1, <2>1, <3>1, LostName
    <3>3. entry'["lock"] = entry["lock"] /\ (op[c].pc # "drop_hook" => entry'["hook"] = entry["hook"])
      BY <1>1, <2>1, <3>1
    <3>4. LockInv(c, r, entry', staging[c])
      <4> HIDE DEF r
      <4> QED
        BY <1>1, <1>2, <3>1, <3>3 DEF DiskInv, LockInv, Holding
    <3>5. FilesInv(c, r, entry')
      <4> HIDE DEF r
      <4> QED
        BY <1>1, <1>2, <3>1, <3>3 DEF DiskInv, FilesInv, ReceiptThere, HookThere
    <3>6. DropsSucceed => RefusalInv(c, r, entry', staging[c])
      <4>1. ASSUME DropsSucceed, op[c].pc = "unpublish"
            PROVE  Touched(c) = {} /\ Install(c)
        <5>1. Install(c)
          BY <1>1, <4>1 DEF OwnInv, Returning
        <5>2. op[c].changed \subseteq {"receipt"}
          BY <1>1, <4>1, <5>1 DEF DiskInv, RefusalInv, InstallChanges
        <5> QED
          BY <3>1, <4>1, <5>1, <5>2 DEF Touched, At
      <4>2. op[c].pc # "unpublish" => ~Install(c)
        BY <1>1, <3>1 DEF OwnInv, Removing, Disabling, Disclaiming
      <4> HIDE DEF r
      <4> QED
        BY <1>2, <1>3, <3>1, <4>1, <4>2
        DEF RefusalInv, InstallChanges, RemoveChanges, Refusals, Preparing, ReceiptThere
    <3>7. DiskInv(c, r, entry', staging[c])
      BY <3>4, <3>5, <3>6 DEF DiskInv
    <3>8. Target(c) \in Artifacts
      BY <3>1 DEF Artifacts
    <3>9. /\ \A d \in Commands \ {c} : op'[d] = op[d]
          /\ staging' = staging /\ DiskInv(c, op'[c], entry', staging[c])
          /\ entry' = [entry EXCEPT ![Target(c)] = NoFile]
      BY <1>1, <2>1, <2>2, <3>7
    <3> HIDE DEF r
    <3>10. DiskAll' /\ Serves /\ ForeignStays
      BY <3>1, <3>2, <3>8, <3>9, FileStep
    <3> QED
      BY <3>10 DEF Sound
  <2> QED
    BY <2>3, <2>4
<1>5. CASE ~Present(Target(c))
  BY <1>1, <1>5, NotRemovedSound DEF RemoveUnlink, disk
<1> QED
  BY <1>4, <1>5

LEMMA RemoveGoneSound ==
    ASSUME All, NEW c \in Commands, RemoveGone(c)
    PROVE  Sound
  BY RemovedSound, NotRemovedSound DEF RemoveGone

LEMMA CatchSound ==
    ASSUME All, NEW c \in Commands, Catch(c)
    PROVE  Sound
<1> DEFINE l == IF ~Install(c) THEN IF op[c].locked THEN "release" ELSE "report"
                ELSE IF NeedsUnpublish(c) THEN "check_unpublish" ELSE "cleanup"
           r == [op[c] EXCEPT !.pc = l]
<1>1. /\ op[c] \in Operations /\ OwnInv(c, op[c]) /\ DiskInv(c, op[c], entry, staging[c])
      /\ op[c].pc = "catch" /\ UNCHANGED disk
  BY Known DEF Catch, At
<1>2. /\ r.pc = l /\ r.phase = op[c].phase /\ r.tracked = op[c].tracked /\ r.locked = op[c].locked
      /\ r.author = op[c].author /\ r.settled = op[c].settled /\ r.err = op[c].err
      /\ r.confirmed = op[c].confirmed /\ r.result = op[c].result /\ r.changed = op[c].changed
  BY <1>1 DEF Operations
<1>3. op[c].phase = "verify" /\ op[c].result = "none" /\ op[c].settled \subseteq {"receipt", "hook"}
  BY <1>1 DEF OwnInv, Removals, RemovalOf, Operations, Artifacts
<1>4. LockInv(c, r, entry, staging[c])
  <2> HIDE DEF r
  <2> QED
    BY <1>1, <1>2, <1>3 DEF DiskInv, LockInv, Holding
<1>5. FilesInv(c, r, entry)
  <2>1. Install(c) /\ "receipt" \in op[c].settled => entry["receipt"] = Whole(c)
    BY <1>1 DEF DiskInv, FilesInv
  <2> HIDE DEF r
  <2> QED
    BY <1>2, <1>3, <2>1 DEF FilesInv
<1>6. DropsSucceed => RefusalInv(c, r, entry, staging[c])
  <2>1. ASSUME DropsSucceed, Install(c)
        PROVE  InstallChanges(c, r, entry)
    <3>1. InstallChanges(c, op[c], entry)
      BY <1>1, <2>1 DEF DiskInv, RefusalInv
    <3>2. op[c].settled # {"receipt"} /\ "hook" \notin op[c].settled => op[c].settled = {}
      BY <1>3
    <3> HIDE DEF r
    <3> QED
      BY <1>1, <1>2, <2>1, <3>1, <3>2 DEF NeedsUnpublish, InstallChanges, Preparing, ReceiptThere
  <2>2. ASSUME DropsSucceed, ~Install(c)
        PROVE  RemoveChanges(r)
    <3> HIDE DEF r
    <3> QED
      BY <1>1, <1>2, <2>2 DEF DiskInv, RefusalInv, RemoveChanges
  <2>3. ~Install(c) => staging[c] = "none"
    BY <1>1 DEF DiskInv, LockInv
  <2> HIDE DEF r
  <2> QED
    BY <1>1, <1>2, <1>3, <2>1, <2>2, <2>3 DEF DiskInv, RefusalInv, Refusals
<1> QED
  BY <1>1, <1>4, <1>5, <1>6, GoSound DEF Catch, DiskInv

LEMMA CheckUnpublishSound ==
    ASSUME All, NEW c \in Commands, CheckUnpublish(c)
    PROVE  Sound
<1>1. /\ op[c] \in Operations /\ OwnInv(c, op[c]) /\ DiskInv(c, op[c], entry, staging[c])
      /\ op[c].pc \in {"check_unpublish", "unpublished"} /\ UNCHANGED disk
  BY Known DEF CheckUnpublish
<1>2. Install(c) /\ Holding(op[c]) /\ op[c].phase = "verify" /\ op[c].result = "none"
  BY <1>1, Known DEF OwnInv, Removals, RemovalOf, InLock, Returning
<1>3. CASE op[c].pc = "check_unpublish" /\ Go(c, "unpublish") /\ \E st \in Observations(c) : ~st.local
  <2> DEFINE r == [op[c] EXCEPT !.pc = "unpublish"]
  <2>1. ~Present("hook")
    BY <1>3 DEF Observations, Status, Unsafe
  <2>2. /\ r.pc = "unpublish" /\ r.phase = op[c].phase /\ r.tracked = op[c].tracked /\ r.locked = op[c].locked
        /\ r.settled = op[c].settled /\ r.result = op[c].result /\ r.changed = op[c].changed
    BY <1>1 DEF Operations
  <2>3. LockInv(c, r, entry, staging[c])
    <3> HIDE DEF r
    <3> QED
      BY <1>1, <1>2, <1>3, <2>2 DEF DiskInv, LockInv, Holding
  <2>4. FilesInv(c, r, entry)
    <3>1. entry["receipt"] = Whole(c) /\ entry["hook"].by = Nobody
      BY <1>1, <1>2, <1>3, <2>1, FileFacts DEF Present, DiskInv, FilesInv, OwnInv, Returning
    <3> HIDE DEF r
    <3> QED
      BY <1>2, <2>2, <3>1 DEF FilesInv
  <2>5. DropsSucceed => RefusalInv(c, r, entry, staging[c])
    <3>1. ASSUME DropsSucceed
          PROVE  op[c].changed \subseteq {"receipt"}
      <4>1. "hook" \notin op[c].changed
        BY <1>1, <1>2, <1>3, <2>1, <3>1 DEF Present, DiskInv, RefusalInv, InstallChanges, OwnInv,
          Returning
      <4> QED
        BY <1>1, <4>1 DEF Operations, Artifacts
    <3> HIDE DEF r
    <3> QED
      BY <1>2, <2>2, <3>1 DEF RefusalInv, InstallChanges, Refusals, Preparing, ReceiptThere
  <2> QED
    BY <1>1, <1>3, <2>3, <2>4, <2>5, GoSound DEF DiskInv
<1>4. CASE op[c].pc = "unpublished" /\ Go(c, "cleanup")
  <2> DEFINE r == [op[c] EXCEPT !.pc = "cleanup"]
  <2>1. /\ r.pc = "cleanup" /\ r.phase = op[c].phase /\ r.tracked = op[c].tracked /\ r.locked = op[c].locked
        /\ r.settled = op[c].settled /\ r.result = op[c].result /\ r.changed = op[c].changed
    BY <1>1 DEF Operations
  <2>2. DropsSucceed => op[c].changed = {}
    BY <1>1, <1>2, <1>4 DEF DiskInv, RefusalInv, InstallChanges
  <2>3. DiskInv(c, r, entry, staging[c])
    <3> HIDE DEF r
    <3> QED
      BY <1>1, <1>2, <1>4, <2>1, <2>2 DEF Operations, OwnInv, DiskInv, LockInv, FilesInv,
        RefusalInv, InstallChanges, RemoveChanges, Holding, Pristine, Refusals, Removals,
        RemovalOf, Before, InLock, Installing, Preparing, ReceiptThere, HookThere, Returning,
        Removing, Surveying, Disabling, Disclaiming
  <2> QED
    BY <1>1, <1>4, <2>3, GoSound
<1>5. CASE Unconfirmed(c, "cleanup")
  BY <1>1, <1>5, UnconfirmedSound DEF Returning
<1> QED
  BY <1>1, <1>3, <1>4, <1>5 DEF CheckUnpublish, At

LEMMA CleanUpSound ==
    ASSUME All, NEW c \in Commands, op[c].pc = "cleanup", NEW gone, CleanUp(c, gone), entry' = entry
    PROVE  Sound
<1> DEFINE r == [op[c] EXCEPT !.pc = IF op[c].locked /\ Cleaned(c, gone) THEN "release" ELSE "report",
                              !.confirmed = @ /\ Cleaned(c, gone), !.locked = @ /\ Cleaned(c, gone)]
           s == staging'[c]
<1>1. /\ op[c] \in Operations /\ OwnInv(c, op[c]) /\ DiskInv(c, op[c], entry, staging[c])
      /\ staging \in [Commands -> {"none", "clean", "littered"}]
  BY Known DEF All, OwnAll, TypeOK
<1>2. op'[c] = r /\ \A d \in Commands \ {c} : op'[d] = op[d]
  BY CleanUpIs, BecomeIs DEF All
<1>3. /\ op[c].tracked /\ Emptied(c, gone) => s = "none"
      /\ ~(op[c].tracked /\ Emptied(c, gone)) => s = staging[c]
      /\ \A d \in Commands \ {c} : staging'[d] = staging[d]
  <2>1. CASE op[c].tracked /\ Emptied(c, gone)
    BY <1>1, <2>1, CleanUpIs
  <2>2. CASE ~(op[c].tracked /\ Emptied(c, gone))
    BY <1>1, <2>2, CleanUpIs
  <2> QED
    BY <2>1, <2>2
<1>4. /\ s = "none" \/ s = staging[c]
      /\ Cleaned(c, gone) => s = "none"
  <2>1. ~op[c].tracked => staging[c] = "none"
    BY <1>1 DEF DiskInv, LockInv
  <2> QED
    BY <1>3, <2>1 DEF Cleaned
<1>5. /\ r.pc = IF op[c].locked /\ Cleaned(c, gone) THEN "release" ELSE "report"
      /\ r.confirmed = (op[c].confirmed /\ Cleaned(c, gone))
      /\ r.locked = (op[c].locked /\ Cleaned(c, gone))
      /\ r.author = op[c].author /\ r.settled = op[c].settled /\ r.err = op[c].err
      /\ r.phase = op[c].phase /\ r.result = op[c].result /\ r.changed = op[c].changed
  BY <1>1 DEF Operations
<1>6. Install(c) /\ op[c].phase = "verify" /\ op[c].result = "none"
  BY <1>1 DEF OwnInv, Removals, RemovalOf
<1>7. DiskInv(c, r, entry, s)
  <2>1. LockInv(c, r, entry, s)
    <3> HIDE DEF r, s
    <3> QED
      BY <1>1, <1>4, <1>5, <1>6 DEF DiskInv, LockInv, Holding
  <2>2. FilesInv(c, r, entry)
    <3> HIDE DEF r
    <3> QED
      BY <1>5, <1>6 DEF FilesInv, ReceiptThere, HookThere
  <2>3. DropsSucceed => RefusalInv(c, r, entry, s)
    <3> HIDE DEF r, s
    <3> QED
      BY <1>1, <1>4, <1>5, <1>6 DEF DiskInv, RefusalInv, InstallChanges, Refusals, Preparing,
        ReceiptThere
  <2> QED
    BY <2>1, <2>2, <2>3 DEF DiskInv
<1> QED
  BY <1>2, <1>3, <1>7, StillStep DEF Sound

LEMMA CleanupSound ==
    ASSUME All, NEW c \in Commands, Cleanup(c)
    PROVE  Sound
  BY CleanUpSound DEF Cleanup, At

LEMMA ReportSound ==
    ASSUME All, NEW c \in Commands, NEW res, op[c].pc = "report", Report(c, res), UNCHANGED disk,
           res \in Refusals => /\ ~PastCommit(c) /\ op[c].confirmed
                               /\ op[c].err \notin {"none", "recovery"}
    PROVE  Sound
<1> DEFINE r == [op[c] EXCEPT !.pc = "done", !.result = res]
<1>1. op[c] \in Operations /\ OwnInv(c, op[c]) /\ DiskInv(c, op[c], entry, staging[c])
  BY Known
<1>2. r.pc = "done" /\ r.result = res /\ r.changed = op[c].changed /\ r.locked = op[c].locked
  BY <1>1 DEF Operations
<1>3. ~op[c].locked
  BY <1>1 DEF OwnInv
<1>4. ASSUME DropsSucceed, res \in Refusals
      PROVE  op[c].changed = {} /\ staging[c] = "none" /\ entry["lock"].by # c
  <2>1. RefusalInv(c, op[c], entry, staging[c])
    BY <1>1, <1>4 DEF DiskInv
  <2>2. staging[c] = "none" /\ entry["lock"].by # c
    BY <1>4, <2>1 DEF RefusalInv
  <2>3. op[c].changed = {}
    BY <1>4, <2>1 DEF RefusalInv, InstallChanges, RemoveChanges, PastCommit, Committed
  <2> QED
    BY <2>2, <2>3
<1>5. DiskInv(c, r, entry, staging[c])
  <2> HIDE DEF r
  <2> QED
    BY <1>1, <1>2, <1>3, <1>4 DEF DiskInv, LockInv, FilesInv, RefusalInv, InstallChanges,
      RemoveChanges, Holding,
                      Removals, RemovalOf, Before, InLock, Installing, Preparing, ReceiptThere, HookThere, Returning, Removing, Surveying, Disabling, Disclaiming
<1> QED
  BY <1>5, MoveSound DEF Report

LEMMA ReportOutcomeSound ==
    ASSUME All, NEW c \in Commands, ReportOutcome(c)
    PROVE  Sound
<1>1. op[c].pc = "report" /\ UNCHANGED disk
  BY DEF ReportOutcome, At
<1>2. CASE \E res \in {"installed", "removed", "recovery"} : Report(c, res)
  BY <1>1, <1>2, ReportSound DEF Refusals
<1>3. CASE ~(op[c].err = "none" /\ op[c].confirmed) /\ Report(c, Outcome(c))
  <2>1. Outcome(c) \in Refusals => /\ ~PastCommit(c) /\ op[c].confirmed
                                   /\ op[c].err \notin {"none", "recovery"}
    BY <1>3 DEF Outcome, Refusals
  <2> QED
    BY <1>1, <1>3, <2>1, ReportSound
<1> QED
  BY <1>2, <1>3 DEF ReportOutcome

LEMMA CancelSound ==
    ASSUME All, NEW c \in Commands, Cancel(c)
    PROVE  Sound
<1> DEFINE r == [op[c] EXCEPT !.aborted = TRUE]
<1>1. op[c] \in Operations /\ OwnInv(c, op[c]) /\ DiskInv(c, op[c], entry, staging[c])
  BY Known
<1>2. /\ r.pc = op[c].pc /\ r.phase = op[c].phase /\ r.tracked = op[c].tracked /\ r.locked = op[c].locked
      /\ r.author = op[c].author /\ r.settled = op[c].settled /\ r.err = op[c].err
      /\ r.confirmed = op[c].confirmed /\ r.result = op[c].result /\ r.changed = op[c].changed
  BY <1>1 DEF Operations
<1>3. DiskInv(c, r, entry, staging[c])
  <2> HIDE DEF r
  <2> QED
    BY <1>1, <1>2 DEF DiskInv, LockInv, FilesInv, RefusalInv, InstallChanges, RemoveChanges, Holding
<1> QED
  BY <1>3, MoveSound DEF Cancel

LEMMA CrashSound ==
    ASSUME All, NEW c \in Commands, Crash(c)
    PROVE  Sound
<1>1. op[c] \in Operations /\ OwnInv(c, op[c]) /\ DiskInv(c, op[c], entry, staging[c]) /\ op[c].pc # "done"
  BY Known DEF Crash, Running
<1>2. DiskInv(c, [op[c] EXCEPT !.pc = "crashed"], entry, staging[c])
  BY <1>1 DEF Operations, OwnInv, DiskInv, LockInv, FilesInv, RefusalInv, InstallChanges,
    RemoveChanges, Holding, Pristine, Refusals, Removals, RemovalOf, Before, InLock, Installing,
    Preparing, ReceiptThere, HookThere, Returning, Removing, Surveying, Disabling, Disclaiming
<1> QED
  BY <1>2, GoSound DEF Crash

-----------------------------------------------------------------------------
(* A call that fails, step by step.                                        *)

\* The write of the lock's record fails, before or after it took effect.
LEMMA WriteLockFails ==
    ASSUME All, NEW c \in Commands, op[c].pc = "write_lock", Go(c, "abandon_lock"), staging' = staging,
           entry' \in {entry} \cup (IF entry["lock"] = Blank(c)
                                      THEN {[entry EXCEPT !["lock"] = Whole(c)]} ELSE {})
    PROVE  Sound
<1> DEFINE r == [op[c] EXCEPT !.pc = "abandon_lock"]
<1>1. /\ op[c] \in Operations /\ OwnInv(c, op[c]) /\ DiskInv(c, op[c], entry, staging[c])
      /\ entry \in [FixedNames -> Files] /\ "lock" \in FixedNames
  BY Known DEF All, OwnAll, TypeOK, FixedNames
<1>2. op'[c] = r /\ \A d \in Commands \ {c} : op'[d] = op[d]
  BY BecomeIs DEF All, Go
<1>3. entry["lock"] = Blank(c) /\ staging[c] = "none"
  BY <1>1, FileFacts DEF DiskInv, LockInv
<1>4. /\ r.pc = "abandon_lock" /\ r.phase = "verify" /\ r.settled = {} /\ r.changed = {} /\ r.result = "none"
      /\ ~r.locked
  BY <1>1 DEF Operations, OwnInv, Before, Pristine, Removals, RemovalOf
<1>5. CASE entry' = entry
  <2>1. DiskInv(c, r, entry, staging[c])
    <3> HIDE DEF r
    <3> QED
      BY <1>3, <1>4, FileFacts DEF Operations, OwnInv, DiskInv, LockInv, FilesInv, RefusalInv,
        InstallChanges, RemoveChanges, Holding, Pristine, Refusals, Removals, RemovalOf, Before,
        InLock, Installing, Preparing, ReceiptThere, HookThere, Returning, Removing, Surveying,
        Disabling, Disclaiming
  <2> QED
    BY <1>2, <1>5, <2>1, StillStep DEF Sound
<1>6. CASE entry' = [entry EXCEPT !["lock"] = Whole(c)]
  <2>1. entry'["lock"] = Whole(c)
    BY <1>1, <1>6
  <2>2. DiskInv(c, r, entry', staging[c])
    <3> HIDE DEF r
    <3> QED
      BY <1>3, <1>4, <2>1, FileFacts DEF Operations, OwnInv, DiskInv, LockInv, FilesInv,
        RefusalInv, InstallChanges, RemoveChanges, Holding, Pristine, Refusals, Removals,
        RemovalOf, Before, InLock, Installing, Preparing, ReceiptThere, HookThere, Returning,
        Removing, Surveying, Disabling, Disclaiming
  <2> QED
    BY <1>2, <1>3, <1>6, <2>2, LockStep DEF Sound
<1> QED
  BY <1>3, <1>5, <1>6

\* Nobody knows whether the staging directory exists: the lock stays.
LEMMA MakeStagingFails ==
    ASSUME All, NEW c \in Commands, op[c].pc = "make_staging", Become(c, StagingUnknown(c)), entry' = entry,
           staging' \in {staging, [staging EXCEPT ![c] = "clean"]}
    PROVE  Sound
<1> DEFINE r == StagingUnknown(c)
           s == staging'[c]
<1>1. /\ op[c] \in Operations /\ OwnInv(c, op[c]) /\ DiskInv(c, op[c], entry, staging[c])
      /\ entry["lock"] = Whole(c) /\ Install(c)
  BY Known DEF OwnInv, InLock, Installing, Preparing
<1>2. op'[c] = r /\ \A d \in Commands \ {c} : op'[d] = op[d]
  BY BecomeIs DEF All
<1>3. \A d \in Commands \ {c} : staging'[d] = staging[d]
  BY DEF All, OwnAll, TypeOK
<1>4. /\ r.pc = "report" /\ ~r.locked /\ ~r.confirmed /\ r.phase = op[c].phase /\ r.settled = op[c].settled
      /\ r.changed = op[c].changed /\ r.result = op[c].result
  BY <1>1 DEF Operations, StagingUnknown
<1>5. r.result = "none"
  BY <1>1, <1>4 DEF OwnInv
<1>6. DiskInv(c, r, entry, s)
  <2> HIDE DEF r, s
  <2> QED
    BY <1>1, <1>4, <1>5 DEF Operations, OwnInv, DiskInv, LockInv, FilesInv, RefusalInv,
      InstallChanges, RemoveChanges, Holding, Pristine, Refusals, Removals, RemovalOf, Before,
      InLock, Installing, Preparing, ReceiptThere, HookThere, Returning, Removing, Surveying,
      Disabling, Disclaiming
<1> QED
  BY <1>2, <1>3, <1>6, StillStep DEF Sound

\* A file may be littered while it is written, a directory while it is probed.
LEMMA StagingFails ==
    ASSUME All, NEW c \in Commands, op[c].pc \in {"stage_receipt", "stage_hook", "probe"}, Littering(c),
           NEW e \in {"input", "other"}, Throw(c, e)
    PROVE  Sound
<1>1. op[c].tracked /\ op[c].pc \in Installing /\ op[c].phase = "verify"
  BY Known DEF OwnInv, Installing, Preparing, Removals, RemovalOf
<1>2. \A d \in Commands \ {c} : staging'[d] = staging[d]
  BY DEF All, OwnAll, TypeOK, Littering
<1>3. entry' = entry
  BY DEF Littering
<1> QED
  BY <1>1, <1>2, <1>3, ThrowSound DEF Errors, Before

\* A link(2) that reports an error, whether it happened or not.
LEMMA LinkFails ==
    ASSUME All, NEW c \in Commands, NEW f \in Artifacts, op[c].pc = LinkStep[f], staging' = staging,
           entry' \in {entry} \cup (IF Present(f) THEN {} ELSE {[entry EXCEPT ![f] = Whole(c)]}),
           Become(c, [op[c] EXCEPT !.pc = InspectStep[f],
                                   !.changed = IF entry' = entry THEN @ ELSE @ \cup {f}])
    PROVE  Sound
<1> DEFINE r == [op[c] EXCEPT !.pc = InspectStep[f], !.changed = IF entry' = entry THEN @ ELSE @ \cup {f}]
<1>1. /\ op[c] \in Operations /\ OwnInv(c, op[c]) /\ DiskInv(c, op[c], entry, staging[c])
      /\ entry \in [FixedNames -> Files] /\ FixedNames = {"receipt", "hook", "lock"}
  BY Known DEF All, OwnAll, TypeOK, FixedNames, Artifacts
<1>2. \/ f = "receipt" /\ op[c].pc = "link_receipt" /\ InspectStep[f] = "inspect_receipt"
      \/ f = "hook" /\ op[c].pc = "link_hook" /\ InspectStep[f] = "inspect_hook"
  BY DEF Artifacts, LinkStep, InspectStep
<1>3. op'[c] = r /\ \A d \in Commands \ {c} : op'[d] = op[d]
  BY BecomeIs DEF All
<1>4. Holding(op[c]) /\ Install(c) /\ op[c].phase = "verify" /\ op[c].result = "none"
  BY <1>1, <1>2, Known DEF OwnInv, InLock, Installing, Preparing, ReceiptThere, Removals, RemovalOf
<1>5. /\ r.pc = InspectStep[f] /\ r.phase = op[c].phase /\ r.locked = op[c].locked /\ r.tracked = op[c].tracked
      /\ r.settled = op[c].settled /\ r.result = op[c].result
      /\ entry' = entry => r.changed = op[c].changed
      /\ entry' # entry => r.changed = op[c].changed \cup {f}
  BY <1>1 DEF Operations
<1>6. CASE entry' = entry
  <2>1. r.changed = op[c].changed
    BY <1>5, <1>6
  <2>2. DiskInv(c, r, entry, staging[c])
    <3> HIDE DEF r
    <3> QED
      BY <1>1, <1>2, <1>4, <1>5, <2>1 DEF Operations, OwnInv, DiskInv, LockInv, FilesInv,
        RefusalInv, InstallChanges, RemoveChanges, Holding, Pristine, Refusals, Removals,
        RemovalOf, Before, InLock, Installing, Preparing, ReceiptThere, HookThere, Returning,
        Removing, Surveying, Disabling, Disclaiming
  <2> QED
    BY <1>3, <1>6, <2>2, StillStep DEF Sound
<1>7. CASE ~Present(f) /\ entry' = [entry EXCEPT ![f] = Whole(c)]
  <2>1. entry'["lock"] = entry["lock"] /\ entry'[f] = Whole(c) /\ \A g \in Artifacts \ {f} : entry'[g] = entry[g]
    BY <1>1, <1>7 DEF Artifacts
  <2>2. entry' # entry /\ entry[f] # Foreign
    BY <1>7, <2>1, FileFacts DEF Present
  <2>3. r.changed = op[c].changed \cup {f}
    BY <1>5, <2>2
  <2>4. LockInv(c, r, entry', staging[c])
    <3> HIDE DEF r
    <3> QED
      BY <1>1, <1>2, <1>4, <1>5, <2>1 DEF DiskInv, LockInv, Holding
  <2>5. FilesInv(c, r, entry')
    <3>1. f = "hook" => entry'["receipt"] = Whole(c)
      BY <1>1, <1>2, <1>4, <2>1 DEF DiskInv, FilesInv, OwnInv, ReceiptThere, Artifacts
    <3>2. f = "receipt" => entry'["receipt"] = Whole(c)
      BY <2>1
    <3> HIDE DEF r
    <3> QED
      BY <1>2, <1>4, <1>5, <3>1, <3>2 DEF FilesInv, Removals, RemovalOf
  <2>6. DropsSucceed => RefusalInv(c, r, entry', staging[c])
    <3>1. DropsSucceed /\ f = "receipt" => op[c].changed = {}
      BY <1>1, <1>2, <1>4 DEF DiskInv, RefusalInv, InstallChanges, Preparing
    <3>2. entry'[f] # NoFile
      BY <2>1, FileFacts
    <3> HIDE DEF r
    <3> QED
      BY <1>2, <1>4, <1>5, <2>1, <2>3, <3>1, <3>2 DEF RefusalInv, InstallChanges, Refusals,
        Preparing, ReceiptThere
  <2>7. HookKeepsRecord' /\ Serves
    BY <1>7, NewName
  <2>8. DiskAll' /\ Serves /\ ForeignStays
    <3>1. DiskInv(c, op'[c], entry', staging[c])
      BY <1>3, <2>4, <2>5, <2>6 DEF DiskInv
    <3> QED
      BY <1>3, <1>4, <1>7, <2>2, <2>7, <3>1, FileStep
  <2> QED
    BY <2>8 DEF Sound
<1> QED
  BY <1>6, <1>7

LEMMA FailSound ==
    ASSUME All, NEW c \in Commands, Fail(c)
    PROVE  Sound
<1>1. /\ op[c] \in Operations /\ OwnInv(c, op[c]) /\ DiskInv(c, op[c], entry, staging[c])
      /\ FailingCall(c) /\ op[c].pc \in FaultSteps
  BY Known DEF Fail
<1>2. CASE op[c].pc = "observe" /\ UNCHANGED disk /\ \E res \in {"input", "failed"} : Report(c, res)
  BY <1>2, ReportFirstSound DEF Results
<1>3. CASE op[c].pc = "lock" /\ Throw(c, "other") /\ UNCHANGED disk
  <2>1. entry["lock"].by # c /\ op[c].phase = "verify"
    BY <1>1, <1>3 DEF DiskInv, LockInv, OwnInv, Removals, RemovalOf
  <2> QED
    BY <1>3, <2>1, ThrowSound DEF Errors, Before, disk
<1>4. CASE op[c].pc = "abandon_lock" /\ Throw(c, "recovery") /\ UNCHANGED disk
  <2>1. op[c].phase = "verify"
    BY <1>1, <1>4 DEF OwnInv, Removals, RemovalOf
  <2> QED
    BY <1>4, <2>1, ThrowSound DEF Errors, Before, disk
<1>5. CASE /\ op[c].pc \in Checks /\ UNCHANGED disk
           /\ \E e \in {"other", "input", Unexpected(op[c].pc)} : Throw(c, e)
  <2>1. op[c].pc \in Installing \cup Removing /\ op[c].phase = "verify"
    BY <1>1, <1>5, CheckLabels DEF OwnInv
  <2>2. Unexpected(op[c].pc) \in {"input", "recovery"}
    BY DEF Unexpected
  <2>3. op[c].pc \notin Before \cup {"inspect_receipt", "dropped_hook", "dropped_receipt"}
    BY <1>5 DEF Checks, InstallChecks, RemoveChecks, Before
  <2> QED
    BY <1>5, <2>1, <2>2, <2>3, ThrowSound DEF Errors, disk
<1>6. CASE /\ op[c].pc \in {"track_receipt", "track_hook"} \cup StepsOf(DroppedStep) /\ UNCHANGED disk
           /\ \E e \in {"input", "recovery", "other"} : Throw(c, e)
  <2>1. op[c].pc \in {"track_receipt", "track_hook", "dropped_receipt", "dropped_hook"}
    BY <1>6 DEF StepsOf, DroppedStep, Artifacts
  <2>2. op[c].pc \in Removing /\ op[c].phase = "verify"
    BY <1>1, <2>1 DEF OwnInv, Removals, RemovalOf, Removing, Surveying, Disabling, Disclaiming
  <2>3. op[c].pc \in {"dropped_hook", "dropped_receipt"} => ~DropsSucceed
    BY <1>1 DEF DropsSucceed, StepsOf, DroppedStep, Artifacts
  <2>4. op[c].pc \notin Before \cup {"inspect_receipt"}
    BY <2>1 DEF Before
  <2> QED
    BY <1>6, <2>2, <2>3, <2>4, ThrowSound DEF Errors, disk
<1>7. CASE \E f \in Artifacts : /\ op[c].pc \in {InspectStep[f], UnstageStep[f]} /\ Throw(c, "recovery")
                                /\ UNCHANGED <<entry, staging>>
  BY <1>7, PublishThrowSound
<1>8. CASE \E f \in Artifacts : /\ op[c].pc \in {ConfirmStep[f], SettleStep[f]} /\ UNCHANGED disk
                                /\ \E e \in {"input", "recovery", "other"} : Throw(c, e)
  <2>1. PICK f \in Artifacts : /\ op[c].pc \in {ConfirmStep[f], SettleStep[f]} /\ UNCHANGED disk
                               /\ \E e \in {"input", "recovery", "other"} : Throw(c, e)
    BY <1>8
  <2>2. op[c].pc # InspectStep[f]
    BY <2>1 DEF Artifacts, InspectStep, ConfirmStep, SettleStep
  <2> QED
    BY <2>1, <2>2, PublishThrowSound DEF disk
<1>9. CASE op[c].pc \in Removals /\ NotRemoved(c) /\ UNCHANGED disk
  BY <1>9, NotRemovedSound
<1>10. CASE op[c].pc \in {"check_unpublish", "unpublished"} /\ Unconfirmed(c, "cleanup") /\ UNCHANGED disk
  BY <1>10, UnconfirmedSound DEF Returning
<1>11. CASE op[c].pc = "cleanup" /\ UNCHANGED entry /\ \E gone : CleanUp(c, gone)
  BY <1>11, CleanUpSound
<1>12. CASE op[c].pc = "report" /\ Report(c, "recovery") /\ UNCHANGED disk
  BY <1>12, ReportSound DEF Refusals
<1>13. /\ op[c].pc \in StepsOf(InspectStep) => \E f \in Artifacts : op[c].pc = InspectStep[f]
       /\ op[c].pc \in StepsOf(ConfirmStep) \cup StepsOf(SettleStep) =>
            \E f \in Artifacts : op[c].pc \in {ConfirmStep[f], SettleStep[f]}
  BY DEF StepsOf
<1>14. CASE op[c].pc \in StepsOf(InspectStep) /\ Throw(c, "recovery") /\ UNCHANGED disk
  BY <1>7, <1>13, <1>14 DEF disk
<1>15. CASE /\ \E f \in Artifacts : op[c].pc = UnstageStep[f]
            /\ Throw(c, "recovery") /\ UNCHANGED <<entry, staging>>
  BY <1>7, <1>15
<1>16. CASE /\ op[c].pc \in StepsOf(ConfirmStep) \cup StepsOf(SettleStep) /\ UNCHANGED disk
            /\ \E e \in {"input", "recovery", "other"} : Throw(c, e)
  BY <1>8, <1>13, <1>16
<1> QED
  BY <1>1, <1>2, <1>3, <1>4, <1>5, <1>6, <1>9, <1>10, <1>11, <1>12, <1>14, <1>15, <1>16,
     WriteLockFails, MakeStagingFails, StagingFails, LinkFails
  DEF FailingCall, At

-----------------------------------------------------------------------------
(* Every step.                                                             *)

LEMMA StepSound ==
    ASSUME All, NEW c \in Commands, Step(c)
    PROVE  Sound
  BY ObserveFirstSound, CreateLockSound, WriteLockSound, AbandonLockSound, CheckSound,
    MakeStagingSound,
     ProbeSound, CreateStageFileSound, LinkSound, InspectPublishSound, ConfirmPublishSound, UnstageSound,
     SettlePublishSound, SettleDropSound, TrackReceiptSound, TrackHookSound, RemoveVerifySound,
     RemoveUnlinkSound, RemoveGoneSound, CatchSound, CheckUnpublishSound, CleanupSound, ReportOutcomeSound
  DEF Step

\* Another program takes a name that is free, or the settings file's.
LEMMA EnvSound ==
    ASSUME All, OthersReplaceHookOnly, EnvStep
    PROVE  DiskAll' /\ ForeignStays
<1>1. entry \in [FixedNames -> Files] /\ FixedNames = {"receipt", "hook", "lock"}
  BY DEF All, OwnAll, TypeOK, FixedNames, Artifacts
<1>2. UNCHANGED <<op, staging>>
  BY DEF EnvStep
<1>3. CASE entry' = entry
  <2>1. DiskAll'
    BY <1>2, <1>3 DEF All, DiskAll, HookKeepsRecord
  <2> QED
    BY <1>3, <2>1 DEF ForeignStays
<1>4. ASSUME NEW n \in FixedNames, entry[n] = NoFile \/ (n = "hook" /\ ~AboutToUnlink("hook")),
             entry' = [entry EXCEPT ![n] = Foreign]
      PROVE  DiskAll' /\ ForeignStays
  <2>1. entry'[n] = Foreign /\ \A m \in FixedNames \ {n} : entry'[m] = entry[m]
    BY <1>1, <1>4
  <2>2. ForeignStays
    BY <2>1 DEF ForeignStays
  <2>3. HookKeepsRecord'
    BY <1>1, <1>4, <2>1, FileFacts DEF All, DiskAll, HookKeepsRecord
  <2>4. ASSUME NEW c \in Commands
        PROVE  DiskInv(c, op[c], entry', staging[c])
    <3>1. DiskInv(c, op[c], entry, staging[c])
      BY Known
    <3>2. LockInv(c, op[c], entry', staging[c])
      BY <1>1, <1>4, <2>1, <3>1, FileFacts DEF DiskInv, LockInv
    <3>3. FilesInv(c, op[c], entry')
      <4>1. \A l \in Removals : RemovalOf[l] = IF l = "release" THEN "lock"
                                               ELSE IF l = "drop_hook" THEN "hook" ELSE "receipt"
        BY DEF Removals, RemovalOf
      <4>2. ~AboutToUnlink("hook") => ~(op[c].pc = "drop_hook" /\ op[c].phase = "unlink")
        BY DEF AboutToUnlink, Target, Removals, RemovalOf
      <4>3. op[c].pc \in {"drop_hook", "drop_receipt", "unpublish"} => op[c].author \in Commands
        BY Known DEF OwnInv, Operations, Returning, Disabling, Disclaiming
      <4>4. ASSUME op[c].pc \in Removals, op[c].phase = "unlink"
            PROVE  entry'[RemovalOf[op[c].pc]] = Whole(IF op[c].pc = "release" THEN c ELSE op[c].author)
        <5>1. entry[RemovalOf[op[c].pc]] = Whole(IF op[c].pc = "release" THEN c ELSE op[c].author)
          BY <3>1, <4>4 DEF DiskInv, FilesInv
        <5>2. entry[RemovalOf[op[c].pc]] # NoFile
          BY <4>3, <4>4, <5>1, RemovalLabels, FileFacts
        <5>3. RemovalOf[op[c].pc] # n /\ RemovalOf[op[c].pc] \in FixedNames
          BY <1>1, <1>4, <4>1, <4>2, <4>4, <5>2
        <5> QED
          BY <2>1, <5>1, <5>3
      <4> QED
        BY <1>1, <1>4, <2>1, <3>1, <4>4, FileFacts DEF DiskInv, FilesInv
    <3>4. DropsSucceed => RefusalInv(c, op[c], entry', staging[c])
      <4>1. DropsSucceed /\ Install(c) => InstallChanges(c, op[c], entry')
        BY <1>1, <1>4, <2>1, <3>1, FileFacts DEF DiskInv, RefusalInv, InstallChanges
      <4> QED
        BY <1>1, <1>4, <2>1, <3>1, <4>1, FileFacts DEF DiskInv, RefusalInv
    <3> QED
      BY <3>2, <3>3, <3>4 DEF DiskInv
  <2> QED
    BY <1>2, <2>2, <2>3, <2>4 DEF DiskAll
<1> QED
  BY <1>3, <1>4 DEF EnvStep, OthersReplaceHookOnly, Present

LEMMA InitDisk ==
    ASSUME Init
    PROVE  DiskAll
<1>1. scenario.earlier \in Commands \cup {Nobody}
  BY ClaudeAssumption DEF Init
<1>2. /\ entry["lock"] = NoFile /\ entry["hook"] = entry["receipt"]
      /\ \A c \in Commands : /\ op[c] = Start(c, c \in scenario.running) /\ staging[c] = "none"
  BY DEF Init, FixedNames, Artifacts
<1>3. ASSUME NEW c \in Commands
      PROVE  DiskInv(c, op[c], entry, staging[c])
  <2>1. /\ op[c].pc \in {"idle", "observe"} /\ op[c].phase = "verify" /\ ~op[c].locked
        /\ op[c].settled = {} /\ op[c].changed = {} /\ op[c].result = "none"
    <3>1. ASSUME NEW b, NEW r, r = Start(c, b)
          PROVE  /\ r.pc \in {"idle", "observe"} /\ r.phase = "verify" /\ ~r.locked
                 /\ r.settled = {} /\ r.changed = {} /\ r.result = "none"
      BY <3>1 DEF Start
    <3> QED
      BY <1>2, <3>1
  <2> QED
    BY <1>2, <2>1, FileFacts DEF DiskInv, LockInv, FilesInv, RefusalInv, InstallChanges,
      RemoveChanges, Holding,
       Refusals, Removals, RemovalOf, Before, InLock, Installing, Preparing, ReceiptThere, HookThere, Returning, Removing, Surveying, Disabling, Disclaiming
<1> QED
  BY <1>2, <1>3 DEF DiskAll, HookKeepsRecord

LEMMA NextSound ==
    ASSUME All, OthersReplaceHookOnly, [Next]_vars
    PROVE  /\ All' /\ (\A n \in FixedNames : entry[n] = Foreign => entry'[n] = Foreign)
           /\ [changes' # changes \/ Lifecycle!Next]_(Lifecycle!lifecycle)
<1>1. OwnAll'
  BY OwnStep DEF All
<1>2. ASSUME NEW c \in Commands, Step(c) \/ Fail(c) \/ Cancel(c) \/ Crash(c)
      PROVE  Sound
  BY <1>2, StepSound, FailSound, CancelSound, CrashSound
<1>3. CASE EnvStep
  <2>1. changes' # changes
    BY <1>3, ClaudeAssumption DEF EnvStep, All, OwnAll, TypeOK
  <2> QED
    BY <1>1, <1>3, <2>1, EnvSound DEF All, ForeignStays
<1>4. CASE UNCHANGED vars
  <2>1. DiskAll'
    BY <1>4 DEF vars, disk, All, DiskAll, HookKeepsRecord
  <2> QED
    BY <1>1, <1>4, <2>1 DEF vars, disk, All, Lifecycle!lifecycle
<1>5. CASE \E c \in Commands : Step(c) \/ Fail(c) \/ Cancel(c) \/ Crash(c)
  BY <1>1, <1>2, <1>5 DEF Sound, Serves, ForeignStays, All
<1> QED
  BY <1>3, <1>4, <1>5 DEF Next

LEMMA AllAlways ==
    ASSUME OthersReplaceHookOnly
    PROVE  Spec => []All
<1>1. Init => All
  BY InitOwn, InitDisk DEF All
<1>2. All /\ [Next]_vars => All'
  BY NextSound
<1> QED
  BY <1>1, <1>2, PTL DEF Spec

\* Whatever fails, is cancelled or is killed, in any number of commands, a
\* hook of AgentHawk's has the receipt that owns it beside it: the receipt is
\* linked first and unlinked last, by the holder of the lock.
THEOREM RecordIsKept ==
    ASSUME OthersReplaceHookOnly
    PROVE  Spec => []HookKeepsRecord
<1>1. All => HookKeepsRecord
  BY DEF All, DiskAll
<1> QED
  BY <1>1, AllAlways, PTL

\* A staging directory that is left behind can be found: the lock that names
\* it is released only once the directory is gone.
THEOREM LeftoversAreFound ==
    ASSUME OthersReplaceHookOnly
    PROVE  Spec => []LeftoversStayDiscoverable
<1>1. All => LeftoversStayDiscoverable
  BY DEF All, DiskAll, DiskInv, LockInv, LeftoversStayDiscoverable
<1> QED
  BY <1>1, AllAlways, PTL

\* A refused, failed or cancelled command leaves nothing behind, as long as
\* the check of the lock right after a removal does not itself fail (it would
\* be reported as an ordinary failure of a command that has removed a file).
THEOREM RefusalIsClean ==
    ASSUME OthersReplaceHookOnly, DropsSucceed
    PROVE  Spec => []RefusalLeavesNothing
<1>1. All => RefusalLeavesNothing
  BY DEF All, DiskAll, DiskInv, RefusalInv, RefusalLeavesNothing
<1> QED
  BY <1>1, AllAlways, PTL

\* No command takes a file that another program put under a fixed name: what
\* is unlinked is what was verified to be the command's own.  (A file replaced
\* between that look and the unlink is left out of EnvStep.)
THEOREM ForeignIsKept ==
    ASSUME OthersReplaceHookOnly
    PROVE  Spec => ForeignFilesStay
<1>1. All /\ [Next]_vars => [\A n \in FixedNames : entry[n] = Foreign => entry'[n] = Foreign]_vars
  BY NextSound
<1> QED
  BY <1>1, AllAlways, PTL DEF Spec, ForeignFilesStay

\* The commands implement the abstract lifecycle: one writer at a time, the
\* record before the hook and after it, the lock as the sign of who may.
THEOREM LifecycleIsImplemented ==
    ASSUME OthersReplaceHookOnly
    PROVE  Spec => ImplementsLifecycle
<1>1. All /\ [Next]_vars => [changes' # changes \/ Lifecycle!Next]_(Lifecycle!lifecycle)
  BY NextSound
<1> QED
  BY <1>1, AllAlways, PTL DEF Spec, ImplementsLifecycle
=============================================================================
