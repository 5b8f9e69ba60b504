# A formal model of AgentHawk

AgentHawk decides whether a coding agent may add a dependency, and installs
itself as a hook of the agent's host (Codex, Claude Code). This directory holds
TLA+ modules translated from the TypeScript in `src/packages`, configurations
that check them with TLC on small instances, and theorems checked by TLAPS for
every instance.

    tlc -workers 2 -config CodexRace.cfg MCCodexHookTransaction
    tlapm DoubleReadProofs.tla

The modules of section 2 are the models, section 3 says what is checked of them
and on which instances, section 4 what is proved, section 5 where the code and
its documents differ.

## 1. The system

| Part | Source (`packages/`) | State | Operations | What is hard | What makes it correct |
|---|---|---|---|---|---|
| Codex hook lifecycle | `cli/src/codex-project-hook-transaction.ts`, `-status.ts`, `-format.ts` | five files of a repository: receipt, hook, operation lock, staging directory, configuration | install, remove, status, verification of an invocation | two commands at once, kill between two files, failing calls, other programs | one writer at a time; no hook without receipt; a refusal left nothing; nobody else's file is lost; the lock comes free |
| Claude hook lifecycle | `cli/src/claude-project-hook-*.ts` | the same, with `.claude/settings.local.json` as the whole hook file | the same | the same, and git-ignore state that may change; a failed `mkdir` or an unconfirmed cleanup keeps the lock | the same, and a lock is retained whenever recovery is left |
| Pre-tool-use hook | `cli/src/codex-pretooluse.ts`, `claude-pretooluse.ts`, `hook-json.ts` | one process per tool call | read, verify, evaluate, answer | a deadline at any await, failing output | the host goes on only if policy allowed everything; one answer, always |
| Action evaluation | `cli/src/action-evaluation.ts` | cursor, reports, first failure, abort controller | claim, store, fail, abort, conclude | workers interleave at awaits, late reports | each package once, no start after a failure, reports in operand order |
| Qualification, package specs | `core/src/actions`, `core/src/npm/spec.ts` | none | classify a command | many lexical cases | nothing install-like is `unrelated` (finding 5: but for some spellings of Yarn and Bun) |
| Policy engine, approvals | `core/src/policy`, `core/src/approvals` | none | evaluate, combine, approve | precedence, boundaries of time | an approval never lifts a block |
| Check pipeline | `cli/src/check.ts` | none | read policy and approvals, ask the providers or the cache, evaluate, approve, report | missing, stale or forged evidence; documents replaced while they are read | cached evidence alone never admits; malice is never lifted |
| HTTP client | `core/src/http` | one request | attempt, redirect, retry, close | time-out against abort | an abort is never retried; attempts are bounded; every request settles |
| Metadata cache | `core/src/cache` | files by key | read, write, probe | concurrent replacement, kill, power failure, clock | no torn entry is published or used |
| Providers | `core/src/osv`, `core/src/npm` | pages, advisories | query page by page, resolve a version | partial answers | incomplete is never clean |
| Repository authority | `cli/src/repository-authority.ts` | none | find root, read policy, approvals and manifest in parallel | files, and the root, that change while read | configuration and root belong together |
| Initialization | `cli/src/init.ts` | created files, lock | plan, lock, create, link, verify, roll back | failure of a later file, a second init, a kill | success stays; rolled back is exactly what was created |
| Scan, diff | `cli/src/scan.ts`, `diff.ts`, `core/src/scan` | none | inventory, check all; pin a commit, compare manifests and lockfiles | a user who edits, commits and moves the ref meanwhile | every dependency is evaluated; a diff speaks of one commit |
| Doctor, validators | `cli/src/doctor.ts`, `policy.ts`, `approvals.ts` | a probe file in the cache | probe, read, report | the same files as the checks | ready means that no probe was left behind |
| Front end | `cli/src/program.ts` | none | parse, print | - | - |
| Verification scripts | `scripts/` | child processes, archives | drive third-party hosts in CI | external programs | - |

The host starts the hook before a shell command. The hook verifies, when it was
installed for a project, that the receipt and the hook file the *lifecycle*
wrote are still in place; then *action evaluation* qualifies the command, loads
the *authority* and runs the *check pipeline* for each package, which asks the
*providers* through the *HTTP client* and the *cache*; the *policy engine* and
the *approvals* give one verdict per package, and the combination is answered.

## 2. The modules

| Module | Models | Uses |
|---|---|---|
| `HookLifecycle` | the promised lifecycle of a hook: absent, owned inactive, owned exact, one writer | abstract; implemented by both transaction modules (`ImplementsLifecycle`), and the environment of `DoubleRead` |
| `CodexHookFiles` | names, inodes and contents of the Codex hook's files, as its commands see them | |
| `CodexHookTransaction` | install and remove for Codex, call by call | EXTENDS `CodexHookFiles` |
| `ClaudeHookTransaction` | install and remove for Claude, call by call | |
| `RepositoryFiles` | files, directories and the root with inode numbers and times, as readers see them | |
| `RepositoryAuthority` | the loader of the root and its documents | EXTENDS `RepositoryFiles` |
| `DoubleRead` | status and launch verification of both hooks, and the authority, against lifecycle commands and other programs | EXTENDS `RepositoryAuthority`, composes it with `HookLifecycle` |
| `QualifyCommand` | what a shell command is taken for | pure operators |
| `PreToolUse` | one invocation of the hook, with its pool of evaluations | EXTENDS `QualifyCommand`; its `ApplyApprovals` is that of `PolicyEngine` without versions and times |
| `PolicyEngine` | the rules PG001 to PG013, verdicts, approvals | pure operators |
| `SafeHttpClient` | retries, redirects, time-out, abort | |
| `PackageCheck` | checks of one package by several processes: evidence, cache, documents, verdict; doctor and validators | EXTENDS `SafeHttpClient`, `PolicyEngine` |
| `DependencyScan` | `scan` and `diff` beside a user | EXTENDS `PackageCheck` |
| `InitTransaction` | several `init` beside other programs | |
| `MC...` | instances for TLC: `MCCodexHookTransaction`, `MCClaudeHookTransaction`, `MCDoubleRead`, `MCPreToolUse`, `MCPackageCheck` (of `DependencyScan`), `MCInitTransaction` | |
| `CodexHookTransactionProofs`, `ClaudeHookTransactionProofs`, `DoubleReadProofs`, `QualifyCommandProofs`, `InitTransactionProofs` | theorems and proofs | EXTEND their module and `TLAPS` |
| `CodexHookLifecycleProofs` | theorems on the order of the Codex hook's files, on what a refusal leaves and on other programs' files | EXTENDS `CodexHookTransactionProofs` |
| `PreToolUseProofs` | theorems on the invocation | EXTENDS `PreToolUse`, `QualifyCommandProofs` |
| `PackageCheckProofs` | theorems on checks, scan and diff | EXTENDS `DependencyScan` |

`PROJECT.json` ("map") names the lines each definition is translated from. An
operator whose name ends in a description of a bug and whose comment begins
with "Faulty variant" is not part of the specification: substituted for the
definition that follows it, it must make one property fail.

Most instances are sets of *scenarios*: a record, chosen in `Init`, that says
who runs, what is there, and how often calls may fail and others may interfere.
A scenario adds up the interesting cases where the product of all parameters
would be too large, and what it bounds stands in its fields.

### 2.1 CodexHookTransaction

*State.* `entry` gives the inode behind each fixed name, `content` what the
inode holds, `stage` and `staging` each command's private staging directory.
`op[c]` is the local state of command `c`: its program counter and the variables
of `installCodexProjectHook` or `removeCodexProjectHook` (the tracked identities,
`receiptPublished` and `hookPublished` or `committed` as `settled`, `confirmed`
for the conjunction of the clean-up results, the error its catch block received).
`changed` is a history of the artifacts the command linked or unlinked.

*Steps.* One action is one system call that changes or decides something, with
the synchronous code around it, so a check and the action it guards are two
steps whenever the code makes two calls: `Inspect` and `Unlink` (lstat, unlink),
`GuardPublish` and `Link` (lock and staging check, link), `ReleaseUnlink` and
`ReleaseConfirm` (unlink, lstat). Every step names its failure: a step in
`FaultSteps` may throw there. `Cancel` sets the signal at any moment, `Crash`
stops a command where it is, `EnvStep` is another program.

*Observations.* `observeCodexProjectHook` reads everything twice and accepts the
pair only if the signatures (inode, times, size, digest, directories) agree; the
model reads once, atomically, which `SnapshotHeld` of `DoubleRead` justifies. A
pair spoilt by another command has the outcome of `operation_locked`, since
commands change the root only while their lock is there; a pair spoilt by a
failure or another program is `Unsafe`, which `Observations` allows whenever one
of them may have happened.

*Abstracted.* Bytes (a content is its kind and its author), parents and their
safe creation, linked worktrees, size limits, readiness of the host toolchain.
The open handle of the lock keeps its inode from being reused until it is closed
(`HandleOpen`); every other free inode may come back, as on a real file system.

### 2.2 PreToolUse and QualifyCommand

An action is what JavaScript runs from one await to the next. `pc` says what is
awaited. `Abort` (the eight-second timer, or a caller) can strike only while
something is awaited and, in the pool, sets the first failure in the same step,
as listeners run synchronously. A report that arrives after the abort is stored
and its worker throws. A report is built by `ApplyApprovals` from any set of
findings and errors, so every mixture of verdicts, approvals and originals the
code can produce occurs. What the host reads is the exit code and whether a
denial was written: code 0 with no output lets it go on. The Codex and the
Claude adapter differ in how a launch is verified and in the dialect of the
command; both are choices of the initial state.

`QualifyCommand` is `qualify-command.ts` in the order of its checks. A command is
a sequence of words and a word stands for its sort (a wrapper, a reserved word,
a manager with a path, a glob, a package). The reference it is checked against,
`MayRunManager` and `Adds`, does not look at the qualification: it says which
words a shell may turn into a manager, whether the code knows it or not. What a
script or a child process behind a plain name does is outside, as it is in ADR
0012. Yarn and Bun with a path or a suffix are the sort `Overlooked`: managers to
the shell (`AnyManager`), plain names to the code's patterns. The checked property
excepts them by name, and `NeutralOnlyWhenAllowed`, which does not, is violated
(finding 5). A text over the length limit is a sort of its own.

Authority, verification and evaluations are external calls here (their insides
are `DoubleRead` and `PackageCheck`): they return anything they may return. The
hook being killed by the host is not modelled.

### 2.3 ClaudeHookTransaction

*State* as in 2.1, but a file is known by its author: every file a command
writes carries its random operation id, and the commands compare bytes as well
as identity before they unlink anything, so inode numbers would add nothing.
`hygiene` is what Git ignores and what the shared settings say; it may change at
any moment.

*Steps.* `Check` is one lock-and-hygiene check, each followed by the call it
guards; a removal is `RemoveVerify`, `RemoveUnlink`, `RemoveGone`. What a failed
call may have done is part of its failure (`FailingCall`): a failed `mkdir` may
have made the directory, a failed `link` the name. A command whose cleanup is
unconfirmed keeps its lock and asks for recovery.

*Abstracted.* Bytes, parents and their creation, linked worktrees (a free
choice). Status is one atomic observation (`DoubleRead`). The environment may
replace the settings file at any moment but between the last lstat and the
unlink of a command: Node has no conditional unlink. Faults leave out the lock
check after an unlink (`dropped_hook`, `dropped_receipt`): the disagreement is
the one of finding 2.

### 2.4 RepositoryFiles, RepositoryAuthority, DoubleRead

*State.* `file` maps a name to bytes, inode and stamp (ctime and mtime), `dir`
a directory to the stamp of its last change, `tree` is the inode of the root,
`now` counts the changes. `doc` is what the loader knows of each document;
`step`, `listing`, `local` and `seen` are what a reader knows of each file in
each of its passes.

*Steps.* `Parent`, `Entry`, `Inspect`, `Read`, `Final` are the calls that read
one file (directory lstat and listing, lstat, open and read, the second lstat);
`Compare` compares the passes, `ClassifyStatus` and `Verify` answer. The Claude
verification compares bytes alone, and so is not spared a file that comes back.
The other side is a lifecycle command, as `HookLifecycle` allows it, its staging
directory, and programs that create, edit in place, replace, delete and restore
files or put another directory in place of the root. `witness` remembers that the
installation was whole and unlocked at some instant *since the reader turned to
its files* (`Started`): what held while the authority was still being loaded does
not count, so that a hook whose installation is gone by then must not be verified.

*Abstracted.* All contents have one length. Directories other than the root
stay, and the two levels of the receipt's directory are one. A root that was
moved away does not come back, so its inode number is not reused. The lifecycle
commands belong to the first root. A document is read once and its times are not
compared, as in the code, so that it may be torn. The stamps of the Git
directory are left out, `readAbsoluteRegularFile` is part of the free choice
`Readiness`, and both questions to `git check-ignore` are one step; its answer
leaves no stamp, which is why `SnapshotHeld` holds of the ignore rules only if
they change once (`Held`). Documents that a status loads besides are left to the
reader "authority".

### 2.5 PolicyEngine, SafeHttpClient, PackageCheck

*PolicyEngine* is `policy/engine.ts` and `approvals/index.ts` as operators on
sets of findings; a finding is its rule, its verdict and whether an approval may
resolve it.

*SafeHttpClient.* One request per caller: waiting for an answer, reading or
closing the body, pausing before a retry. The first cause of an abort counts.
Whatever is not a good answer is a fault, and the scenario bounds their number.
`body.cancel()` is assumed to end.

*PackageCheck.* `job` is the local state of a check; `entry` and `temp` are the
published and the temporary cache files, `handle` an entry that is open.
`Inspect`, `OpenDocument` and `CloseDocument` read policy and approvals;
`Lookup`, `Open`, `Parse` read the cache; `Create`, `Fill`, `Sync`, `Rename` write
it; `Answered` takes an answer of the client, page by page; `Evaluate` is the
rest of the check, which runs without an await. `PowerFails` spoils what was not
synchronized, `Kill` stops a process, `SetClock` sets the clock, `Edit` replaces
a document. The doctor and the validators are other values of `Tool(c)` and use
the same actions, with `InspectRoot`, `MakeRoot`, `CreateProbe`, `RemoveProbe`
for the probe of the cache and `Report` for the answer.

*Abstracted.* The package and its advisories do not change while the checks run.
A forged entry exists from the start; nobody forges one later. A document that
is gone at its last inspection ends a check with the code's exit code 4, counted
as "invalid"; rewriting a document in place while it is read is left out. The
temporary file of a failed write can be removed. The versions, the platform, Git
and the integration files of the doctor are one choice: in order or not; a cache
root that is removed after its mkdir is "unwritable".

*What the model shows of the code, and no property forbids.* A malicious record
on an early page is discarded when a later page fails (the check then ends in
PG013, never in an admission). A version that is not semver is judged without OSV. A clock set back makes
an entry fresh for longer.

`MaliceIsNeverLifted` speaks of configurations that leave the npm registry
enabled. With npm disabled npm and OSV are asked all the same, but the engine
returns one approvable PG013 before it looks at the answers: `MaliceIsAlwaysBlocked`,
the same without the condition, is violated (finding 6).

### 2.6 DependencyScan

`command` is the scan or the diff: the phase, the pinned base, what each of the
parallel reads has returned, the changes found, the lockfiles present. `commits`,
`ref` and `work` are the user's repository. A scan starts a check of
`PackageCheck` for every item of the manifest; they share one signal, and one
package. An empty manifest scans to "allow".

A diff reads the working manifest, the changed lockfiles and the presence of each
at different moments: the model keeps them apart, and the property speaks of a
lockfile that was touched meanwhile accordingly (docs/architecture.md, "Scan and
Git diff boundary": a correlation, no lock). `Differs` is what `git diff
--name-only <commit>` lists: a tracked file whose contents on disk are not those
of the commit, and a file of the commit that is no longer in the index, whatever
is on disk. The user edits files, stages them and takes them out of the index
(`EditIndex`), commits and moves the ref. What the diff promises is stated in
terms of git's list; that the lockfile was really updated, `AllowedByAnUpdate`, is
violated (finding 7). Removed dependencies are not
reported, by the code and so by `Changes`. `Commit` approximates `git commit -a`;
the limit of the output of Git and its exit codes are one failure.

### 2.7 InitTransaction

`entry` says what stands under each target, parent directory and the lock;
`stage` and `staging` are a command's private copies; `op` its plan, the files
and directories it created, how far it is and how its rollback went. `Look` and
`Reread` plan, before the lock and again under it, `MakeParent` to `Link`
create, `Verify` reads what was made, the `Undo...` actions take it back in the
order of the code, each only if what stands there is still what was made.
What `Reread` finds changed is an input error; what is gone at its last lstat, or a
call of its that fails, is a plain failure with exit code 4.

*Abstracted.* Contents are those of the asset or something else; a name that
differs in case, or a link, is something else standing there. `mkdir` and the
lstat that identifies the directory, and the comparison and the unlink of a
rollback, are one step each (ADR 0011 declares the gap). A link that reports an
error after it succeeded, as over NFS, is left out. "codex" stands for the
integrations without parent directories, Claude's and the generic one included.

## 3. The runs

| Run | Instance | Question | Distinct states |
|---|---|---|---|
| `CodexRace` | two installations and a removal, each killed or cancelled anywhere; 3 inodes | Is there one owner of the lock, never a hook without its receipt, no change after a crash under the lock, and is the lifecycle implemented? | 555,922 |
| `CodexFaults` | an installation and a removal, calls failing anywhere but at seven steps right after a change, both killed or cancelled anywhere, one foreign file created at any moment; 4 inodes | Has a command that reports a refusal, failure or cancellation left nothing, and does no foreign file lose its name? | 1,262,186 |
| `CodexLiveness` | the same two, one failing call in each phase, the installation killed anywhere, the lock deleted by hand once, weak fairness | Does every command end, and the lock come free? | 121,782 |
| `CodexFailAfterHook` | an I/O error after the link of the hook | violated: finding 1 | |
| `CodexFailAfterRemoval` | a failing lock check after the unlink of the hook | violated: finding 2 | |
| `CodexReportAfterRelease` | no failure at all | violated: finding 3 | |
| `ClaudeTransactions` | two installers, one of them killed anywhere; an installer and a remover, one failing call, one foreign change and a kill; two removers of an installation with a failing call and a kill; a remover with all three | The same for Claude, with git-ignore rules and settings that change: hook with record, refusals that left nothing, leftovers that can be found, commits that outlive a cancellation, foreign files that stay, the lifecycle, and an answer of every command | 159,748 |
| `DoubleRead` | each of the five readers under up to six steps of a removal and a new installation, or up to three changes by others | Does an accepted status hold at one instant, was a verified launch installed at one since the reader turned to its files, and is the authority of one piece? | 613,854 |
| `PreToolUse` | every pair of words and the longer commands of `Samples`, up to 3 operands out of 3 packages, 2 workers, deadline and cancellation | Does the host go on only when everything was allowed in time, or no shell can read a manager in the command (but one of `Overlooked`); is each package evaluated once, in order, with nothing left running; is there always an answer? | 409,405 |
| `PackageCheck` | the scenario sets `Failing`, `Cached`, `Shared`, `Verdictal`, `Others`, `Reading`, `Scanned`, `Diffed`, `Diagnosed` of `MCPackageCheck` | Is what is admitted founded on whole live evidence and on the policy that is there; is malice never lifted while npm is enabled; do cache entries stay whole; does an abort stop a check; do scan and diff report of their project; does everything end? | 173,588 |
| `CachedAdmission` | the same scenarios | violated: finding 4 | |
| `InitTransaction` | every integration alone, beside others and with failing calls; pairs with one thing going wrong; a killed init whose lock is removed by hand before a retry | Does a success stay, is every leftover accounted for, and is the work of others left alone? | 1,267,012 |

Three more configurations check one property each, and TLC finds each violated;
they show findings 5 to 7: `OverlookedManager` (`NeutralOnlyWhenAllowed`, of
`MCPreToolUse`, with the commands `Direct`), `DisabledRegistry`
(`MaliceIsAlwaysBlocked`) and `UnstagedLockfile` (`AllowedByAnUpdate`), both of
`MCPackageCheck` with the scenarios of `PackageCheck`.

*Bounds.* Three commands are the fewest with two racing installers and a removal
that finds an installation; two are enough where one command must meet another's
leftovers. A receipt, a hook and a lock need three inodes; the staging names
share them; a fourth is for the foreign file. `MaxEnv = 1` in `CodexFaults`: one
foreign file at every name and every moment. Inodes are interchangeable, and so
are the two installers of `CodexRace`; liveness runs use no symmetry.

In `DoubleRead` three foreign changes are what it takes to undo a change of one
file unseen (replace, replace back, and one more while a pass is running); six
lifecycle steps are a whole removal and a whole installation. Two workers are
the number in the code, and three operands are the fewest that leave one to be
claimed later while both repetitions and all mixtures of three reports occur.

In `PackageCheck` the limits of the code are scaled to the smallest value that
still has a step before and after it: one retry and one redirect
(`MaxRetries`, `MaxRedirects`), two pages and two records (`MaxPages`,
`MaxRecords`, with lists of three of either), three dependencies
(`MaxDependencies`, with a manifest of four), an npm entry that lives for two
units and an OSV entry for one, on a clock of four values (`MaxClock = 3`). Two
faults fail both attempts of a request. Two callers are the fewest that write one
entry at once. In `InitTransaction` two failing calls can fail an attempt and its
rollback.

*Deadlock* is not checked: commands and invocations run once and stop.

*Fairness.* A command's steps are weakly fair: each awaited call returns
(`CodexHookTransaction`, `ClaudeHookTransaction`). No fairness makes a
cancellation, crash, fault or foreign change happen. In `PreToolUse` the timer
fires, and a call that was given the signal settles once it is aborted (every
loader, verification and evaluation gets it); before the abort a provider may be
silent for ever and the input may never end. The host is assumed to drain the
hook's output. In `PackageCheck` the steps of a check and of the client are fair:
the client has a timer of its own for every attempt, so that nothing is asked of
the server; in `DependencyScan` so are the steps of the command, because Git is
started with a time-out. `DoubleRead` states that its process goes on; no
liveness property of it is claimed, since the reader makes a fixed number of
calls. `InitTransaction` states none.

*Why the faults of `CodexFaults` spare some steps.* After a link or an unlink
the code reports a plain failure for an error that is not one of its own kinds;
that is what findings 1 and 2 are about, and what `AfterChange` takes out. Each
of its seven steps is needed: with that fault alone (for `dropped_receipt`, with a
rollback that failed before) `RefusalChangesNothing` is violated. A
failure right after the creation of the staging directory leaves the empty
directory; no document says otherwise.

*Why `InitTransaction` spares one.* When the close of the lock's handle fails
(init.ts:204, 626-633) the lock file is removed all the same and the rollback
runs without it; an init that found the targets in place meanwhile loses them,
and `SuccessStands` is violated. A close after a synchronized write hardly
fails, and no document speaks of it: `Failing` leaves it out and says so.

## 4. What is proved

Every invariant and every action or step property of the passing runs is a
theorem, for every value of the constants. `PROJECT.json` ("theorems") lists them. The proofs rest on the
assumptions of the modules (`FilesAssumption`, `TransactionAssumption`,
`ClaudeAssumption`, `DoubleReadAssumption`, `QualifyCommandAssumption`,
`PreToolUseAssumption`, `NoReportAssumption`, `HttpAssumption`,
`BoundsAssumption`, `AbsentAssumption`, `ScenarioAssumption`,
`ProjectAssumption`, `InitTransactionAssumption`), which type the constants and
which TLC evaluates, and on the hypotheses named below, each the one without
which the property is false.

### 4.1 Codex: CodexHookTransactionProofs, CodexHookLifecycleProofs

For any set of commands and inodes, any faults, crashes and cancellations:

- `TypeCorrect`, one lemma per action.
- `LockExcludes`: `LockExclusion`, if other programs do not write the lock file
  (`"lock" \notin EnvNames`; anybody may replace a file between two checks).
- `RecordIsKept`: `HookHasRecord`; `LifecycleIsImplemented`: the refinement of
  `HookLifecycle`; `CrashIsFinal`: `CrashFreezes`; if others touch only the
  configuration (`EnvNames \subseteq {"config"}`). The first two also need
  `HookCallsSucceed`: none of the four calls between the link of the hook and the
  note of it fails. That is finding 1, and the run that shows it violates the
  hypothesis and the property together.
- `RefusalIsClean`: `RefusalChangesNothing`, if other programs only create files,
  under whatever name, or touch the configuration alone (`OthersCreate`), and none
  of the seven calls fails that `CodexFaults` spares (`ChangesAreKnown`): findings 1
  and 2, and the directory that a failure right after its creation leaves.
- `ForeignIsKept`: `NoForeignLoss`, under `OthersCreate` and whatever calls fail. A
  command looks at a file and then unlinks its name; what another program puts
  there in between is lost. Who only creates files finds the name taken.

`LockExclusion` alone is not inductive. `LockInv` adds that a running command
that owns a lock identity has it under the lock's name, that the steps between
acquisition and release hold one, and that no other steps do. From it: `LockFree`
excludes a second owner, an unlink by identity can only hit the command's own
lock, and the name cannot be reused while its owner runs. `LInv` goes on from
there. `FilesInv`: a name and a staged name share an inode only while that file is
being published, and a file has the bytes of its name. `HolderInv`: who made the
lock and has not let it go, dead or alive, is who it says. `OwnInv`: what a
command of either kind has made and holds at each step. `KnownInv`: what it may
rely on of the two names there. `HookHasRecord` needs all of it: a receipt is
unlinked by identity alone, so that the proof has to show that the hook was seen
absent under the lock and that the lock has been held since.

The last two theorems rest on an invariant of their own, since others may now
write the three files and calls may fail anywhere. `ApartInv`: inodes are shared
only while a file is published, and a staged file is what its command built. For
each command, `SelfInv`: what its step says of its own variables. `SeenInv`: what
it knows of the disk while it holds the lock; this and `ApartInv` make every
unlink hit a file of AgentHawk's. `LeftInv`: a lock that it made and has not let
go it either still counts as its own, or it will answer that recovery is
required. `ChangesInv`, under `ChangesAreKnown`: what it has changed and not taken
back; `settled` does not say that, and a change can outlive an error only until
the catch block has looked at it. One lemma per action shows the parts from one
step to the next (`SafeInv`), and that it takes no name from a foreign file
(`DiskSound`). TLC checked `SInv`, their conjunction, on the instance of
`CodexFaults` before it was proved.

### 4.2 Claude: ClaudeHookTransactionProofs

`TypeCorrect` and `CommitIsFinal` (`CommitOutlivesCancellation`) need nothing
more. `RecordIsKept` (`HookKeepsRecord`), `LeftoversAreFound`
(`LeftoversStayDiscoverable`), `ForeignIsKept` (`ForeignFilesStay`) and
`LifecycleIsImplemented` assume that other programs replace no file but the
settings file (`OthersReplaceHookOnly`); who deletes a receipt parts it from its
hook. `RefusalIsClean` (`RefusalLeavesNothing`) assumes in addition that the lock
check right after an unlink does not itself fail (`DropsSucceed`): such a failure
is what finding 2 is about.

`OwnInv` says of each command what its label implies for its own variables,
`DiskInv` what they imply for the disk: who holds the lock, which of its files are
in place with its bytes, what it has changed and not taken back. `OwnAll` and
`DiskAll` state them of all commands. As every file carries its author, the
invariants need no inode numbers.

### 4.3 Readers: DoubleReadProofs

For any number of lifecycle commands and other programs, in any order:

- `TypeCorrect`.
- `AuthorityOfOnePiece`: `AuthorityIsOne`. Every document of a loaded authority was
  opened in the root it names, and none it takes for missing was there when the
  last of the others had been read.
- `SnapshotIsHeld`: `SnapshotHeld`. Two passes that agree saw a state that held at
  one instant between them. This is what lets the two transaction modules
  observe atomically.
- `VerifiedIsInstalled`: `VerifiedWasInstalled`, at an instant since the reader
  turned to its files. For the reader that compares bytes
  alone it assumes `NobodyForges`: other programs do not write that hook's bytes.

Nothing is fenced while files are read, so the argument is about time. Inodes,
trees and stamps are moments of the clock, which only grows (`Typed`, with the
lemmas on `Write`, `Edit`, `Unlink` and `Swap`). For the authority: the root was
located in the past (`RootPast`); a document is opened in that root or a later
one (`OpenedSince`); the last comparison rules out a later one (`OneRoot`); what
appears under a name that was found missing after the last read is younger than
that moment (`CameLater`); `InStep` says how far the documents are in each phase.
`IInv` is the conjunction, and no part is inductive without the others. For two
passes `RInv` adds how far they are (`FlowInv`) and in which order files are looked
at (`OrderInv`); that a file with the stamp it had in the first pass has not
changed since, and a name that was missing in a directory with an old stamp is
missing still (`StatInv`); the same for the answer of Git, which has no stamp and
changes at most once (`RulesInv`); for the reader of bytes, that a command holds
the lock only once (`BytesInv`); and what the history variables of the model
remember of the instant between the passes (`WitnessInv`, `ResultInv`). A listing
may be older than the stamp it is compared with; which of them came first follows
from `OrderInv`.
That a moved root does not come back (2.4) is part of the model, and the
theorems need it.

### 4.4 The hook: QualifyCommandProofs, PreToolUseProofs

`UnrelatedIsUnrecognized` and `AdditionIsWhole` hold of commands of any length; TLC
checks pairs of words and samples. In an unrelated command the only words that a
shell could turn into a manager are those of `Overlooked`, Yarn or Bun with a path
or a suffix: the theorem says that this is the one gap, not that there is none. An
addition is a manager, a command that adds and packages.
`PreToolUseProofs`, for any number of packages, operands and workers:
`TypeCorrect`, `RecognizedIsAllowed` (`RecognizedOnlyWhenAllowed`, with the same exception), `AbortDenies`
(`AbortNeverAdmits`), `ReportsAreInOrder` (`ReportsFollowOperands`),
`OutcomeIsReported` (`VerdictIsExpressible`), `WorkEndsFirst`
(`NoWorkOutlivesAnswer`) and `FailureStopsThePool`
(`NoEvaluationAfterFailure`).

`IInv` has what was read and qualified by the time the process is where it is
(`InputInv`), that nothing of the pool changes before it starts and what it works
on (`PoolInv`), that a report is that of a claimed package and in its place
(`ReportsInv`), what the workers hold (`WorkersInv`) and what the decision rests
on (`AnswerInv`). `uniquePackages` is a fold; that it
enumerates each operand once is proved without induction over the sequence, by
a least element of the finite set of indices at which the claim could fail.
`NoReportAssumption` says that the mark for "no report yet" is not a report.

### 4.5 Checks, scan and diff: PackageCheckProofs

For any number of checks, pages, records, dependencies, retries and scenarios, for
any configuration the schema accepts: `TypeCorrect` (`DependencyTypeOK`),
`CacheIsWhole` (`CacheStaysWhole`), `MaliceIsFinal` (`MaliceIsNeverLifted`),
`AdmissionIsFounded` (`AdmissionIsWellFounded`), `AbortStops`
(`AbortStopsTheCheck`) and `ReportsAreBound` (`ReportsBindTheirProject`).
`MaliceIsFinal` has the hypothesis of its property, an enabled npm registry, and
`ReportsAreBound` counts a lockfile as git lists it; findings 6 and 7 show that
neither can be strengthened to what the documents say.

`CheckInv` has what each phase of a check says of its own variables
(`LocalInv`), of the published and temporary files (`EntryInv`), of the documents
(`DocumentInv`) and of its request (`HttpInv`). `ScanInv` adds the scan whose
checks they are (`ScanIsInductive`), `AbortInv` who may be aborted, `CommandInv`
the parallel reads of a diff and the history of the user's repository
(`CommandIsInductive`), `CoverInv` that a scan has begun as many checks as its
manifest has items. A short theory of `PolicyEngine` stands before them: what a
malicious record or a missing package contributes survives the rules, the
configuration, live verification and the approvals. Verdicts are combined as a
maximum, which the proof takes from the least section with well-foundedness in
place of induction.

The attempt changed the model in three places where TLC could not tell and a
proof could: the set `Working` of a command's phases, the choice of the first
phase, and a clause of PG011 that relied on a field of a record without it.

### 4.6 Initialization: InitTransactionProofs

`TypeCorrect`, `SuccessIsKept` (`SuccessStands`), `LeftoversAreKnown`
(`LeftoversAreAccounted`) and `OthersWorkIsKept` (`OthersWorkStays`), for any
commands, targets and faults, provided the close of the lock's handle does not
fail (`NoLostHandle`, `"close_lock" \notin FaultSteps`; section 3 says why the run
spares that fault).

`InitInv` has, besides the types: what a command's record says of itself
(`OwnOK`); that names stand in directories (`TreeOK`); that the lock of a running
command stands there (`LockOK`); that what a command has made is on its lists,
unless it says that it may not be (`ListsOK`); what a command that has stopped has
left (`EndOK`); and that a target counted as in place is whole and on no other
running init's list (`SecureOK`).
The last is what `SuccessStands` turns on: an init may find another's files in
place, and is right only if they cannot be rolled back any more.

### 4.7 Only model-checked

- All liveness (`EveryCommandReports`, `LockIsReleased`, `HookAnswers`,
  `EveryCommandEnds`): fairness and ENABLED are out of the prover's reach.
- The properties of the runs that are violated (section 5).

## 5. Findings

The first three are differences between
`docs/adr/0013-codex-project-hook-ownership.md` (lines 278-312) and
`codex-project-hook-transaction.ts`, the others between the documents they quote
and the hook, the checks and the diff. Numbers 1 to 4 are the violated runs of
`PROJECT.json`; 5 to 7 are what the properties of the passing runs except or
assume, each shown by a configuration of its own (section 3).

1. *A hook without record* (`CodexFailAfterHook`). `publish` links the hook and
   then makes five more calls; if one of them throws, `hookPublished` was never
   assigned, and the catch block takes the receipt away. The document: an
   interruption "must never leave an enabled-looking AgentHawk hook without its
   ownership record". The same assignment makes a failure after the link of the
   receipt answer "failed safely" with the receipt left in place.
2. *A removal that is not reported* (`CodexFailAfterRemoval`). The lock is
   checked between the unlink of the hook and `committed = true`; if the check
   throws, the command answers "failed safely". The document: "Once the
   still-identical hook is deleted, removal is committed".
3. *Classification after release* (`CodexReportAfterRelease`). The final
   observation is made without the lock, so that a removal that starts in
   between turns a committed installation into a recovery report. The document:
   "Lock release and staging cleanup occur only after the committed state has
   been classified."

4. *A cached admission* (`CachedAdmission`). `requireLiveVerification`
   (check.ts:394-406) adds its own PG013, which no approval resolves, unless a
   PG013 is there already. Offline, with a fresh npm entry and a missing or stale
   OSV entry, one is: that of the missing provider, which in review mode an
   approval may resolve (engine.ts:337). The package is then admitted on cached
   evidence. ADR 0004, line 21: "cached evidence is never sufficient for
   admission and always requires live verification"; the test at
   check.test.ts:424 covers two fresh entries.

5. *An overlooked manager* (`OverlookedManager`). `isManagerLikeExecutable`
   (qualify-command.ts:105-107, 187-194) matches a path or a suffix for npm, pnpm,
   npx and pnpx alone, so that `yarn.cmd add lodash`, `/usr/bin/yarn add lodash` and
   `/usr/bin/bun add lodash` are `unrelated`, and the host goes on without an
   evaluation. ADR 0012, line 108: `unrelated` is a command "with no manager-like
   token"; architecture.md, line 127: "path-qualified or mixed-case executables"
   receive "explicit non-evaluated classifications".
6. *Malice behind a disabled registry* (`DisabledRegistry`). With
   `registries.npm.enabled` false the engine returns one PG013 (engine.ts:54-56),
   which in review mode an approval may resolve, before it looks at the OSV result;
   `check.ts` has asked npm and OSV all the same. A package whose malicious record
   was fetched is then allowed by an approval. architecture.md, line 71:
   "Known-malicious handling remains fixed to `block`"; threat-model.md, line 21:
   "the known-malicious action cannot be weakened below `block`".
7. *An unchanged lockfile that counts as updated* (`UnstagedLockfile`). `git diff
   --name-only <commit>` (diff.ts:113-117) also lists a file that the commit has
   and the index has not; on disk it is a regular file as it ever was, so that
   diff.ts:132-138 finds an update and answers allow. architecture.md, line 109:
   PG014 requires a lockfile "to be both updated and still present".

## 6. Not modelled, and the plan

Not modelled:

- The front end (`program.ts`): argument parsing, printing, output schemas and
  terminal escaping have no protocol.
- The grammars: JSON of receipts, hooks, locks, payloads and provider documents.
  A document is good, missing, inconsistent or bad.
- The registry of Codex's command line and the readiness of the toolchain: one
  free choice.
- OSV's batched query, which nothing in the program calls.
- The creation of parent directories of the hooks' files, and digests.
- The scripts that drive third-party hosts or unpack archives: input and output
  around programs whose behaviour the repository does not define.

What is left to prove: the theorems above hold under hypotheses on faults and on
other programs, and most of these are necessary. `RecordIsKept` and
`LifecycleIsImplemented` of the Codex hook still exclude other programs from the
three files. TLC finds both to hold where one file is created by others, as
`OthersCreate` allows, so that `SInv` is the place to prove them from.
