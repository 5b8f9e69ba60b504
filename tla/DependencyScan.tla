--------------------------- MODULE DependencyScan ---------------------------
(***************************************************************************)
(* scan and diff (scan.ts, diff.ts, core/src/scan/dependencies.ts) beside  *)
(* a user who edits, commits and moves the base ref meanwhile.             *)
(*                                                                         *)
(* A scan takes the inventory of the manifest and then checks every direct *)
(* dependency (PackageCheck), all at once.  A diff pins the base ref to a  *)
(* commit, reads that commit, the working manifest and the names of the    *)
(* changed lockfiles at once, and then looks for the lockfiles.            *)
(***************************************************************************)
EXTENDS PackageCheck, SequencesExt

CONSTANTS
    Locks,           \* lockfileNames, a sequence
    MaxDependencies  \* direct dependencies a manifest may name

VARIABLES
    ref,             \* the commit the base ref names
    commits,         \* the commits there are
    work,            \* the working tree
    edits,           \* how often the user may still act
    command          \* the scan or the diff

project == <<ref, commits, work, edits>>
allVars == <<vars, project, command>>

-----------------------------------------------------------------------------
(* Manifests.  An item is a name in a section with a requested spec; the   *)
(* sections are numbered in the order of their names.                      *)

LockNames == ToSet(Locks)

\* Faulty variant: the first candidate, whatever its section.
CandidatesOfName(base, item) == {b \in base : b.name = item.name}

\* choosePrevious, among what groupByName keeps for the name: the item of the
\* same section, or else the first.
Candidates(base, item) ==
    LET named == {b \in base : b.name = item.name}
        same == {b \in named : b.section = item.section}
    IN IF same # {} THEN same ELSE named

Previous(base, item) ==
    CHOOSE b \in Candidates(base, item) : \A o \in Candidates(base, item) : b.section <= o.section

ChangeKind(base, item) ==
    CASE Candidates(base, item) = {} -> "added"
      [] OTHER -> LET before == Previous(base, item)
                  IN IF before.spec # item.spec THEN "version_changed"
                     ELSE IF before.section # item.section THEN "section_changed" ELSE "none"

\* compareDirectDependencies
Changes(base, current) ==
    {c \in {[item |-> i, kind |-> ChangeKind(base, i)] : i \in current} : c.kind # "none"}

\* parseManifest takes a "regular" one, reached through a link or not; "torn"
\* is a manifest in the middle of being written, or no JSON for other reasons.
Parses(manifest) ==
    manifest.kind \in {"regular", "link"} /\ Cardinality(manifest.items) <= MaxDependencies

\* A section is an object of the manifest: a name has one spec in it.
Manifests ==
    {m \in [kind : STRING, items : SUBSET [name : STRING, section : Nat, spec : STRING]] :
       \A x, y \in m.items : x.name = y.name /\ x.section = y.section => x = y}

\* What a lockfile holds: it may be no file at all.
LockContents == {"none"} \cup STRING
Contents == [manifest : Manifests, lock : [LockNames -> LockContents]]
WorkTrees == [manifest : Manifests, lock : [LockNames -> LockContents],
              index : SUBSET LockNames, touched : SUBSET LockNames]

IsProject(p) ==
    /\ p.diff \in BOOLEAN /\ p.edits \in Nat
    /\ p.commits \in Seq(Contents) \ {<<>>} /\ p.work \in WorkTrees
    /\ p.manifests \subseteq Manifests /\ p.contents \subseteq LockContents /\ p.stages \subseteq LockNames

ASSUME ProjectAssumption ==
    /\ Locks \in Seq(STRING)
    /\ \A s \in Scenarios : IsProject(s.project) /\ (s.scan => ~s.project.diff)

-----------------------------------------------------------------------------
(* The command.                                                            *)

TaskStates == {"pending", "found", "ok", "failed", "cancelled"}
Idle == [state |-> "pending", value |-> {}]
NoCommand == [phase |-> "start", base |-> 0, stopped |-> FALSE, show |-> Idle, current |-> Idle,
              updated |-> Idle, next |-> 1, present |-> {}, changes |-> {}, outcome |-> "none"]

IsScan == scenario.scan
IsDiff == scenario.project.diff

DependencyTypeOK ==
    /\ TypeOK
    /\ ref \in DOMAIN commits /\ edits \in Nat
    /\ work.touched \subseteq LockNames /\ work.index \subseteq LockNames
    /\ command.phase \in {"start", "root", "commit", "collect", "locks", "checks", "done"}
    /\ {command.show.state, command.current.state, command.updated.state} \subseteq TaskStates
    /\ command.base \in 0..Len(commits) /\ command.next \in 1..(Len(Locks) + 1)
    /\ command.present \subseteq LockNames
    /\ command.outcome \in {"none", "cancelled", "failed", "allow", "review"}
    /\ IsDiff => (command.phase = "done") = (command.outcome # "none")

DependencyInit ==
    /\ Init
    /\ commits = scenario.project.commits /\ ref = Len(commits)
    /\ work = scenario.project.work /\ edits = scenario.project.edits
    /\ command = NoCommand

\* The signal of the command; a scan's is also that of its checks.
Stopped == command.stopped \/ (IsScan /\ Active \cap aborted # {})
Alive == IsScan => \A c \in Active : job[c].phase # "dead"
In(phase) == (IsScan \/ IsDiff) /\ Alive /\ command.phase = phase

Becomes(new) == command' = new /\ UNCHANGED project
Conclude(outcome) == Becomes([command EXCEPT !.phase = "done", !.outcome = outcome])

\* A scan that fails before its checks begin has no other result.
FinishScan(outcome) ==
    IF IsScan THEN Conclude(outcome) /\ scan' = outcome /\ UNCHANGED <<httpVars, scenario, world, disk, handle, job>>
    ELSE Conclude(outcome) /\ UNCHANGED vars

UnlessStopped(goOn) == IF Stopped THEN FinishScan("cancelled") ELSE goOn

Goes(new) == Becomes(new) /\ UNCHANGED vars

Begin ==
    /\ In("start")
    /\ UnlessStopped(Goes([command EXCEPT !.phase = IF IsScan THEN "collect" ELSE "root"]))

\* git rev-parse --show-toplevel, and of the base ref: pinned from here on.
FindRoot ==
    /\ In("root")
    /\ UnlessStopped(FinishScan("failed") \/ Goes([command EXCEPT !.phase = "commit"]))

PinBase ==
    /\ In("commit")
    /\ UnlessStopped(FinishScan("failed") \/ Goes([command EXCEPT !.phase = "collect", !.base = ref]))

\* The commit that was pinned.
Base == commits[command.base]

Settled(state, value) == [state |-> IF Stopped THEN "cancelled" ELSE state, value |-> value]

\* git show of the manifest; git may fail, or take too long.
Show ==
    /\ In("collect") /\ IsDiff /\ command.show.state = "pending"
    /\ \/ Goes([command EXCEPT !.show = Settled("failed", {})])
       \/ Base.manifest.kind = "regular" /\ Parses(Base.manifest)
          /\ Goes([command EXCEPT !.show = Settled("ok", Base.manifest.items)])

\* readManifest: what is there is looked at, and then opened and read.
FindManifest ==
    /\ In("collect") /\ command.current.state = "pending"
    /\ Goes([command EXCEPT !.current =
               Settled(IF work.manifest.kind \in {"absent", "link"} THEN "failed" ELSE "found", {})])

ReadManifest ==
    /\ In("collect") /\ command.current.state = "found"
    /\ Goes([command EXCEPT !.current =
               IF Parses(work.manifest) THEN Settled("ok", work.manifest.items)
               ELSE Settled("failed", {})])

\* git diff compares the commit with the files of the index as they are on
\* disk.  What the commit holds and the index does not is deleted to it, even
\* when the file is there and unchanged.
Differs(l, base, tree) ==
    IF l \in tree.index THEN tree.lock[l] # base.lock[l] ELSE base.lock[l] # "none"

\* git diff --name-only
ListUpdates ==
    /\ In("collect") /\ IsDiff /\ command.updated.state = "pending"
    /\ \/ Goes([command EXCEPT !.updated = Settled("failed", {})])
       \/ Goes([command EXCEPT !.updated =
                  Settled("ok", {l \in LockNames : Differs(l, Base, work)})])

States == {command.current.state} \cup
              (IF IsScan THEN {} ELSE {command.show.state, command.updated.state})

\* Every task has settled.  A scan starts a check for every item.
Joined ==
    /\ In("collect") /\ States \cap {"pending", "found"} = {}
    /\ UnlessStopped(
         IF "cancelled" \in States THEN FinishScan("cancelled")
         ELSE IF "failed" \in States THEN FinishScan("failed")
         ELSE IF IsDiff
         THEN Goes([command EXCEPT !.phase = "locks",
                                   !.changes = Changes(command.show.value, command.current.value)])
         ELSE \E chosen \in SUBSET Active :
                /\ Cardinality(chosen) = Cardinality(command.current.value)
                /\ job' = [c \in Callers |-> IF c \in chosen THEN [job[c] EXCEPT !.phase = "start"]
                                             ELSE job[c]]
                /\ scan' = "none"
                /\ Becomes([command EXCEPT !.phase = "checks"])
                /\ UNCHANGED <<httpVars, scenario, world, disk, handle>>)

Regular(content) == content \notin {"none", "link"}

\* presentLockfiles, one name after the other.
LookForLock ==
    /\ In("locks") /\ command.next <= Len(Locks)
    /\ LET l == Locks[command.next]
       IN UnlessStopped(Goes([command EXCEPT !.next = @ + 1,
                                !.present = @ \cup {x \in {l} : Regular(work.lock[x])}]))

Usable == command.updated.value \cap command.present

Answer ==
    /\ In("locks") /\ command.next > Len(Locks)
    /\ UnlessStopped(FinishScan(IF command.changes # {} /\ Usable = {} THEN "review" ELSE "allow"))

CommandStep ==
    \/ Begin \/ FindRoot \/ PinBase \/ Show \/ FindManifest \/ ReadManifest \/ ListUpdates
    \/ Joined \/ LookForLock \/ Answer

-----------------------------------------------------------------------------
(* The user.                                                               *)

Busy == (IsScan \/ IsDiff) /\ Alive /\ command.phase \notin {"checks", "done"}

Acts == Busy /\ edits > 0 /\ edits' = edits - 1 /\ UNCHANGED <<vars, command>>

EditManifest ==
    /\ \E m \in scenario.project.manifests : m # work.manifest /\ work' = [work EXCEPT !.manifest = m]
    /\ Acts /\ UNCHANGED <<ref, commits>>

EditLock ==
    /\ \E l \in LockNames, x \in scenario.project.contents :
          x # work.lock[l] /\ work' = [work EXCEPT !.lock[l] = x, !.touched = @ \cup {l}]
    /\ Acts /\ UNCHANGED <<ref, commits>>

\* git add, git rm --cached
EditIndex ==
    /\ \E l \in scenario.project.stages :
          /\ l \in work.index \/ work.lock[l] # "none"
          /\ work' = [work EXCEPT !.index = IF l \in @ THEN @ \ {l} ELSE @ \cup {l},
                                 !.touched = @ \cup {l}]
    /\ Acts /\ UNCHANGED <<ref, commits>>

\* What is tracked is committed to the branch the base ref names.
Commit ==
    /\ commits' = Append(commits, [manifest |-> work.manifest,
                                   lock |-> [l \in LockNames |-> IF l \in work.index THEN work.lock[l]
                                                                 ELSE "none"]])
    /\ ref' = Len(commits) + 1
    /\ Acts /\ UNCHANGED work

MoveRef ==
    /\ \E n \in DOMAIN commits : n # ref /\ ref' = n
    /\ Acts /\ UNCHANGED <<commits, work>>

AbandonDiff ==
    /\ IsDiff /\ scenario.abortable /\ Busy /\ ~command.stopped
    /\ command' = [command EXCEPT !.stopped = TRUE]
    /\ UNCHANGED <<vars, project>>

DependencyNext ==
    \/ CommandStep \/ EditManifest \/ EditLock \/ EditIndex \/ Commit \/ MoveRef \/ AbandonDiff
    \/ Next /\ UNCHANGED <<project, command>>

\* Git and the file system answer, or git's time-out does.
DependencySpec ==
    /\ DependencyInit /\ [][DependencyNext]_allVars
    /\ Fairness /\ WF_vars(ScanEnds) /\ WF_allVars(CommandStep)

-----------------------------------------------------------------------------
(* Properties.                                                             *)

\* Whatever the user edits, stages, commits and renames meanwhile, a diff
\* reports what the manifest it read adds to the one commit the ref named, each
\* item by what that commit says of it, and nothing else; it allows changes
\* only with a lockfile that is there and that git tells from that same commit,
\* and objects only without one.  (A lockfile that was touched meanwhile may
\* count or not.  One that was taken out of the index counts although its
\* contents are those of the commit: see AllowedByAnUpdate.)
ReportsTheChanges(base, current) ==
    /\ {c.item : c \in command.changes} = current \ base
    /\ \A c \in command.changes :
          LET named == {b \in base : b.name = c.item.name}
          IN /\ (c.kind = "added") = (named = {})
             /\ c.kind = "section_changed" =>
                  /\ \E b \in named : b.spec = c.item.spec
                  /\ \A b \in named : b.section # c.item.section

LockedBy(l) == Regular(work.lock[l]) /\ Differs(l, Base, work)

DiffBindsItsBase ==
    IsDiff /\ command.outcome \in {"allow", "review"} =>
       /\ ReportsTheChanges(commits[command.base].manifest.items, command.current.value)
       /\ command.outcome = "allow" /\ command.changes # {}
            => \E l \in LockNames : l \in work.touched \/ LockedBy(l)
       /\ command.outcome = "review"
            => command.changes # {} /\ \A l \in LockNames : LockedBy(l) => l \in work.touched

\* What the documents say of a diff: changes are allowed only with a lockfile
\* that was updated since that commit, and is there.
AllowedByAnUpdate ==
    IsDiff /\ command.outcome = "allow" /\ command.changes # {} =>
       \E l \in LockNames : l \in work.touched \/ (Regular(work.lock[l]) /\ work.lock[l] # Base.lock[l])

\* A scan that admits has admitted every dependency of the manifest it read.
ScanCoversTheManifest ==
    IsScan /\ Admits(scan) =>
       Cardinality({c \in Active : Admitted(c)}) = Cardinality(command.current.value)

ReportsBindTheirProject == DiffBindsItsBase /\ ScanCoversTheManifest

\* Every check, every scan and every diff ends, unless its process is killed.
EveryCommandEnds == EveryCheckEnds /\ (IsDiff ~> command.phase = "done")
=============================================================================
