----------------------------- MODULE DoubleRead -----------------------------
(***************************************************************************)
(* How the files around a hook are read while others change them.          *)
(*                                                                         *)
(*  - "codex_status", "claude_status" (codex-project-hook-status.ts,       *)
(*    claude-project-hook-status.ts): one file after the other, twice; the *)
(*    answer counts when identity, times and bytes agree.  The Claude      *)
(*    status calls what it cannot read "unsafe" and goes on.               *)
(*  - "codex_invocation", "claude_invocation": a hook that was started     *)
(*    verifies its own installation.  The Codex one takes a status         *)
(*    snapshot, the Claude one compares bytes alone.                       *)
(*  - "authority": the loader of RepositoryAuthority with its documents.   *)
(*    The other readers start from the root it finds; the documents some   *)
(*    of them load as well are left to this one.                           *)
(*                                                                         *)
(* The other side are the lifecycle commands, as HookLifecycle allows      *)
(* them, and programs that create, edit, replace and delete files, or put  *)
(* another directory in the place of the root.                             *)
(***************************************************************************)
EXTENDS RepositoryAuthority

CONSTANTS
    Kind,         \* "install" or "remove"
    Scenarios     \* who reads, and what others may do meanwhile

VARIABLES
    scenario,     \* the scenario that is played
    foreign,      \* how many of the changes other programs made
    spent,        \* the lifecycle commands that have started
    phase,        \* where the reader is
    pass,         \* the first or the second reading
    step,         \* how far each file is read
    root,         \* the stamp of the root at the start of each pass
    listing,      \* the directories listed so far in this pass
    local,        \* what an unfinished read knows of its file
    seen,         \* what each pass made of each file
    result,       \* the reader's answer
    middle,       \* history: the contents, and the root, between the passes
    witness       \* history: the launched installation was complete and unlocked
                  \* at some instant since the reader turned to the files

others == <<fs, foreign, spent>>
reading == <<phase, pass, step, root, listing, local, seen, result>>
vars == <<scenario, others, authority, reading, middle, witness>>

-----------------------------------------------------------------------------
(* The readers.                                                            *)

Statuses == {"codex_status", "claude_status"}
Invocations == {"codex_invocation", "claude_invocation"}
Readers == Statuses \cup Invocations \cup {"authority"}

\* The order of reading; shared settings stand beside the hook as "config".
CodexOrder == <<"hook", "receipt", "config", "lock">>
ClaudeOrder == <<"hook", "config", "receipt", "lock", "staging", "rules">>
InvocationOrder == <<"hook", "receipt", "lock">>

Reader == scenario.reader
Order == CASE Reader \in {"codex_status", "codex_invocation"} -> CodexOrder
           [] Reader = "claude_status" -> ClaudeOrder
           [] Reader = "claude_invocation" -> InvocationOrder
           [] Reader = "authority" -> <<>>
Reads == {Order[i] : i \in DOMAIN Order}
Authority == Reader = "authority"

\* The reader sees ctime, mtime and inode numbers of files and directories.
ByStat == Reader \in Statuses \cup {"codex_invocation"}

\* What a pass reports of one file: FixedFileObservation.
Seen == [state : {"unread", "absent", "present", "unsafe"}, bytes : Bytes,
         parent : Nat, ino : Nat, stamp : Nat]
Unread == [state |-> "unread", bytes |-> Nobody, parent |-> 0, ino |-> 0, stamp |-> 0]

\* Faulty variant: an error is kept as a state the classification does not know.
UnsafeAsError == [Unread EXCEPT !.state = "error"]

Unsafe == [Unread EXCEPT !.state = "unsafe"]
Absent(parent) == [Unread EXCEPT !.state = "absent", !.parent = parent]

Steps == {"parent", "entry", "inspect", "read", "final", "done"}
Phases == {"begin", "topology", "files", "compare", "classify", "done"}
Results == {"none", "installable", "current", "attention", "unsafe",
            "verified", "refused", "cancelled"}
Unlisted == {"unlisted"}

ASSUME DoubleReadAssumption ==
    /\ Kind \in [Commands -> {"install", "remove"}]
    /\ Scenarios \subseteq [reader : Readers, launch : Commands, installed : BOOLEAN,
                            linked : BOOLEAN, changes : Nat, foreign : Nat,
                            touches : SUBSET (Names \cup {"root"}),
                            writes : SUBSET (Commands \cup {Alien})]

TypeOK ==
    /\ FilesTypeOK /\ AuthorityTypeOK
    /\ scenario \in Scenarios
    /\ foreign \in 0..scenario.foreign
    /\ spent \subseteq Commands
    /\ phase \in Phases /\ pass \in {1, 2}
    /\ step \in [Names -> Steps]
    /\ root \in [1..2 -> 0..now]
    /\ listing \in [Dirs -> {Unlisted} \cup SUBSET Names]
    /\ local \in [Names -> [bytes : Bytes, parent : 0..now, ino : 0..now, stamp : 0..now]]
    /\ seen \in [1..2 -> [Names -> Seen]]
    /\ result \in Results

\* A receipt binds the root it was written for: the first one, here.
InstalledNow ==
    /\ file["hook"].bytes = scenario.launch /\ file["receipt"].bytes = scenario.launch
    /\ ~Present("lock") /\ tree = 0

Contents == [bytes |-> [n \in Names |-> file[n].bytes], tree |-> tree]

\* What the reader knew is gone with its answer, but for an answer it made of it.
Fresh ==
    [step |-> [n \in Names |-> "done"],
     root |-> [p \in 1..2 |-> 0],
     listing |-> [d \in Dirs |-> Unlisted],
     local |-> [n \in Names |-> [bytes |-> Nobody, parent |-> 0, ino |-> 0, stamp |-> 0]],
     seen |-> [p \in 1..2 |-> [n \in Names |-> Unread]]]

Init ==
    /\ scenario \in Scenarios
    /\ file = [n \in Names |->
                 CASE scenario.installed /\ n \in {"hook", "receipt"} ->
                        [NoFile EXCEPT !.bytes = scenario.launch]
                   [] n = "rules" -> [NoFile EXCEPT !.bytes = Alien]
                   [] OTHER -> NoFile]
    /\ dir = [d \in Dirs |-> 0]
    /\ tree = 0 /\ now = 0 /\ foreign = 0
    /\ spent = IF scenario.installed THEN {scenario.launch} ELSE {}
    /\ AuthorityInit(IF Authority THEN Documents ELSE {})
    /\ phase = "begin" /\ pass = 1
    /\ step = Fresh.step /\ root = Fresh.root /\ listing = Fresh.listing
    /\ local = Fresh.local /\ seen = Fresh.seen
    /\ result = "none"
    /\ middle = Contents
    /\ witness = InstalledNow

-----------------------------------------------------------------------------
(* Reading one file.                                                       *)

Answer(res) ==
    /\ phase' = "done" /\ result' = res
    /\ step' = Fresh.step /\ root' = Fresh.root /\ listing' = Fresh.listing /\ local' = Fresh.local
    /\ IF res \in {"installable", "current", "attention", "verified"}
       THEN UNCHANGED seen ELSE seen' = Fresh.seen
    /\ UNCHANGED pass

\* A status reports what it could not observe; a hook takes it for a no.
Failed == Answer(IF Reader \in Statuses THEN "unsafe" ELSE "refused")

FirstStep(n) == IF Home[n] \in {"root", "info"} THEN "entry" ELSE "parent"

\* assertRootIdentity; the listings of the other pass are forgotten.
Begin ==
    /\ phase = "begin" /\ load = "loaded" /\ ~Authority
    /\ IF tree # identity THEN Failed
       ELSE /\ phase' = IF ByStat THEN "topology" ELSE "files"
            /\ step' = [n \in Names |-> IF n \in Reads THEN FirstStep(n) ELSE "done"]
            /\ root' = [root EXCEPT ![pass] = dir["root"]]
            /\ listing' = [d \in Dirs |-> Unlisted]
            /\ UNCHANGED <<pass, local, seen, result>>

\* RepositoryAuthorityError
Unauthorized == phase = "begin" /\ load \in Failures /\ ~Authority /\ Failed

\* detectLinkedWorktree: git names the root, and may itself fail.
Topology ==
    /\ phase = "topology"
    /\ \/ Failed
       \/ /\ tree = identity
          /\ phase' = "files"
          /\ UNCHANGED <<pass, step, root, listing, local, seen, result>>

Turn(n) == \E i \in DOMAIN Order :
              Order[i] = n /\ \A j \in 1..(i - 1) : step[Order[j]] = "done"
At(n, s) == phase = "files" /\ n \in Reads /\ Turn(n) /\ step[n] = s

Proceed(n, s) == step' = [step EXCEPT ![n] = s]
Conclude(n, o) ==
    /\ seen' = [seen EXCEPT ![pass][n] = o]
    /\ Proceed(n, "done")
    /\ UNCHANGED <<phase, pass, root, listing, local, result>>

\* unsafeObservation, or the end of the whole observation.
Trouble(n) == IF Reader = "claude_status" THEN Conclude(n, Unsafe) ELSE Failed

Entries(d) == {n \in Names : Home[n] = d /\ Present(n)}

\* exactEntry: a status keeps each listing until its pass ends.
Listed(d) == IF ByStat /\ listing[d] # Unlisted THEN listing[d] ELSE Entries(d)

\* stableContainedDirectory.  The listing of the root is the first there is.
Parent(n) ==
    /\ At(n, "parent")
    /\ local' = [local EXCEPT ![n].parent = dir[Home[n]]]
    /\ listing' = [listing EXCEPT !["root"] = Listed("root")]
    /\ Proceed(n, "entry")
    /\ UNCHANGED <<phase, pass, root, seen, result>>

\* A staging directory is looked for when the lock tells its name.
Legible(p, n) == seen[p][n].state = "present" /\ seen[p][n].bytes \in Commands
Sought(n) == n = "staging" => Legible(pass, "lock")

Entry(n) ==
    /\ At(n, "entry") /\ n # "rules" /\ Sought(n)
    /\ listing' = [listing EXCEPT ![Home[n]] = Listed(Home[n])]
    /\ IF n \in Listed(Home[n])
       THEN Proceed(n, "inspect") /\ UNCHANGED seen
       ELSE Proceed(n, "done") /\ seen' = [seen EXCEPT ![pass][n] = Absent(local[n].parent)]
    /\ UNCHANGED <<phase, pass, root, local, result>>

\* "not-derived"
NotSought == \E n \in Reads : At(n, "entry") /\ ~Sought(n) /\ Conclude(n, Unread)

\* git check-ignore, for the settings and then for the other artifacts: its
\* exit code alone, and "unknown" when it fails.
CheckIgnore ==
    /\ At("rules", "entry")
    /\ \/ Conclude("rules", Unsafe)
       \/ Conclude("rules", [Unread EXCEPT !.state = IF Present("rules") THEN "present" ELSE "absent",
                                           !.bytes = file["rules"].bytes])

\* lstat
Inspect(n) ==
    /\ At(n, "inspect") /\ n # "staging"
    /\ IF Present(n)
       THEN /\ local' = [local EXCEPT ![n].ino = file[n].ino, ![n].stamp = file[n].stamp]
            /\ Proceed(n, "read")
            /\ UNCHANGED <<phase, pass, root, listing, seen, result>>
       ELSE Trouble(n)

\* stableDirectory
InspectStaging ==
    /\ At("staging", "inspect")
    /\ IF Present("staging")
       THEN Conclude("staging", [Unread EXCEPT !.state = "present", !.bytes = file["staging"].bytes,
                                 !.ino = file["staging"].ino, !.stamp = file["staging"].stamp])
       ELSE Trouble("staging")

\* sameIdentity: the Claude invocation compares the times as well.
SameInode(n) == Present(n) /\ file[n].ino = local[n].ino
SameTimes(n) == file[n].stamp = local[n].stamp
Same(n) == SameInode(n) /\ (Reader = "claude_invocation" => SameTimes(n))

\* open, fstat, read.
Read(n) ==
    /\ At(n, "read")
    /\ IF Same(n)
       THEN /\ local' = [local EXCEPT ![n].bytes = file[n].bytes, ![n].stamp = file[n].stamp]
            /\ Proceed(n, "final")
            /\ UNCHANGED <<phase, pass, root, listing, seen, result>>
       ELSE Trouble(n)

\* The file may have been rewritten while it was read.
BytesRead(n) == IF SameTimes(n) THEN {local[n].bytes}
                ELSE {local[n].bytes, file[n].bytes, Torn}

\* fstat and lstat once more; the signature holds the times of this lstat.
Final(n) ==
    /\ At(n, "final")
    /\ IF Same(n)
       THEN \E b \in BytesRead(n) :
               Conclude(n, [state |-> "present", bytes |-> b, parent |-> local[n].parent,
                            ino |-> file[n].ino, stamp |-> file[n].stamp])
       ELSE Trouble(n)

-----------------------------------------------------------------------------
(* The two passes.                                                         *)

AllRead == phase = "files" /\ \A n \in Reads : step[n] = "done"

\* The root must not have changed during the pass; the Claude invocation
\* looks at its identity only.
EndPass ==
    /\ AllRead
    /\ IF tree # identity \/ (ByStat /\ dir["root"] # root[pass])
       THEN Failed
       ELSE /\ phase' = IF pass = 1 THEN "begin" ELSE "compare"
            /\ pass' = 2
            /\ UNCHANGED <<step, root, listing, local, seen, result>>

\* Faulty variant: the bytes alone make the signature.
SignatureOfBytes(p) == [n \in Reads |-> [seen[p][n] EXCEPT !.parent = 0, !.ino = 0, !.stamp = 0]]

\* snapshotSignature
Signature(p) ==
    [n \in Reads |-> IF ByStat THEN seen[p][n]
                     ELSE [seen[p][n] EXCEPT !.parent = 0, !.ino = 0, !.stamp = 0]]

Agrees == Signature(1) = Signature(2) /\ (ByStat => root[1] = root[2])

Compare ==
    /\ phase = "compare"
    /\ IF ~Agrees THEN Failed
       ELSE phase' = "classify" /\ UNCHANGED <<pass, step, root, listing, local, seen, result>>

-----------------------------------------------------------------------------
(* What is made of a reading: classifySnapshot and blockersFor.            *)

State(n) == seen[2][n].state
BytesOf(n) == seen[2][n].bytes

Owned == Legible(2, "receipt") /\ identity = 0
Ownership ==
    CASE \E n \in {"hook", "receipt", "lock", "staging"} : State(n) = "unsafe" -> "unsafe"
      [] State("receipt") = "absent" -> IF State("hook") = "absent" THEN "absent" ELSE "unowned"
      [] State("receipt") = "present" /\ ~Owned -> "record_collision"
      [] Owned /\ State("hook") = "absent" -> "owned_inactive"
      [] Owned /\ State("hook") = "present" /\ BytesOf("hook") = BytesOf("receipt") -> "owned_exact"
      [] OTHER -> "owned_modified"

\* Shared settings may stand beside Claude's hook when they declare none.
ConfigBlocks == State("config") = "unsafe"
                \/ IF Reader = "claude_status" THEN BytesOf("config") = Alien
                   ELSE State("config") = "present"
RulesBlock == Reader = "claude_status" /\ State("rules") # "present"

\* The commands that observe on their own behalf pass their operation: they
\* are in the transaction modules.
Locked == State("lock") # "absent"
Blocked == ConfigBlocks \/ RulesBlock \/ Locked \/ scenario.linked
           \/ Ownership \in {"unsafe", "unowned"}

\* The toolchain may have changed while nobody looked.
Readiness == {"current", "artifact_drift", "artifact_unavailable"}

\* Codex: a lock that cannot be parsed fails the whole observation.
Illegible == Reader # "claude_status" /\ State("lock") = "present" /\ ~Legible(2, "lock")

ClassifyStatus ==
    /\ phase = "classify" /\ Reader \in Statuses
    /\ IF Illegible THEN Failed
       ELSE \E readiness \in Readiness :
               Answer(IF Ownership = "absent" /\ ~Blocked THEN "installable"
                      ELSE IF Ownership = "owned_exact" /\ readiness = "current" /\ ~Blocked
                      THEN "current" ELSE "attention")

\* The receipt is that of the launch, the settings are its settings, and no
\* operation is under way.
OwnReceipt == Owned /\ BytesOf("receipt") = scenario.launch
OwnHook == BytesOf("hook") = scenario.launch

\* Faulty variant: an operation under way does not matter.
UnlockedIgnored == TRUE

Unlocked == State("lock") = "absent"

Verify ==
    /\ phase = "classify" /\ Reader \in Invocations
    /\ \E readiness \in Readiness :
          Answer(IF OwnReceipt /\ OwnHook /\ Unlocked /\ readiness = "current"
                 THEN "verified" ELSE "refused")

-----------------------------------------------------------------------------
(* What the others do.                                                     *)

Finished == IF Authority THEN load \in Ended ELSE phase = "done"
Tick == ~Finished /\ now' = now + 1 /\ now < scenario.changes

\* One step of a lifecycle command; each takes the lock at most once.  The
\* commands of this model all belong to the first root.
Lifecycle == INSTANCE HookLifecycle WITH writer <- file["lock"].bytes,
                                         record <- file["receipt"].bytes,
                                         hook <- file["hook"].bytes
LifecycleStep ==
    /\ Tick /\ tree = 0
    /\ \E n \in {"hook", "receipt", "lock"} :
          \/ \E c \in Commands : Write(n, c) /\ (n = "lock" => c \notin spent)
          \/ Unlink(n)
    /\ Lifecycle!Next
    /\ spent' = spent \cup ({file'["lock"].bytes} \ {Nobody, Alien})
    /\ UNCHANGED foreign

\* The command that holds the lock stages its files and cleans up.
StagingStep ==
    /\ Tick /\ "staging" \in Reads /\ file["lock"].bytes \in Commands
    /\ \/ ~Present("staging") /\ Write("staging", file["lock"].bytes)
       \/ Unlink("staging")
    /\ UNCHANGED <<foreign, spent>>

\* Another program; it may also bring back what was there.  The files it
\* touches and the bytes it writes are bounds of the scenario.
ForeignStep ==
    /\ Tick /\ foreign < scenario.foreign /\ foreign' = foreign + 1
    /\ \/ \E n \in (Reads \cup wanted) \cap scenario.touches :
             \/ \E b \in scenario.writes : Write(n, b) \/ Edit(n, b)
             \/ Unlink(n)
       \/ "root" \in scenario.touches /\ \E kept \in {{}, Names} : Swap(kept)
    /\ UNCHANGED spent

\* throwIfCancelled
Cancel ==
    \/ phase \notin {"begin", "done"} /\ Answer("cancelled")
    \/ phase = "begin" /\ load \in {"loaded", "cancelled"} /\ ~Authority /\ Answer("cancelled")

ReaderStep ==
    \/ Begin \/ Unauthorized \/ Topology \/ NotSought \/ CheckIgnore \/ InspectStaging
    \/ EndPass \/ Compare \/ ClassifyStatus \/ Verify \/ Cancel
    \/ \E n \in Reads : Parent(n) \/ Entry(n) \/ Inspect(n) \/ Read(n) \/ Final(n)

\* A step of this process: the loader's, and then the reader's.
Process == \/ AuthorityStep /\ UNCHANGED reading
           \/ ReaderStep /\ UNCHANGED authority

\* The reader has turned to the files.
Started == phase # "begin" \/ pass = 2

Next ==
    /\ UNCHANGED scenario
    /\ \/ Process /\ UNCHANGED others
       \/ LifecycleStep /\ UNCHANGED <<authority, reading>>
       \/ StagingStep /\ UNCHANGED <<authority, reading>>
       \/ ForeignStep /\ UNCHANGED <<authority, reading>>
    /\ middle' = IF AllRead /\ pass = 1 /\ phase' # "files" THEN Contents ELSE middle
    /\ witness' = ((witness /\ Started) \/ InstalledNow')

Spec == Init /\ [][Next]_vars /\ WF_vars(Process)

-----------------------------------------------------------------------------
(* Properties.                                                             *)

\* The rules that git ignores files by are asked for and leave no stamp: they
\* count as long as they change only once.
Held(n) == \/ State(n) \in {"unsafe", "unread"}
           \/ n = "rules" /\ foreign > 1
           \/ BytesOf(n) = middle.bytes[n]

\* Two readings that agree are one: whatever the other programs do, every
\* part of an accepted status was so at one and the same instant, between the
\* two, in the root the authority names.  So what the status says of it was
\* true then: "current" of a hook with its receipt, "installable" of a
\* repository without either, and both of no operation under way.  The
\* transaction modules rely on this when they observe in one step.
SnapshotHeld ==
    /\ result \in {"installable", "current", "attention", "verified"} /\ ByStat =>
         middle.tree = identity /\ \A n \in Reads : Held(n)
    /\ result = "current" =>
         /\ middle.bytes["hook"] = middle.bytes["receipt"]
         /\ middle.bytes["hook"] \in Commands /\ middle.bytes["lock"] = Nobody
    /\ result = "installable" =>
         \A n \in {"hook", "receipt", "lock"} : middle.bytes[n] = Nobody

\* A hook that verified its installation while it was being removed or
\* replaced, or was just coming into being: at some instant since it turned
\* to the files, receipt and settings were those it was launched with, in the
\* root they were made for, and no operation was under way.  What was so when
\* the hook was launched does not count: the removal may have begun since.
VerifiedWasInstalled == result = "verified" => witness
=============================================================================
