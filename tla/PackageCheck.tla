---------------------------- MODULE PackageCheck ----------------------------
(***************************************************************************)
(* The evaluation of one package (check.ts), once or by several processes  *)
(* and scan items at a time: npm evidence, OSV evidence page by page, the  *)
(* metadata cache between them, the policy and the approvals.              *)
(*                                                                         *)
(* Around it: a server that answers or does not (SafeHttpClient), a cache  *)
(* that may hold anything when the checks start, a clock that may go back, *)
(* aborts, killed processes and power failures.  The package and its       *)
(* advisories do not change while the checks run.                          *)
(***************************************************************************)
EXTENDS SafeHttpClient, PolicyEngine, Sequences, FiniteSets

CONSTANTS
    None,            \* no file
    MaxPages,        \* pages of advisories that are fetched
    MaxRecords,      \* advisories that are kept
    Defaults,        \* the configuration without a policy
    Ttl,             \* how long an entry of each provider is fresh
    MaxClock,        \* bound of the clock
    Scenarios

VARIABLES
    scenario,        \* the package, the configuration and what may happen
    clock,
    moves,           \* how often the clock or a document may still be changed
    crashes,         \* how many processes, or machines, may still die
    documents,       \* the policy and the approvals in the project
    cacheRoot,       \* the directory of the cache
    entry,           \* the published cache entries
    temp,            \* the temporary cache file of each check
    handle,          \* the entry a check has opened
    job,             \* how far each check is
    scan             \* the result of the scan the checks belong to

disk == <<entry, temp>>
world == <<clock, moves, crashes, documents, cacheRoot>>
vars == <<httpVars, scenario, world, disk, handle, job, scan>>

-----------------------------------------------------------------------------
(* What may be asked and answered.                                         *)

\* What a check read, or was given (action-evaluation.ts); --strict is its own.
Config(c) ==
    LET read == IF job[c].policy = "default" THEN Defaults ELSE scenario.config
    IN IF scenario.strict THEN [read EXCEPT !.mode = "strict"] ELSE read
Approvals(c) == IF job[c].approvals = "default" THEN {} ELSE scenario.approvals

Active == scenario.active
Mode(c) == scenario.mode[c]                 \* "online", "offline", "no_cache", "both"

Failed(status) == [ok |-> FALSE, status |-> status]

\* getPackage, from a good document.  "inconsistent" covers another package's
\* document and a tag that names a version without metadata.
NpmAnswer(package) ==
    CASE package.kind = "found" -> [ok |-> TRUE, data |-> package.data]
      [] package.kind = "missing" -> Failed("not_found")
      [] package.kind = "inconsistent" -> Failed("invalid_response")

\* Cache keys: the npm request, or the version the advisories are about.
NpmKey == <<"npm", 0>>
Keys == {NpmKey} \cup {<<"osv", v>> : v \in scenario.versions}

\* A file of the cache; what is not synchronized is lost with the power.
IsEntry(e) ==
    e = None \/ /\ e.state \in {"partial", "unsynced", "synced", "garbage"}
                /\ e.storedAt \in Int /\ e.expiresAt \in Int
                /\ DOMAIN e = {"state", "storedAt", "expiresAt", "payload"}

\* agentHawkConfigSchema.
LegalConfigs ==
    [mode : {"review", "strict"}, onProviderError : {"review", "error"},
     onUnknownVersion : {"review", "error"}, allowPrerelease : BOOLEAN, npm : BOOLEAN,
     osv : BOOLEAN, action : [Rules -> Actions], minPackageAge : Nat, minReleaseAge : Nat,
     scripts : SUBSET STRING, severities : SUBSET STRING, maxValidity : Nat]

\* The npm metadata that checks may come across, from the registry or the cache.
NpmData(s) ==
    {p.data : p \in {q \in {s.package} : q.kind = "found"}}
    \cup {s.cache[k].payload : k \in {n \in DOMAIN s.cache : n = NpmKey /\ s.cache[n].state = "synced"}}

\* A record of a page of OSV, as parsed.
Advice == [id : STRING, malicious : BOOLEAN, severity : STRING, withdrawn : BOOLEAN]

\* What is in the cache at first was published by other checks, or forged.
IsPublished(e) == e # None => IsEntry(e) /\ e.state \in {"synced", "garbage"}

\* The documents in a project, and what the schemas and the command line leave:
\* nobody aborts the doctor, and the items of a scan are checks.
IsDocument(d) ==
    /\ d.ino \in Int /\ d.content \in {"good", "bad", "link", "absent"} /\ d.gone \in BOOLEAN
    /\ d.content = "absent" => d.gone

IsScenario(s) ==
    /\ s.active \subseteq Callers /\ s.config \in LegalConfigs
    /\ s.faults \in Nat /\ s.clock \in 0..MaxClock
    /\ {s.registrySpec, s.scan, s.strict, s.reads, s.abortable} \subseteq BOOLEAN
    /\ s.package.kind \in {"found", "missing", "inconsistent"}
    /\ \A d \in NpmData(s) :
          /\ d.version \in s.versions
          /\ d.semver \in BOOLEAN
          /\ ~d.semver => \A r \in s.approvals : r.version # d.version
    /\ s.advisories \in Seq(SUBSET Advice) \ {<<>>}
    /\ \A n \in DOMAIN s.advisories : IsFiniteSet(s.advisories[n])
    /\ \A k \in DOMAIN s.cache : IsPublished(s.cache[k])
    /\ DOMAIN s.documents = {"policy", "approvals"}
    /\ \A d \in DOMAIN s.documents :
          /\ DOMAIN s.documents[d] = {"ino", "content", "gone"} /\ IsDocument(s.documents[d])
    /\ \A c \in s.active :
          /\ s.tool[c] \in {"check", "doctor", "policy_validate", "approvals_verify"}
          /\ s.tool[c] = "doctor" => s.reads /\ ~s.abortable
          /\ s.scan => s.tool[c] = "check"

ASSUME BoundsAssumption ==
    MaxPages \in Nat \ {0} /\ MaxRecords \in Nat /\ \A at \in {"npm", "osv"} : Ttl[at] \in Nat
ASSUME AbsentAssumption == Absent # Failed("not_found")
ASSUME ScenarioAssumption == Defaults \in LegalConfigs /\ \A s \in Scenarios : IsScenario(s)

\* The checks of a scan are "idle" until its inventory is there (DependencyScan).
JobPhases == {"idle", "start", "root", "mkdir", "probe", "unprobe",
              "inspect", "document", "reading", "report", "lookup", "asked", "open", "parse", "create", "fill", "sync", "rename",
              "published", "discard", "evaluate", "done", "dead"}
Outcomes == {"none", "cancelled", "invalid", "valid", "ready", "attention"} \cup Verdicts

NoJob == [phase |-> "start", cache |-> "none", doc |-> "policy", seen |-> 0, held |-> "none",
          policy |-> "given", approvals |-> "given", at |-> "npm", now |-> 0, page |-> 1, records |-> {},
          npm |-> Absent, osv |-> Absent, npmFrom |-> "none", osvFrom |-> "none",
          outcome |-> "none", approved |-> FALSE]

TypeOK ==
    /\ HttpTypeOK
    /\ clock \in 0..MaxClock
    /\ \A c \in Active :
          /\ job[c].phase \in JobPhases /\ job[c].at \in {"npm", "osv"}
          /\ job[c].page \in 1..MaxPages
          /\ Cardinality(job[c].records) <= MaxRecords
          /\ {job[c].npmFrom, job[c].osvFrom} \subseteq {"none", "live", "cache"}
          /\ {job[c].policy, job[c].approvals} \subseteq {"given", "default", "file", "invalid"}
          /\ job[c].cache \in {"none", "writable", "unwritable", "unsafe"}
          /\ job[c].outcome \in Outcomes
          /\ (job[c].phase = "done") = (job[c].outcome # "none")
    /\ \A k \in Keys : IsEntry(entry[k])
    /\ \A c \in Active : IsEntry(temp[c]) /\ IsEntry(handle[c])
    /\ scan \in {"inventory", "none", "cancelled", "failed"} \cup Verdicts

Init ==
    /\ scenario \in Scenarios
    /\ HttpInit /\ faults = scenario.faults
    /\ clock = scenario.clock /\ moves = scenario.moves /\ crashes = scenario.crashes
    /\ documents = scenario.documents /\ cacheRoot = scenario.root
    /\ entry = [k \in Keys |-> IF k \in DOMAIN scenario.cache THEN scenario.cache[k] ELSE None]
    /\ temp = [c \in Callers |-> None] /\ handle = [c \in Callers |-> None]
    /\ job = [c \in Callers |-> [NoJob EXCEPT
                                   !.phase = IF scenario.scan THEN "idle" ELSE "start",
                                   !.doc = IF scenario.tool[c] = "approvals_verify" THEN "approvals"
                                           ELSE "policy"]]
    /\ scan = IF scenario.scan THEN "inventory" ELSE "none"

-----------------------------------------------------------------------------
(* evaluatePreparedNpmPackage: one provider after the other.               *)

At(c, phase) == c \in Active /\ job[c].phase = phase
Go(c, phase) == job' = [job EXCEPT ![c].phase = phase]
End(c, outcome) == job' = [job EXCEPT ![c].phase = "done", ![c].outcome = outcome]

\* throwIfCancelled: the operation ends, or goes on.
Unless(c, goOn) == IF c \in aborted THEN End(c, "cancelled") ELSE goOn

\* evaluatePreparedNpmPackage begins.
Evidential == IF scenario.registrySpec THEN "lookup" ELSE "evaluate"

FirstPhase(c) == IF scenario.tool[c] = "doctor" THEN "root"
                 ELSE IF scenario.reads THEN "inspect" ELSE Evidential

Start(c) ==
    /\ At(c, "start")
    /\ Unless(c, IF Mode(c) = "both" THEN End(c, "invalid")
                 ELSE job' = [job EXCEPT ![c].now = clock,
                                         ![c].phase = FirstPhase(c)])
    /\ UNCHANGED <<httpVars, scenario, world, disk, handle, scan>>

\* readYamlFile, for the policy and then the approvals: the path is inspected,
\* opened, read and inspected again.  What is made of it depends on who reads:
\* a check needs what was named on its command line and stops at what it cannot
\* read, the doctor goes on, and a validator looks at one document only.
Document(c) == documents[job[c].doc]
Tool(c) == scenario.tool[c]

Loaded(c, from, last) ==
    IF job[c].doc = "policy"
    THEN job' = [job EXCEPT ![c].policy = from, ![c].doc = "approvals", ![c].phase = "inspect"]
    ELSE job' = [job EXCEPT ![c].approvals = from, ![c].phase = last]

CheckTakes(c, state) ==
    IF state = "invalid" \/ (state = "default" /\ job[c].doc \in scenario.required)
    THEN End(c, "invalid") ELSE Loaded(c, state, Evidential)

ValidatorTakes(c, state) == End(c, IF state = "file" THEN "valid" ELSE "invalid")

TakesDocument(c, state) ==
    CASE Tool(c) = "check" -> CheckTakes(c, state)
      [] Tool(c) = "doctor" -> Loaded(c, state, "report")
      [] OTHER -> ValidatorTakes(c, state)

Inspect(c) ==
    /\ At(c, "inspect")
    /\ Unless(c, CASE Document(c).content = "absent" -> TakesDocument(c, "default")
                   [] Document(c).content = "link" -> TakesDocument(c, "invalid")
                   [] OTHER -> job' = [job EXCEPT ![c].seen = Document(c).ino, ![c].phase = "document"])
    /\ UNCHANGED <<httpVars, scenario, world, disk, handle, scan>>

OpenDocument(c) ==
    /\ At(c, "document")
    /\ Unless(c, IF Document(c).content = "absent" THEN TakesDocument(c, "default")
                 ELSE IF Document(c).ino # job[c].seen THEN TakesDocument(c, "invalid")
                 ELSE job' = [job EXCEPT ![c].held = Document(c).content, ![c].phase = "reading"])
    /\ UNCHANGED <<httpVars, scenario, world, disk, handle, scan>>

\* The schemas of the configuration and of the approval file.
Parsed(c) == job[c].held = "good" /\ (job[c].doc = "approvals" => WellFormed(scenario.approvals))

\* A document that has gone by now is an internal error.
CloseDocument(c) ==
    /\ At(c, "reading")
    /\ Unless(c, TakesDocument(c, IF Document(c).ino # job[c].seen \/ ~Parsed(c) THEN "invalid"
                                  ELSE "file"))
    /\ UNCHANGED <<httpVars, scenario, world, disk, handle, scan>>

-----------------------------------------------------------------------------
(* The doctor: probeWritable, git, the documents, the integration files.   *)

Probed(c, state) == job' = [job EXCEPT ![c].cache = state, ![c].phase = "inspect"]

\* inspectDirectoryPath, mkdir, and inspectDirectoryPath again.
InspectRoot(c) ==
    /\ At(c, "root")
    /\ CASE cacheRoot = "link" -> Probed(c, "unsafe")
         [] cacheRoot = "unreadable" -> Probed(c, "unwritable")
         [] OTHER -> Go(c, "mkdir")
    /\ UNCHANGED <<httpVars, scenario, world, disk, handle, scan>>

MakeRoot(c) ==
    /\ At(c, "mkdir")
    /\ cacheRoot' = IF cacheRoot = "missing" THEN "directory" ELSE cacheRoot
    /\ CASE cacheRoot = "link" -> Probed(c, "unsafe")
         [] cacheRoot = "unreadable" -> Probed(c, "unwritable")
         [] OTHER -> Go(c, "probe") \/ Probed(c, "unwritable")
    /\ UNCHANGED <<httpVars, scenario, clock, moves, crashes, documents, disk, handle, scan>>

\* The file may be created, but not written.
CreateProbe(c) ==
    /\ At(c, "probe")
    /\ \/ Probed(c, "unwritable") /\ UNCHANGED temp
       \/ /\ cacheRoot = "directory"
          /\ temp' = [temp EXCEPT ![c] = [state |-> "unsynced", storedAt |-> 0, expiresAt |-> 0,
                                          payload |-> {}]]
          /\ \E state \in {"writable", "unwritable"} :
                job' = [job EXCEPT ![c].cache = state, ![c].phase = "unprobe"]
    /\ UNCHANGED <<httpVars, scenario, world, entry, handle, scan>>

RemoveProbe(c) ==
    /\ At(c, "unprobe")
    /\ \/ Probed(c, "unsafe") /\ UNCHANGED temp
       \/ /\ cacheRoot = "directory"
          /\ temp' = [temp EXCEPT ![c] = None]
          /\ Probed(c, job[c].cache)
    /\ UNCHANGED <<httpVars, scenario, world, entry, handle, scan>>

\* Node, git, the platform and the integration files may all be in order.
Report(c) ==
    /\ At(c, "report")
    /\ \E fit \in BOOLEAN :
          End(c, IF fit /\ job[c].cache = "writable" /\ "invalid" \notin {job[c].policy, job[c].approvals}
                 THEN "ready" ELSE "attention")
    /\ UNCHANGED <<httpVars, scenario, world, disk, handle, scan>>

-----------------------------------------------------------------------------
(* The evidence of the providers.                                          *)

\* resolveOsvResult asks nothing without OSV or without a resolved version.
AfterNpm(c, npm) == IF Config(c).osv /\ npm.ok THEN "lookup" ELSE "evaluate"

\* What follows the evidence of a provider when nothing is left to be written.
Onward(c, j) ==
    IF j.at = "osv" THEN [j EXCEPT !.phase = "evaluate"]
    ELSE [j EXCEPT !.phase = AfterNpm(c, j.npm), !.at = IF AfterNpm(c, j.npm) = "lookup" THEN "osv" ELSE "npm"]

Offline(c) == Mode(c) = "offline"

Lookup(c) ==
    /\ At(c, "lookup")
    /\ IF Offline(c)
       THEN Unless(c, Go(c, "open")) /\ UNCHANGED httpVars
       ELSE /\ Ask(c, IF job[c].at = "npm" THEN "GET" ELSE "POST")
            /\ Go(c, "asked")
            /\ UNCHANGED <<aborted, faults>>
    /\ UNCHANGED <<scenario, world, disk, handle, scan>>

\* Evidence of the provider at hand; good live evidence is written to the cache.
Evidence(c, result, from) ==
    IF job[c].at = "npm" THEN [job[c] EXCEPT !.npm = result, !.npmFrom = from]
    ELSE [job[c] EXCEPT !.osv = result, !.osvFrom = from]

Take(c, result) ==
    job' = [job EXCEPT ![c] =
              IF result.ok /\ Mode(c) = "online"
              THEN [Evidence(c, result, "live") EXCEPT !.phase = "create"]
              ELSE Onward(c, Evidence(c, result, "live"))]

\* classifyOsvRecord: what was withdrawn is not there.
RecordsOn(page) == {[id |-> r.id, malicious |-> r.malicious, severity |-> r.severity] :
                      r \in {x \in page : ~x.withdrawn}}

\* Faulty variant: what is kept after the last page allowed is the answer.
TruncatedIsEnough(records) == [ok |-> TRUE, records |-> records]

Truncated(records) == Failed("invalid_response")

\* Faulty variant: the records are not counted.
TooManyNever(records) == FALSE

TooMany(records) == Cardinality(records) > MaxRecords

\* OsvProvider.query: one page more.
Page(c) ==
    LET pages == scenario.advisories
        records == job[c].records \cup RecordsOn(pages[job[c].page])
    IN IF TooMany(records) THEN Take(c, Truncated(job[c].records))
       ELSE IF job[c].page = Len(pages) THEN Take(c, [ok |-> TRUE, records |-> records])
       ELSE IF job[c].page = MaxPages THEN Take(c, Truncated(records))
       ELSE job' = [job EXCEPT ![c].page = @ + 1, ![c].records = records, ![c].phase = "lookup"]

Answered(c) ==
    /\ At(c, "asked") /\ call[c].phase = "done"
    /\ call' = [call EXCEPT ![c] = NoCall]
    /\ Unless(c, IF call[c].outcome # "json" THEN Take(c, Failed(call[c].outcome))
                 ELSE IF job[c].at = "npm" THEN Take(c, NpmAnswer(scenario.package))
                 ELSE Page(c))
    /\ UNCHANGED <<aborted, faults, scenario, world, disk, handle, scan>>

-----------------------------------------------------------------------------
(* MetadataCache.                                                          *)

Key(c) == IF job[c].at = "npm" THEN NpmKey ELSE <<"osv", job[c].npm.data.version>>
Payload(c) == IF job[c].at = "npm" THEN job[c].npm.data ELSE job[c].osv.records

\* offlineFailure, for missing, corrupt and stale entries.
Lacking(c) == job' = [job EXCEPT ![c] = Onward(c, Evidence(c, Failed("network_error"), "none"))]

\* read: an open file stays the same file when its name gets another one.
Open(c) ==
    /\ At(c, "open")
    /\ handle' = [handle EXCEPT ![c] = entry[Key(c)]]
    /\ Unless(c, IF entry[Key(c)] = None THEN Lacking(c) ELSE Go(c, "parse"))
    /\ UNCHANGED <<httpVars, scenario, world, disk, scan>>

Corrupt(e, time) ==
    e.state \in {"partial", "garbage"} \/ e.storedAt > time \/ e.expiresAt < e.storedAt
Fresh(e, time) == ~Corrupt(e, time) /\ time < e.expiresAt

Parse(c) ==
    /\ At(c, "parse")
    /\ handle' = [handle EXCEPT ![c] = None]
    /\ LET e == handle[c]
       IN Unless(c,
            IF ~Fresh(e, clock) THEN Lacking(c)
            ELSE job' = [job EXCEPT ![c] =
                   Onward(c, Evidence(c, IF job[c].at = "npm" THEN [ok |-> TRUE, data |-> e.payload]
                                         ELSE [ok |-> TRUE, records |-> e.payload], "cache"))])
    /\ UNCHANGED <<httpVars, scenario, world, disk, scan>>

\* write: any failure, an abort included, leads to the removal of the file.
WriteFails(c) ==
    /\ c \in Active /\ job[c].phase \in {"create", "fill", "sync", "rename"}
    /\ (c \in aborted /\ UNCHANGED <<aborted, faults>>) \/ Fault
    /\ Go(c, "discard")
    /\ UNCHANGED <<call, scenario, world, disk, handle, scan>>

Store(c, e, phase) ==
    /\ temp' = [temp EXCEPT ![c] = e]
    /\ Go(c, phase)
    /\ UNCHANGED <<httpVars, scenario, world, entry, handle, scan>>

Create(c) ==
    /\ At(c, "create") /\ c \notin aborted
    /\ Store(c, [state |-> "partial", storedAt |-> clock,
                 expiresAt |-> clock + Ttl[job[c].at], payload |-> Payload(c)], "fill")

Fill(c) ==
    /\ At(c, "fill") /\ c \notin aborted
    /\ Store(c, [temp[c] EXCEPT !.state = "unsynced"], "sync")

\* Faulty variant: the file is not synchronized before it is renamed.
SyncedNever == "unsynced"

Synced == "synced"

Sync(c) ==
    /\ At(c, "sync")
    /\ Store(c, [temp[c] EXCEPT !.state = Synced], "rename")

Rename(c) ==
    /\ At(c, "rename") /\ c \notin aborted
    /\ entry' = [entry EXCEPT ![Key(c)] = temp[c]]
    /\ temp' = [temp EXCEPT ![c] = None]
    /\ Go(c, "published")
    /\ UNCHANGED <<httpVars, scenario, world, handle, scan>>

Written(c) ==
    /\ At(c, "published")
    /\ Unless(c, job' = [job EXCEPT ![c] = Onward(c, job[c])])
    /\ UNCHANGED <<httpVars, scenario, world, disk, handle, scan>>

Discard(c) ==
    /\ At(c, "discard")
    /\ temp' = [temp EXCEPT ![c] = None]
    /\ Unless(c, job' = [job EXCEPT ![c] = Onward(c, job[c])])
    /\ UNCHANGED <<httpVars, scenario, world, entry, handle, scan>>

-----------------------------------------------------------------------------
(* The verdict.                                                            *)

FromCache(c) == "cache" \in {job[c].npmFrom, job[c].osvFrom}

\* requireLiveVerification
RequireLive(config, evaluation, cached) ==
    IF ~cached \/ \E f \in evaluation.findings : f.rule = "PG013" THEN evaluation
    ELSE Finalize(evaluation.findings \cup {Finding("PG013", "review", FALSE)},
                  evaluation.errors \/ Strict(config))

Resolved(c) == IF job[c].npm # Absent /\ job[c].npm.ok THEN job[c].npm.data.version ELSE Absent

Evaluate(c) ==
    /\ At(c, "evaluate")
    /\ LET evaluation == RequireLive(Config(c), EvaluatePolicy(Config(c), scenario.registrySpec,
                                                               job[c].npm, job[c].osv, job[c].now),
                                     FromCache(c))
           applied == ApplyApprovals(Config(c), Approvals(c), evaluation, Resolved(c), job[c].now)
       IN Unless(c, job' = [job EXCEPT ![c].phase = "done", ![c].outcome = applied.verdict,
                                       ![c].approved = applied.approved])
    /\ UNCHANGED <<httpVars, scenario, world, disk, handle, scan>>

\* scanDependencies, once every check has settled.
ScanEnds ==
    /\ scenario.scan /\ scan = "none"
    /\ \A c \in Active : job[c].phase \in {"idle", "done"}
    /\ LET outcomes == {job[c].outcome : c \in Active} \ {"none"}
       IN scan' = IF Active \cap aborted # {} \/ "cancelled" \in outcomes THEN "cancelled"
                  ELSE IF "invalid" \in outcomes THEN "failed"
                  ELSE CombineVerdicts(outcomes)
    /\ UNCHANGED <<httpVars, scenario, world, disk, handle, job>>

-----------------------------------------------------------------------------
(* What happens around the checks.                                         *)

\* Nothing is left of a scan that is over.
Working(c) ==
    /\ c \in Active /\ job[c].phase \notin {"done", "dead"}
    /\ job[c].phase = "idle" => scan \in {"inventory", "none"}

\* The items of a scan share one signal.
Abandon(c) ==
    /\ scenario.abortable /\ Working(c) /\ c \notin aborted
    /\ Abort(IF scenario.scan THEN Active ELSE {c})
    /\ UNCHANGED <<scenario, world, disk, handle, job, scan>>

SetClock ==
    /\ moves > 0 /\ moves' = moves - 1
    /\ \E t \in 0..MaxClock : t # clock /\ clock' = t
    /\ \E c \in Active : Working(c)
    /\ UNCHANGED <<httpVars, scenario, crashes, documents, cacheRoot, disk, handle, job, scan>>

\* An editor replaces a document, or somebody removes it or puts a link there.
Edit(d, content) ==
    /\ moves > 0 /\ moves' = moves - 1 /\ scenario.reads
    /\ content # "absent" \/ documents[d].content # "absent"
    /\ documents' = [documents EXCEPT ![d] = [ino |-> @.ino + 1, content |-> content,
                                              gone |-> @.gone \/ content = "absent"]]
    /\ \E c \in Active : Working(c)
    /\ UNCHANGED <<httpVars, scenario, clock, crashes, cacheRoot, disk, handle, job, scan>>

ChangeRoot(state) ==
    /\ moves > 0 /\ moves' = moves - 1
    /\ state # cacheRoot /\ cacheRoot' = state
    /\ \E c \in Active : Working(c) /\ Tool(c) = "doctor"
    /\ UNCHANGED <<httpVars, scenario, clock, crashes, documents, disk, handle, job, scan>>

Die(cs) == job' = [c \in Callers |-> IF c \in cs /\ Working(c) THEN [job[c] EXCEPT !.phase = "dead"]
                                     ELSE job[c]]

Kill(c) ==
    /\ crashes > 0 /\ crashes' = crashes - 1
    /\ Working(c) /\ Die(IF scenario.scan THEN Active ELSE {c})
    /\ UNCHANGED <<httpVars, scenario, clock, moves, documents, cacheRoot, disk, handle, scan>>

\* Whatever was not synchronized is gone, in whole or in part.
Lost(e) == IF e # None /\ e.state = "unsynced" THEN [e EXCEPT !.state = "partial"] ELSE e

PowerFails ==
    /\ crashes > 0 /\ crashes' = crashes - 1
    /\ \E c \in Active : Working(c)
    /\ Die(Active)
    /\ entry' = [k \in Keys |-> Lost(entry[k])]
    /\ temp' = [c \in Callers |-> Lost(temp[c])]
    /\ UNCHANGED <<httpVars, scenario, clock, moves, documents, cacheRoot, handle, scan>>

CheckStep(c) ==
    \/ InspectRoot(c) \/ MakeRoot(c) \/ CreateProbe(c) \/ RemoveProbe(c) \/ Report(c)
    \/ Start(c) \/ Inspect(c) \/ OpenDocument(c) \/ CloseDocument(c) \/ Lookup(c) \/ Answered(c) \/ Open(c) \/ Parse(c)
    \/ WriteFails(c) \/ Create(c) \/ Fill(c) \/ Sync(c) \/ Rename(c) \/ Written(c) \/ Discard(c)
    \/ Evaluate(c)

RequestStep(c) ==
    /\ At(c, "asked")
    /\ UNCHANGED <<scenario, world, disk, handle, job, scan>>
    /\ ClientStep(c)

Next ==
    \/ \E c \in Active :
          \/ CheckStep(c) \/ RequestStep(c) \/ Abandon(c) \/ Kill(c)
          \/ At(c, "asked") /\ NetworkStep(c) /\ UNCHANGED <<scenario, world, disk, handle, job, scan>>
    \/ \E d \in {"policy", "approvals"}, content \in {"good", "bad", "link", "absent"} : Edit(d, content)
    \/ \E state \in {"directory", "missing", "link", "unreadable"} : ChangeRoot(state)
    \/ ScanEnds \/ SetClock \/ PowerFails

\* The event loop runs what is ready and the timers; the server owes nothing.
Fairness ==
    \A c \in Callers : WF_vars(CheckStep(c)) /\ WF_vars(RequestStep(c))

Spec == Init /\ [][Next]_vars /\ Fairness /\ WF_vars(ScanEnds)

-----------------------------------------------------------------------------
(* Properties.                                                             *)

\* The package as the servers know it.
Advisories == UNION {RecordsOn(scenario.advisories[i]) : i \in DOMAIN scenario.advisories}

Admits(outcome) == outcome \in {"allow", "warn"}
Admitted(c) == c \in Active /\ Admits(job[c].outcome)
Live(c) == job[c].npmFrom = "live" /\ (Config(c).osv => job[c].osvFrom = "live")

\* However the server fails, the pages break off, the cache is forged or the
\* clock is set: without an approval, and in strict mode with one, a registry
\* package is admitted on whole live evidence alone; what the advisories on
\* any page say against it needs an approval, or cannot be lifted at all; a
\* scan admits no more than its checks; and the policy is not left out of
\* account while its file is there, whatever else becomes of the file.
PolicyIsObeyed ==
    \A c \in Active : Admitted(c) =>
       /\ job[c].policy = "default" => "policy" \notin scenario.required /\ documents.policy.gone
       /\ job[c].approved => job[c].approvals # "default"
       /\ scenario.strict => Strict(Config(c))

AdmissionIsWellFounded ==
    /\ PolicyIsObeyed
    /\ scenario.registrySpec =>
         \A c \in Active : Admitted(c) =>
            /\ ~job[c].approved \/ Strict(Config(c)) => Live(c) /\ (Config(c).osv => Malicious(Advisories) = {})
            /\ ~job[c].approved /\ Config(c).osv /\ Config(c).action["PG011"] \in {"review", "block"}
                 => Vulnerabilities(Config(c), Advisories) = {}
    /\ Admits(scan) => \A c \in Active : job[c].phase = "idle" \/ Admitted(c)

\* As long as the npm registry is enabled, no approval lifts the verdict on a
\* package that does not exist, or whose exact version has malicious
\* advisories, wherever they come from.
FoundMalicious(c) ==
    /\ job[c].npm # Absent /\ job[c].npm.ok /\ job[c].npm.data.semver
    /\ job[c].osv # Absent /\ job[c].osv.ok /\ Malicious(job[c].osv.records) # {}

MaliceIsNeverLifted ==
    \A c \in Active :
       /\ Config(c).npm /\ job[c].outcome \in Verdicts
       /\ FoundMalicious(c) \/ job[c].npm = Failed("not_found")
       => job[c].outcome \in {"block", "error"}

\* What the documents say of known malice: a malicious advisory that a check
\* has found is never weakened below a block, so nothing admits the package.
\* A policy that disables the npm registry does weaken it: the advisory is
\* fetched all the same, and the one finding there is can be approved.
MaliceIsAlwaysBlocked == \A c \in Active : FoundMalicious(c) => ~Admitted(c)

\* What ADR 0004 says of offline checks: cached evidence is never sufficient
\* for admission, with or without an approval.
CachedIsNeverAdmitted == \A c \in Active : FromCache(c) => ~Admitted(c)

\* A published entry is whole and stays so, whoever is killed in the middle of
\* its replacement and whenever the power fails; and a check that has ended,
\* and was not killed, has left no temporary file: nor has a doctor that finds
\* everything ready.
EntriesWhole == \A k \in Keys : entry[k] # None => entry[k].state # "partial"
NoTemporaryStays ==
    \A c \in Active : job[c].phase = "done" => temp[c] = None \/ job[c].outcome = "attention"
CacheStaysWhole == EntriesWhole /\ NoTemporaryStays

\* Once its caller has aborted, a check starts no request, takes no evidence
\* and reaches no verdict, not even when its own time-out came first.
AbortStopsTheCheck ==
    [][\A c \in aborted :
          /\ call'[c].phase = "waiting" => call[c].phase = "waiting"
          /\ job'[c].npm = job[c].npm /\ job'[c].osv = job[c].osv
          /\ job'[c].outcome \in {job[c].outcome, "cancelled"}]_vars

\* The clients' own timers see to it: every check that is not killed ends, and
\* so does the scan.
EveryCheckEnds ==
    /\ \A c \in Callers : (c \in Active /\ job[c].phase # "idle") ~> job[c].phase \in {"done", "dead"}
    /\ scenario.scan ~> (scan \notin {"inventory", "none"} \/ \E c \in Active : job[c].phase = "dead")
=============================================================================
