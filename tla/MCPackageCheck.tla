--------------------------- MODULE MCPackageCheck ---------------------------
(* A small instance of PackageCheck and DependencyScan for TLC.            *)
EXTENDS DependencyScan, TLC

CONSTANTS a, b

TtlOf == [npm |-> 2, osv |-> 1]

DefaultActions ==
    [r \in Rules |-> IF r = "PG006" THEN "warn" ELSE IF r \in {"PG001", "PG010"} THEN "block"
                     ELSE "review"]
Default == [mode |-> "review", onProviderError |-> "review", onUnknownVersion |-> "review",
            allowPrerelease |-> FALSE, npm |-> TRUE, osv |-> TRUE, action |-> DefaultActions,
            minPackageAge |-> 1, minReleaseAge |-> 1, scripts |-> {"install"},
            severities |-> {"CRITICAL", "HIGH"}, maxValidity |-> 3]
StrictMode == [Default EXCEPT !.mode = "strict"]

Release == [version |-> 1, semver |-> TRUE, prerelease |-> FALSE, created |-> 0, released |-> 0,
            deprecated |-> FALSE, similar |-> FALSE, repository |-> TRUE, scripts |-> {}]
Published(data) == [kind |-> "found", data |-> data]

Record(id, malicious, severity) ==
    [id |-> id, malicious |-> malicious, severity |-> severity, withdrawn |-> FALSE]
Mal == Record("MAL", TRUE, "none")
Low == Record("LOW", FALSE, "LOW")
High == Record("HIGH", FALSE, "HIGH")
Withdrawn == [Record("OLD", TRUE, "HIGH") EXCEPT !.withdrawn = TRUE]

Approval == [version |-> 1, approvedAt |-> 0, expiresAt |-> 3]
Entry(stored, expires, payload) ==
    [state |-> "synced", storedAt |-> stored, expiresAt |-> expires, payload |-> payload]
OsvKey == <<"osv", 1>>

At0(content) == [ino |-> 1, content |-> content, gone |-> content = "absent"]

\* A project: what is committed, what the working tree holds, what the user does.
LockfileNames == <<"package-lock.json", "yarn.lock">>
Item(name, section, spec) == [name |-> name, section |-> section, spec |-> spec]
Holds(items) == [kind |-> "regular", items |-> items]
Torn == [kind |-> "torn", items |-> {}]
Gone == [kind |-> "absent", items |-> {}]
Linked(items) == [kind |-> "link", items |-> items]
WithLocks(x, y) == [l \in LockNames |-> IF l = "yarn.lock" THEN y ELSE x]
Committed(manifest, lock) == [manifest |-> manifest, lock |-> lock]
WorkTree(manifest, lock, index) == [manifest |-> manifest, lock |-> lock, index |-> index, touched |-> {}]

Once == Holds({Item("p", 1, "^1")})
Twice == Holds({Item("p", 1, "^1"), Item("p", 2, "^1")})
Moved == Holds({Item("p", 2, "^1"), Item("p", 4, "^2"), Item("q", 1, "^1")})
Three == Holds({Item("p", s, "^1") : s \in 1..3} \cup {Item("q", 1, "^1")})

Project(diff, committed, manifest, lock, index) ==
    [diff |-> diff, commits |-> <<Committed(Holds({}), WithLocks("none", "none")), committed>>,
     work |-> WorkTree(manifest, lock, index), edits |-> 0, manifests |-> {}, contents |-> {}, stages |-> {}]
NoProject == Project(FALSE, Committed(Once, WithLocks("none", "none")), Twice, WithLocks("none", "none"), {})

Scenario == [config |-> Default, active |-> {a}, mode |-> [c \in {a, b} |-> "online"],
         package |-> Published(Release), advisories |-> <<{}>>, versions |-> {1, 2},
         approvals |-> {}, registrySpec |-> TRUE, scan |-> FALSE, project |-> NoProject,
         tool |-> [c \in {a, b} |-> "check"], root |-> "directory", strict |-> FALSE, reads |-> FALSE, required |-> {},
         documents |-> [policy |-> At0("good"), approvals |-> At0("good")],
         abortable |-> FALSE, cache |-> <<>>, clock |-> 2, moves |-> 0, crashes |-> 0, faults |-> 0]

Configs == {Default, StrictMode}
ApprovalFiles == {{}, {Approval}}

\* A server that fails twice, and an abort, under every kind of advisory list.
Failing ==
    {[Scenario EXCEPT !.config = g, !.approvals = e, !.advisories = l, !.faults = 2, !.abortable = TRUE] :
        g \in Configs, e \in ApprovalFiles,
        l \in {<<{Withdrawn}>>, <<{}, {Mal}>>, <<{Low}, {}, {Mal}>>, <<{Low, Mal, High}, {}>>}}

\* Offline, with whatever the cache may hold.
Cached ==
    {[Scenario EXCEPT !.config = g, !.approvals = e, !.mode[a] = "offline", !.advisories = <<{Mal}>>,
                  !.cache = n @@ o, !.moves = 1] :
        g \in Configs, e \in ApprovalFiles,
        n \in {NpmKey :> Entry(t, t + 2, Release) : t \in {0, 1, 3}}
              \cup {NpmKey :> [Entry(1, 3, Release) EXCEPT !.state = "garbage"]},
        o \in {OsvKey :> Entry(2, 3, {}), OsvKey :> Entry(0, 1, {}), <<>>}}

\* Processes and scan items that write the same entries, die and lose power.
Shared ==
    {[Scenario EXCEPT !.active = {a, b}, !.crashes = 1 - f, !.faults = f, !.abortable = TRUE,
                      !.scan = TRUE] : f \in {0, 1}}
    \cup {[Scenario EXCEPT !.active = {a, b}, !.mode[b] = "offline", !.crashes = 1, !.faults = f] :
            f \in {0, 1}}

\* One thing about the package, the request or the configuration that matters.
Packages ==
    {Published([Release EXCEPT !.created = 3]), Published([Release EXCEPT !.released = 2]),
     Published([Release EXCEPT !.released = Absent]), Published([Release EXCEPT !.semver = FALSE, !.version = 2]),
     Published([Release EXCEPT !.prerelease = TRUE, !.released = 2]),
     Published([Release EXCEPT !.deprecated = TRUE, !.repository = FALSE]),
     Published([Release EXCEPT !.similar = TRUE, !.scripts = {"install"}]),
     [kind |-> "missing"], [kind |-> "inconsistent"]}
Policies ==
    {Default, StrictMode, [Default EXCEPT !.npm = FALSE], [Default EXCEPT !.osv = FALSE],
     [Default EXCEPT !.onUnknownVersion = "error"], [Default EXCEPT !.onProviderError = "error"],
     [Default EXCEPT !.action["PG003"] = "allow"]}
Verdictal ==
    {[Scenario EXCEPT !.package = p, !.config = g, !.approvals = e, !.mode[a] = "no_cache",
                  !.advisories = <<l>>] :
        p \in Packages, g \in Policies,
        e \in {{}, {Approval}, {[Approval EXCEPT !.expiresAt = 2]}, {[Approval EXCEPT !.expiresAt = 4]}},
        l \in {{}, {High}, {Mal, High}}}
Others ==
    {[Scenario EXCEPT !.mode[a] = "both"], [Scenario EXCEPT !.registrySpec = FALSE, !.approvals = {Approval}],
     [Scenario EXCEPT !.mode[a] = "both", !.scan = TRUE,
                      !.project.work.manifest = Once]}

\* Scans of a manifest that is rewritten, and diffs of a project that is worked on.
Scanned ==
    {[Scenario EXCEPT !.active = {a, b}, !.scan = TRUE, !.abortable = x, !.mode[b] = "no_cache",
                      !.project.work.manifest = m, !.project.edits = 1,
                      !.project.manifests = {Once, Torn}] :
        m \in {Twice, Holds({}), Three, Gone, Linked({})}, x \in BOOLEAN}

Edited(p, n) == [p EXCEPT !.edits = n, !.manifests = {Once, Moved, Torn, Linked({})},
                          !.contents = {"none", "new"}, !.stages = {"package-lock.json"}]
Diffed ==
    {[Scenario EXCEPT !.active = {}, !.abortable = (n = 0), !.project = Edited(p, n)] :
        n \in {0, 1},
        p \in {Project(TRUE, Committed(c, WithLocks("old", "none")), w, WithLocks(k, "none"), i) :
                 c \in {Twice, Gone}, w \in {Once, Moved},
                 k \in {"none", "old", "new", "link"}, i \in {{}, {"package-lock.json"}}}}
    \cup {[Scenario EXCEPT !.active = {}, !.project = Edited(p, 2)] :
            p \in {Project(TRUE, Committed(Twice, WithLocks("old", "none")), Moved,
                            WithLocks(k, "none"), {"package-lock.json"}) : k \in {"old", "new"}}}

\* Checks that read the policy and the approvals while they are edited.
Reading ==
    {[Scenario EXCEPT !.config = [Default EXCEPT !.action["PG006"] = "review"], !.approvals = {Approval},
                      !.reads = TRUE, !.strict = (r = {}), !.required = r, !.abortable = (p = "bad"),
                      !.moves = IF p = "good" THEN 2 ELSE 1, !.mode[a] = "no_cache",
                      !.documents = [policy |-> At0(p), approvals |-> At0("good")]] :
        r \in {{}, {"policy"}, {"approvals"}}, p \in {"good", "bad", "link", "absent"}}

\* The doctor and the validators, while the cache or a document is changed.
Diagnosed ==
    {[Scenario EXCEPT !.tool[a] = t, !.reads = TRUE, !.approvals = r, !.root = k, !.moves = 1,
                      !.documents.policy = At0(p)] :
        t \in {"doctor", "policy_validate", "approvals_verify"},
        r \in {{Approval}, {Approval, [Approval EXCEPT !.expiresAt = 2]}, {[Approval EXCEPT !.expiresAt = 0]}},
        k \in {"directory", "missing"}, p \in {"good", "absent"}}

Checks == Diagnosed \cup Reading \cup Scanned \cup Diffed \cup Failing \cup Cached \cup Shared \cup Verdictal \cup Others
=============================================================================
