---------------------------- MODULE PolicyEngine ----------------------------
(***************************************************************************)
(* What the evidence about one package amounts to: the rules of            *)
(* policy/engine.ts, and the exceptions of approvals/index.ts.             *)
(*                                                                         *)
(* A finding is its rule, its verdict and whether an approval may resolve  *)
(* it; findings are a set.  Times are numbers; texts, evidence objects and *)
(* severities of findings are left out.                                    *)
(***************************************************************************)
EXTENDS Integers

CONSTANT Absent       \* a timestamp or an answer that is not there

Verdicts == {"allow", "warn", "review", "block", "error"}
Rank == [allow |-> 0, warn |-> 1, review |-> 2, block |-> 3, error |-> 4]

\* combineVerdicts: the highest, "allow" when there is none.
CombineVerdicts(vs) ==
    IF vs = {} THEN "allow" ELSE CHOOSE v \in vs : \A w \in vs : Rank[w] <= Rank[v]

Rules == {"PG001", "PG002", "PG003", "PG004", "PG005", "PG006", "PG007", "PG010", "PG011",
          "PG013", "PG015"}
Actions == {"allow", "warn", "review", "block"}

Finding(rule, verdict, approvable) ==
    [rule |-> rule, verdict |-> verdict, approvable |-> approvable]

\* createFinding: an action "allow" finds nothing.
Configured(config, rule, approvable) ==
    IF config.action[rule] = "allow" THEN {}
    ELSE {Finding(rule, config.action[rule], approvable)}

VerdictsOf(findings) == {f.verdict : f \in findings}

\* finalize: an evaluation error outranks the findings.
Finalize(findings, errors) ==
    [findings |-> findings, errors |-> errors,
     verdict |-> IF errors THEN "error" ELSE CombineVerdicts(VerdictsOf(findings))]

Strict(config) == config.mode = "strict" \/ config.onProviderError = "error"

\* providerUnavailable: only in review mode may an approval stand in.
Unavailable(config) == {Finding("PG013", "review", ~Strict(config))}

UnknownVersion(config) ==
    LET errors == config.onUnknownVersion = "error"
    IN Finalize({Finding("PG013", "review", ~errors)}, errors)

-----------------------------------------------------------------------------
(* The rules.  data is the npm metadata of the resolved version.           *)

\* A publication time in the future is no publication time.
Dated(time, now) == time # Absent /\ time <= now

PackageIsYoung(config, data, now) ==
    Dated(data.created, now) /\ now - data.created < config.minPackageAge

ReleaseIsFresh(config, data, now) ==
    Dated(data.released, now) /\ now - data.released < config.minReleaseAge

PrereleaseDisallowed(config, data) == data.prerelease /\ ~config.allowPrerelease

\* A forbidden prerelease is reviewed at least.
ReleaseFindings(config, data, now) ==
    IF PrereleaseDisallowed(config, data) /\ config.action["PG003"] \in {"allow", "warn"}
    THEN {Finding("PG003", "review", TRUE)}
    ELSE IF ReleaseIsFresh(config, data, now) \/ PrereleaseDisallowed(config, data)
    THEN Configured(config, "PG003", TRUE)
    ELSE {}

MetadataFindings(config, data, now) ==
    (IF Dated(data.created, now) /\ Dated(data.released, now) THEN {} ELSE Unavailable(config))
    \cup (IF PackageIsYoung(config, data, now) THEN Configured(config, "PG002", TRUE) ELSE {})
    \cup ReleaseFindings(config, data, now)
    \cup (IF data.deprecated THEN Configured(config, "PG004", TRUE) ELSE {})
    \cup (IF data.similar THEN Configured(config, "PG005", TRUE) ELSE {})
    \cup (IF ~data.repository THEN Configured(config, "PG006", TRUE) ELSE {})
    \cup (IF data.scripts \cap config.scripts # {} THEN Configured(config, "PG007", TRUE) ELSE {})

Malicious(records) == {r \in records : r.malicious}
Vulnerabilities(config, records) ==
    {r \in records : ~r.malicious /\ r.severity \in config.severities}

\* applyOsvFindings
OsvFindings(config, osv) ==
    IF ~config.osv THEN {}
    ELSE IF osv = Absent THEN Unavailable(config)
    ELSE IF ~osv.ok THEN Unavailable(config)
    ELSE (IF Malicious(osv.records) # {} THEN {Finding("PG010", "block", FALSE)} ELSE {})
         \cup (IF Vulnerabilities(config, osv.records) # {}
               THEN Configured(config, "PG011", TRUE) ELSE {})

EvaluationOf(config, findings) ==
    Finalize(findings, Strict(config) /\ \E f \in findings : f.rule = "PG013")

\* npm is Absent, [ok |-> TRUE, data |-> ...] or [ok |-> FALSE, status |-> ...].
EvaluatePolicy(config, registrySpec, npm, osv, now) ==
    CASE ~registrySpec -> Finalize(Configured(config, "PG015", TRUE), FALSE)
      [] registrySpec /\ (~config.npm \/ npm = Absent) ->
            EvaluationOf(config, Unavailable(config))
      [] OTHER ->
            IF ~npm.ok
            THEN IF npm.status = "not_found"
                 THEN Finalize({Finding("PG001", "block", FALSE)},
                               config.onUnknownVersion = "error")
                 ELSE EvaluationOf(config, Unavailable(config))
            ELSE IF ~npm.data.semver THEN UnknownVersion(config)
            ELSE EvaluationOf(config, MetadataFindings(config, npm.data, now)
                                      \cup OsvFindings(config, osv))

-----------------------------------------------------------------------------
(* Approvals.                                                              *)

\* approvalFileSchema: every approval ends after it began, and a version has one.
WellFormed(approvals) ==
    \A r \in approvals : /\ r.approvedAt < r.expiresAt
                          /\ \A s \in approvals : s.version = r.version => s = r

\* A record of the approval file, whose version is exact, and the resolved
\* version: approval is inclusive, expiry exclusive, policy bounds the window.
Matches(config, record, version, now) ==
    /\ record.version = version
    /\ record.approvedAt <= now /\ now < record.expiresAt
    /\ record.expiresAt - record.approvedAt <= config.maxValidity

\* Faulty variant: whoever approves knows what he does.
ResolvableBlocks(findings) == {f \in findings : f.verdict \in {"review", "block"}}

Resolvable(findings) == {f \in findings : f.verdict = "review" /\ f.approvable}

ApplyApprovals(config, approvals, evaluation, version, now) ==
    LET original == IF evaluation.errors THEN "error"
                    ELSE CombineVerdicts(VerdictsOf(evaluation.findings))
        matched == version # Absent /\ \E r \in approvals : Matches(config, r, version, now)
        resolvable == Resolvable(evaluation.findings)
    IN IF matched /\ original # "error" /\ resolvable # {}
       THEN [verdict |-> CombineVerdicts(VerdictsOf(evaluation.findings \ resolvable)),
             approved |-> TRUE]
       ELSE [verdict |-> original, approved |-> FALSE]
=============================================================================
