------------------------- MODULE PackageCheckProofs -------------------------
(***************************************************************************)
(* Proofs about the checks of packages, alone, of a scan or beside a diff, *)
(* for every set of scenarios whose documents the schemas accept, any      *)
(* number of callers and any bounds.                                       *)
(*                                                                         *)
(* The invariant of the checks (CheckInv) says of every check what its     *)
(* phase says of its fields, its temporary and its handle (LocalInv), and  *)
(* what is in the cache, the documents and the requests.  A check moves    *)
(* its own fields only, so there is one lemma per action, about the        *)
(* records before and after (Moved, MovedStep); Kill, PowerFails and the   *)
(* start of the checks of a scan are about all of them (ManySteps).        *)
(* ScanInv relates a scan to its checks, and CommandInv and CoverInv what  *)
(* the command has read to the project and to the checks.                  *)
(***************************************************************************)
EXTENDS DependencyScan, SequenceTheorems, FiniteSetTheorems, WellFoundedInduction, TLAPS

-----------------------------------------------------------------------------
(* The policy engine.                                                      *)

FindingSet == [rule : Rules, verdict : Actions, approvable : BOOLEAN]

\* combineVerdicts returns the highest verdict, or "allow" of none.
LEMMA CombineIsHighest ==
    ASSUME NEW vs \in SUBSET Verdicts
    PROVE  /\ CombineVerdicts(vs) \in Verdicts
           /\ vs # {} => CombineVerdicts(vs) \in vs
           /\ \A w \in vs : Rank[w] <= Rank[CombineVerdicts(vs)]
<1>1. CASE vs = {}
  BY <1>1 DEF CombineVerdicts, Verdicts
<1>2. CASE vs # {}
  <2>1. \E v \in vs : \A w \in vs : Rank[w] <= Rank[v]
    <3>1. CASE "error" \in vs
      BY <3>1 DEF Verdicts, Rank
    <3>2. CASE "error" \notin vs /\ "block" \in vs
      BY <3>2 DEF Verdicts, Rank
    <3>3. CASE "error" \notin vs /\ "block" \notin vs /\ "review" \in vs
      BY <3>3 DEF Verdicts, Rank
    <3>4. CASE "error" \notin vs /\ "block" \notin vs /\ "review" \notin vs /\ "warn" \in vs
      BY <3>4 DEF Verdicts, Rank
    <3>5. CASE vs = {"allow"}
      BY <3>5 DEF Verdicts, Rank
    <3>6. QED BY <1>2, <3>1, <3>2, <3>3, <3>4, <3>5 DEF Verdicts
  <2>2. PICK v \in vs : v = CombineVerdicts(vs) /\ \A w \in vs : Rank[w] <= Rank[v]
    BY <1>2, <2>1 DEF CombineVerdicts
  <2>3. QED BY <2>2
<1>3. QED BY <1>1, <1>2

\* So a verdict that admits is one of verdicts that all do.
LEMMA AdmittingVerdicts ==
    ASSUME NEW vs \in SUBSET Verdicts, Admits(CombineVerdicts(vs))
    PROVE  vs \subseteq {"allow", "warn"}
BY CombineIsHighest DEF Admits, Verdicts, Rank

LEMMA FindingsHaveVerdicts ==
    ASSUME NEW fs \in SUBSET FindingSet
    PROVE  VerdictsOf(fs) \in SUBSET Verdicts
BY DEF VerdictsOf, FindingSet, Verdicts, Actions

\* The findings of the rules, and how many a rule makes.
LEMMA FindingIsTyped ==
    ASSUME NEW rule \in Rules, NEW verdict \in Actions, NEW approvable \in BOOLEAN
    PROVE  /\ Finding(rule, verdict, approvable) \in FindingSet
           /\ Finding(rule, verdict, approvable).rule = rule
           /\ Finding(rule, verdict, approvable).verdict = verdict
           /\ Finding(rule, verdict, approvable).approvable = approvable
BY DEF Finding, FindingSet

Evaluations == [findings : SUBSET FindingSet, errors : BOOLEAN, verdict : Verdicts]

LEMMA FinalizeIsTyped ==
    ASSUME NEW fs \in SUBSET FindingSet, NEW errors \in BOOLEAN
    PROVE  /\ Finalize(fs, errors) \in Evaluations
           /\ Finalize(fs, errors).findings = fs
           /\ Finalize(fs, errors).errors = errors
<1>1. CombineVerdicts(VerdictsOf(fs)) \in Verdicts
  BY CombineIsHighest, FindingsHaveVerdicts
<1>2. "error" \in Verdicts
  BY DEF Verdicts
<1>3. QED BY <1>1, <1>2 DEF Finalize, Evaluations

LEMMA ConfiguredIsTyped ==
    ASSUME NEW g \in LegalConfigs, NEW rule \in Rules, NEW approvable \in BOOLEAN
    PROVE  Configured(g, rule, approvable) \in SUBSET FindingSet
<1>1. g.action[rule] \in Actions
  BY DEF LegalConfigs
<1>2. QED BY <1>1, FindingIsTyped DEF Configured

\* What the rules make of the configuration.
LEMMA ConfigIsTyped ==
    ASSUME NEW g \in LegalConfigs
    PROVE  /\ Strict(g) \in BOOLEAN
           /\ Unavailable(g) = {Finding("PG013", "review", ~Strict(g))}
           /\ Finding("PG013", "review", ~Strict(g)) \in FindingSet
           /\ Finding("PG013", "review", FALSE) \in FindingSet
           /\ Finding("PG013", "review", TRUE) \in FindingSet
           /\ Finding("PG003", "review", TRUE) \in FindingSet
           /\ Finding("PG001", "block", FALSE) \in FindingSet
           /\ Finding("PG010", "block", FALSE) \in FindingSet
           /\ UnknownVersion(g).errors \in BOOLEAN
<1>1. Strict(g) \in BOOLEAN
  BY DEF Strict
<1>2. {"PG001", "PG003", "PG010", "PG013"} \subseteq Rules /\ {"review", "block"} \subseteq Actions
  BY DEF Rules, Actions
<1>3. (~Strict(g)) \in BOOLEAN
  <2>1. \A b \in BOOLEAN : (~b) \in BOOLEAN
    OBVIOUS
  <2>2. QED BY <1>1, <2>1
<1>4. \A b \in BOOLEAN : Finding("PG013", "review", b) \in FindingSet
  BY <1>2, FindingIsTyped
<1>5. (g.onUnknownVersion = "error") \in BOOLEAN /\ (~(g.onUnknownVersion = "error")) \in BOOLEAN
  OBVIOUS
<1>6. UnknownVersion(g).errors \in BOOLEAN
  BY <1>4, <1>5, FinalizeIsTyped DEF UnknownVersion
<1>7. QED BY <1>1, <1>2, <1>3, <1>4, <1>6, FindingIsTyped DEF Unavailable

-----------------------------------------------------------------------------
\* The findings from the registry: its only PG013 is that of data it lacks.
LEMMA MetadataIsTyped ==
    ASSUME NEW g \in LegalConfigs, NEW data, NEW now
    PROVE  /\ MetadataFindings(g, data, now) \in SUBSET FindingSet
           /\ \A f \in MetadataFindings(g, data, now) :
                 f.rule = "PG013" => f = Finding("PG013", "review", ~Strict(g))
<1> DEFINE Named(fs, rule) == fs \in SUBSET FindingSet /\ \A f \in fs : f.rule = rule
<1>1. \A rule \in Rules : Named(Configured(g, rule, TRUE), rule)
  <2> TAKE rule \in Rules
  <2>1. g.action[rule] \in Actions
    BY DEF LegalConfigs
  <2>2. Configured(g, rule, TRUE) \in SUBSET FindingSet
    BY ConfiguredIsTyped
  <2>3. \A f \in Configured(g, rule, TRUE) : f.rule = rule
    <3>1. Finding(rule, g.action[rule], TRUE).rule = rule
      BY DEF Finding
    <3>2. QED BY <3>1 DEF Configured
  <2>4. QED BY <2>2, <2>3
<1>2. {"PG002", "PG003", "PG004", "PG005", "PG006", "PG007", "PG013"} \subseteq Rules
  BY DEF Rules
<1>3. Unavailable(g) \in SUBSET FindingSet
         /\ \A f \in Unavailable(g) : f = Finding("PG013", "review", ~Strict(g))
  BY ConfigIsTyped
<1>4. Named({}, "PG002") /\ Named({}, "PG003") /\ Named({}, "PG004") /\ Named({}, "PG005")
         /\ Named({}, "PG006") /\ Named({}, "PG007")
  OBVIOUS
<1>5. Named({Finding("PG003", "review", TRUE)}, "PG003")
  <2>1. Finding("PG003", "review", TRUE) \in FindingSet
    BY ConfigIsTyped
  <2>2. Finding("PG003", "review", TRUE).rule = "PG003"
    BY DEF Finding
  <2>3. QED BY <2>1, <2>2
<1>6. Named(ReleaseFindings(g, data, now), "PG003")
  <2> HIDE DEF Named
  <2>1. Named(Configured(g, "PG003", TRUE), "PG003")
    BY <1>1, <1>2
  <2>2. QED BY <2>1, <1>4, <1>5 DEF ReleaseFindings
<1> DEFINE A == IF Dated(data.created, now) /\ Dated(data.released, now) THEN {} ELSE Unavailable(g)
           B == IF PackageIsYoung(g, data, now) THEN Configured(g, "PG002", TRUE) ELSE {}
           C == ReleaseFindings(g, data, now)
           D == IF data.deprecated THEN Configured(g, "PG004", TRUE) ELSE {}
           E == IF data.similar THEN Configured(g, "PG005", TRUE) ELSE {}
           F == IF ~data.repository THEN Configured(g, "PG006", TRUE) ELSE {}
           G == IF data.scripts \cap g.scripts # {} THEN Configured(g, "PG007", TRUE) ELSE {}
<1>7. MetadataFindings(g, data, now) = A \cup B \cup C \cup D \cup E \cup F \cup G
  BY DEF MetadataFindings
<1>8. A \in SUBSET FindingSet /\ \A f \in A : f = Finding("PG013", "review", ~Strict(g))
  BY <1>3
<1>9. Named(B, "PG002") /\ Named(C, "PG003") /\ Named(D, "PG004") /\ Named(E, "PG005")
         /\ Named(F, "PG006") /\ Named(G, "PG007")
  <2> HIDE DEF Named
  <2>1. QED BY <1>1, <1>2, <1>4, <1>6
<1>10. QED
  <2> HIDE DEF A, B, C, D, E, F, G
  <2>1. A \cup B \cup C \cup D \cup E \cup F \cup G \in SUBSET FindingSet
    BY <1>8, <1>9
  <2>2. ASSUME NEW f \in A \cup B \cup C \cup D \cup E \cup F \cup G, f.rule = "PG013"
        PROVE  f \in A
    BY <2>2, <1>9
  <2>3. QED BY <1>7, <1>8, <2>1, <2>2

\* The findings from the advisories: none is left out.
LEMMA OsvFindingsAreTyped ==
    ASSUME NEW g \in LegalConfigs, NEW osv
    PROVE  /\ OsvFindings(g, osv) \in SUBSET FindingSet
           /\ \A f \in OsvFindings(g, osv) :
                 f.rule = "PG013" => f = Finding("PG013", "review", ~Strict(g))
           /\ g.osv /\ (osv = Absent \/ ~osv.ok)
                => Finding("PG013", "review", ~Strict(g)) \in OsvFindings(g, osv)
           /\ g.osv /\ osv # Absent /\ osv.ok /\ Malicious(osv.records) # {}
                => Finding("PG010", "block", FALSE) \in OsvFindings(g, osv)
           /\ g.osv /\ osv # Absent /\ osv.ok /\ Vulnerabilities(g, osv.records) # {}
                => Configured(g, "PG011", TRUE) \subseteq OsvFindings(g, osv)
<1>1. g.action["PG011"] \in Actions /\ "PG011" \in Rules
  BY DEF LegalConfigs, Rules
<1>2. Configured(g, "PG011", TRUE) \in SUBSET FindingSet
         /\ \A f \in Configured(g, "PG011", TRUE) : f.rule = "PG011"
  <2>1. Configured(g, "PG011", TRUE) \in SUBSET FindingSet
    BY <1>1, ConfiguredIsTyped
  <2>2. Finding("PG011", g.action["PG011"], TRUE).rule = "PG011"
    BY DEF Finding
  <2>3. QED BY <2>1, <2>2 DEF Configured
<1>3. Finding("PG010", "block", FALSE).rule = "PG010" /\ Finding("PG010", "block", FALSE) \in FindingSet
  BY ConfigIsTyped DEF Finding
<1>4. Unavailable(g) = {Finding("PG013", "review", ~Strict(g))}
         /\ Finding("PG013", "review", ~Strict(g)) \in FindingSet
  BY ConfigIsTyped
<1>5. QED BY <1>2, <1>3, <1>4 DEF OsvFindings

LEMMA EvaluationIsTyped ==
    ASSUME NEW g \in LegalConfigs, NEW npm, NEW osv, NEW now, NEW spec \in BOOLEAN
    PROVE  EvaluatePolicy(g, spec, npm, osv, now) \in Evaluations
<1>1. Configured(g, "PG015", TRUE) \in SUBSET FindingSet
  BY ConfiguredIsTyped DEF Rules
<1>2. {Finding("PG001", "block", FALSE)} \in SUBSET FindingSet /\ Unavailable(g) \in SUBSET FindingSet
  BY ConfigIsTyped
<1>3. \A fs \in SUBSET FindingSet : EvaluationOf(g, fs) \in Evaluations
  <2> TAKE fs \in SUBSET FindingSet
  <2>1. (Strict(g) /\ \E f \in fs : f.rule = "PG013") \in BOOLEAN
    BY ConfigIsTyped
  <2>2. QED BY <2>1, FinalizeIsTyped DEF EvaluationOf
<1>4. UnknownVersion(g) \in Evaluations
  <2>1. (g.onUnknownVersion = "error") \in BOOLEAN /\ (~(g.onUnknownVersion = "error")) \in BOOLEAN
    OBVIOUS
  <2>2. "PG013" \in Rules /\ "review" \in Actions
    BY DEF Rules, Actions
  <2>3. \A b \in BOOLEAN : Finding("PG013", "review", b) \in FindingSet
    BY <2>2, FindingIsTyped
  <2>4. {Finding("PG013", "review", ~(g.onUnknownVersion = "error"))} \in SUBSET FindingSet
    BY <2>1, <2>3
  <2>5. QED BY <2>1, <2>4, FinalizeIsTyped DEF UnknownVersion
<1>5. MetadataFindings(g, npm.data, now) \cup OsvFindings(g, osv) \in SUBSET FindingSet
  BY MetadataIsTyped, OsvFindingsAreTyped
<1>6. (g.onUnknownVersion = "error") \in BOOLEAN /\ FALSE \in BOOLEAN
  OBVIOUS
<1>7. CASE ~spec
  <2>1. EvaluatePolicy(g, spec, npm, osv, now) = Finalize(Configured(g, "PG015", TRUE), FALSE)
    BY <1>7 DEF EvaluatePolicy
  <2>2. QED BY <2>1, <1>1, <1>6, FinalizeIsTyped
<1>8. CASE spec /\ (~g.npm \/ npm = Absent)
  BY <1>8, <1>2, <1>3 DEF EvaluatePolicy
<1>9. CASE spec /\ g.npm /\ npm # Absent
  <2>1. Finalize({Finding("PG001", "block", FALSE)}, g.onUnknownVersion = "error") \in Evaluations
    BY <1>2, <1>6, FinalizeIsTyped
  <2>2. QED BY <1>9, <2>1, <1>2, <1>3, <1>4, <1>5 DEF EvaluatePolicy
<1>10. QED BY <1>7, <1>8, <1>9

\* requireLiveEvidence adds to the findings, and cached evidence has a PG013.
LEMMA LiveEvaluation ==
    ASSUME NEW g \in LegalConfigs, NEW e \in Evaluations, NEW cached \in BOOLEAN
    PROVE  /\ RequireLive(g, e, cached) \in Evaluations
           /\ e.findings \subseteq RequireLive(g, e, cached).findings
           /\ cached => \E f \in RequireLive(g, e, cached).findings :
                            /\ f.rule = "PG013"
                            /\ f \in e.findings \/ f = Finding("PG013", "review", FALSE)
<1>1. e.findings \in SUBSET FindingSet /\ e.errors \in BOOLEAN
  BY DEF Evaluations
<1>2. Finding("PG013", "review", FALSE).rule = "PG013" /\ Finding("PG013", "review", FALSE) \in FindingSet
  BY ConfigIsTyped DEF Finding
<1> DEFINE fs == e.findings \cup {Finding("PG013", "review", FALSE)}
<1>3. fs \in SUBSET FindingSet
  BY <1>1, <1>2
<1>4. (e.errors \/ Strict(g)) \in BOOLEAN
  BY <1>1, ConfigIsTyped
<1>5. Finalize(fs, e.errors \/ Strict(g)) \in Evaluations /\ Finalize(fs, e.errors \/ Strict(g)).findings = fs
  BY <1>3, <1>4, FinalizeIsTyped
<1>6. CASE ~cached \/ \E f \in e.findings : f.rule = "PG013"
  BY <1>6 DEF RequireLive
<1>7. CASE ~(~cached \/ \E f \in e.findings : f.rule = "PG013")
  BY <1>7, <1>5, <1>2 DEF RequireLive
<1>8. QED BY <1>6, <1>7

-----------------------------------------------------------------------------
Stands(f) == f.verdict \in {"allow", "warn"}

\* applyApprovals: a block stays, and whatever an admission leaves standing
\* was lifted by an approval that matches.
LEMMA ApprovalsApplied ==
    ASSUME NEW g, NEW approvals, NEW e \in Evaluations, NEW version, NEW now,
           NEW a, a = ApplyApprovals(g, approvals, e, version, now)
    PROVE  /\ a.verdict \in Verdicts /\ a.approved \in BOOLEAN
           /\ a.approved => version # Absent /\ \E r \in approvals : Matches(g, r, version, now)
           /\ \A f \in e.findings : f.verdict = "block" => a.verdict \in {"block", "error"}
           /\ Admits(a.verdict) =>
                 \A f \in e.findings : Stands(f) \/ (a.approved /\ f.verdict = "review" /\ f.approvable)
<1> DEFINE fs == e.findings
           original == IF e.errors THEN "error" ELSE CombineVerdicts(VerdictsOf(fs))
           matched == version # Absent /\ \E r \in approvals : Matches(g, r, version, now)
           left == fs \ Resolvable(fs)
<1>1. fs \in SUBSET FindingSet /\ e.errors \in BOOLEAN /\ left \in SUBSET FindingSet
  BY DEF Evaluations
<1>2. VerdictsOf(fs) \in SUBSET Verdicts /\ VerdictsOf(left) \in SUBSET Verdicts
  BY <1>1, FindingsHaveVerdicts
<1>3. CombineVerdicts(VerdictsOf(fs)) \in Verdicts /\ CombineVerdicts(VerdictsOf(left)) \in Verdicts
  BY <1>2, CombineIsHighest
<1>4. \A vs \in SUBSET Verdicts : "block" \in vs => CombineVerdicts(vs) \in {"block", "error"}
  BY CombineIsHighest DEF Verdicts, Rank
<1>5. \A vs \in SUBSET Verdicts : Admits(CombineVerdicts(vs)) => vs \subseteq {"allow", "warn"}
  BY AdmittingVerdicts
<1>6. \A f \in fs : f.verdict \in VerdictsOf(fs)
  BY DEF VerdictsOf
<1>7. \A f \in left : f.verdict \in VerdictsOf(left)
  BY DEF VerdictsOf
<1>8. \A f \in fs : f \in left \/ (f.verdict = "review" /\ f.approvable)
  BY DEF Resolvable
<1>9. "error" \in Verdicts /\ ~Admits("error")
  BY DEF Verdicts, Admits
<1>10. CASE matched /\ original # "error" /\ Resolvable(fs) # {}
  <2>1. a = [verdict |-> CombineVerdicts(VerdictsOf(left)), approved |-> TRUE]
    BY <1>10 DEF ApplyApprovals
  <2>2. a.verdict = CombineVerdicts(VerdictsOf(left)) /\ a.approved = TRUE
    BY <2>1
  <2>3. \A f \in fs : f.verdict = "block" => a.verdict \in {"block", "error"}
    <3>1. ASSUME NEW f \in fs, f.verdict = "block"
          PROVE  "block" \in VerdictsOf(left)
      BY <3>1, <1>7, <1>8
    <3>2. QED BY <3>1, <2>2, <1>2, <1>4
  <2>4. Admits(a.verdict) => \A f \in fs : Stands(f) \/ (f.verdict = "review" /\ f.approvable)
    <3>1. ASSUME Admits(a.verdict) PROVE VerdictsOf(left) \subseteq {"allow", "warn"}
      BY <3>1, <2>2, <1>2, <1>5
    <3>2. QED BY <3>1, <1>7, <1>8 DEF Stands
  <2>5. QED BY <1>10, <1>3, <2>2, <2>3, <2>4
<1>11. CASE ~(matched /\ original # "error" /\ Resolvable(fs) # {})
  <2>1. a = [verdict |-> original, approved |-> FALSE]
    BY <1>11 DEF ApplyApprovals
  <2>2. a.verdict = original /\ a.approved = FALSE
    BY <2>1
  <2>3. original \in Verdicts
    BY <1>3, <1>9
  <2>4. \A f \in fs : f.verdict = "block" => a.verdict \in {"block", "error"}
    BY <2>2, <1>2, <1>4, <1>6
  <2>5. Admits(a.verdict) => \A f \in fs : Stands(f)
    <3>1. ASSUME Admits(a.verdict) PROVE VerdictsOf(fs) \subseteq {"allow", "warn"}
      BY <3>1, <2>2, <1>2, <1>5, <1>9
    <3>2. QED BY <3>1, <1>6 DEF Stands
  <2>6. QED BY <2>2, <2>3, <2>4, <2>5
<1>12. QED BY <1>10, <1>11

\* What an evaluation is made of.
LEMMA FinalFindings ==
    /\ \A fs, errors : Finalize(fs, errors).findings = fs
    /\ \A g, fs : EvaluationOf(g, fs).findings = fs
    /\ \A g : UnknownVersion(g).findings = {Finding("PG013", "review", ~(g.onUnknownVersion = "error"))}
    /\ \A g, fs : Finalize(fs, g.onUnknownVersion = "error").findings = fs
BY DEF Finalize, EvaluationOf, UnknownVersion

\* A package that is missing or malicious is blocked by a finding.
LEMMA MaliceIsFound ==
    ASSUME NEW g \in LegalConfigs, NEW npm, NEW osv, NEW now, g.npm,
           \/ npm = Failed("not_found")
           \/ /\ npm # Absent /\ npm.ok /\ npm.data.semver
              /\ g.osv /\ osv # Absent /\ osv.ok /\ Malicious(osv.records) # {}
    PROVE  \E f \in EvaluatePolicy(g, TRUE, npm, osv, now).findings : f.verdict = "block"
<1> DEFINE e == EvaluatePolicy(g, TRUE, npm, osv, now)
<1>1. CASE npm = Failed("not_found")
  <2>1. npm # Absent /\ npm.ok = FALSE /\ npm.status = "not_found"
    BY <1>1, AbsentAssumption DEF Failed
  <2>2. e = Finalize({Finding("PG001", "block", FALSE)}, g.onUnknownVersion = "error")
    BY <2>1 DEF EvaluatePolicy
  <2>3. e.findings = {Finding("PG001", "block", FALSE)}
    <3> HIDE DEF e
    <3>1. QED BY <2>2, FinalFindings
  <2>4. Finding("PG001", "block", FALSE).verdict = "block"
    BY DEF Finding
  <2>5. QED BY <2>3, <2>4
<1>2. CASE /\ npm # Absent /\ npm.ok /\ npm.data.semver
           /\ g.osv /\ osv # Absent /\ osv.ok /\ Malicious(osv.records) # {}
  <2>1. e = EvaluationOf(g, MetadataFindings(g, npm.data, now) \cup OsvFindings(g, osv))
    BY <1>2 DEF EvaluatePolicy
  <2>2. e.findings = MetadataFindings(g, npm.data, now) \cup OsvFindings(g, osv)
    <3> HIDE DEF e
    <3>1. QED BY <2>1, FinalFindings
  <2>3. Finding("PG010", "block", FALSE) \in e.findings
    <3> HIDE DEF e
    <3>1. QED BY <1>2, <2>2, OsvFindingsAreTyped
  <2>4. Finding("PG010", "block", FALSE).verdict = "block"
    BY DEF Finding
  <2>5. QED BY <2>3, <2>4
<1>3. QED BY <1>1, <1>2

\* What an admission rests on, without an approval or under the strict mode.
LEMMA AdmissionIsLive ==
    ASSUME NEW g \in LegalConfigs, NEW approvals, NEW npm, NEW osv, NEW now,
           NEW cached \in BOOLEAN, NEW version, NEW a,
           a = ApplyApprovals(g, approvals,
                 RequireLive(g, EvaluatePolicy(g, TRUE, npm, osv, now), cached), version, now),
           Admits(a.verdict), ~a.approved \/ Strict(g),
           npm # Absent /\ npm.ok /\ ~npm.data.semver => ~a.approved
    PROVE  /\ npm # Absent /\ npm.ok /\ ~cached
           /\ g.osv => osv # Absent /\ osv.ok /\ Malicious(osv.records) = {}
           /\ ~a.approved /\ g.osv /\ g.action["PG011"] \in {"review", "block"}
                 => Vulnerabilities(g, osv.records) = {}
<1> DEFINE e == EvaluatePolicy(g, TRUE, npm, osv, now)
           l == RequireLive(g, e, cached)
           Fine(f) == Stands(f) \/ (a.approved /\ f.verdict = "review" /\ f.approvable)
           absent == Finding("PG013", "review", ~Strict(g))
           all == MetadataFindings(g, npm.data, now) \cup OsvFindings(g, osv)
<1>1. e \in Evaluations /\ l \in Evaluations
  BY EvaluationIsTyped, LiveEvaluation
<1>2. (\A f \in l.findings : Fine(f)) /\ a.approved \in BOOLEAN
  <2>1. a = ApplyApprovals(g, approvals, l, version, now)
    OBVIOUS
  <2> HIDE DEF l
  <2>2. QED BY <1>1, <2>1, ApprovalsApplied
<1>3. \A f \in e.findings : Fine(f)
  BY <1>1, <1>2, LiveEvaluation
<1>4. ~Fine(absent) /\ ~Fine(Finding("PG013", "review", FALSE)) /\ ~Fine(Finding("PG010", "block", FALSE))
         /\ ~Fine(Finding("PG001", "block", FALSE))
  BY DEF Finding, Stands
<1>6. absent \in EvaluationOf(g, Unavailable(g)).findings
  <2>1. EvaluationOf(g, Unavailable(g)).findings = Unavailable(g)
    BY FinalFindings
  <2>2. QED BY <2>1, ConfigIsTyped
<1>7. g.npm /\ npm # Absent
  <2>1. CASE ~g.npm \/ npm = Absent
    <3>1. e = EvaluationOf(g, Unavailable(g))
      BY <2>1 DEF EvaluatePolicy
    <3>2. QED BY <3>1, <1>3, <1>4, <1>6
  <2>2. QED BY <2>1
<1>8. npm.ok
  <2>1. CASE ~npm.ok /\ npm.status = "not_found"
    <3>1. e = Finalize({Finding("PG001", "block", FALSE)}, g.onUnknownVersion = "error")
      BY <2>1, <1>7 DEF EvaluatePolicy
    <3> HIDE DEF e
    <3>2. e.findings = {Finding("PG001", "block", FALSE)}
      BY <3>1, FinalFindings
    <3>3. QED BY <3>2, <1>3, <1>4
  <2>2. CASE ~npm.ok /\ npm.status # "not_found"
    <3>1. e = EvaluationOf(g, Unavailable(g))
      BY <2>2, <1>7 DEF EvaluatePolicy
    <3>2. QED BY <3>1, <1>3, <1>4, <1>6
  <2>3. QED BY <2>1, <2>2
<1>9. npm.data.semver
  <2>1. CASE ~npm.data.semver
    <3>1. e = UnknownVersion(g)
      BY <2>1, <1>7, <1>8 DEF EvaluatePolicy
    <3> DEFINE f == Finding("PG013", "review", ~(g.onUnknownVersion = "error"))
    <3>2. e.findings = {f}
      BY <3>1, FinalFindings
    <3>3. f.verdict = "review" /\ ~Stands(f)
      BY DEF Finding, Stands
    <3>4. ~a.approved
      BY <2>1, <1>7, <1>8
    <3> HIDE DEF f
    <3>5. QED BY <3>2, <3>3, <3>4, <1>3
  <2>2. QED BY <2>1
<1>10. e = EvaluationOf(g, all)
  BY <1>7, <1>8, <1>9 DEF EvaluatePolicy
<1>12. e.findings = all
  <2> HIDE DEF e, all
  <2>1. QED BY <1>10, FinalFindings
<1>13. ~cached
  <2>1. ASSUME cached PROVE FALSE
    <3>1. PICK f \in l.findings : f.rule = "PG013" /\ (f \in e.findings \/ f = Finding("PG013", "review", FALSE))
      BY <2>1, <1>1, LiveEvaluation
    <3>2. f \in e.findings => f = absent
      BY <3>1, <1>12, MetadataIsTyped, OsvFindingsAreTyped
    <3>3. QED BY <3>1, <3>2, <1>2, <1>4
  <2>2. QED BY <2>1
<1>14. ASSUME g.osv PROVE osv # Absent /\ osv.ok
  BY <1>14, <1>12, <1>3, <1>4, OsvFindingsAreTyped
<1>15. ASSUME g.osv PROVE Malicious(osv.records) = {}
  BY <1>15, <1>14, <1>12, <1>3, <1>4, OsvFindingsAreTyped
<1>16. ASSUME ~a.approved, g.osv, g.action["PG011"] \in {"review", "block"}
       PROVE  Vulnerabilities(g, osv.records) = {}
  <2> DEFINE f == Finding("PG011", g.action["PG011"], TRUE)
  <2>1. Configured(g, "PG011", TRUE) = {f}
    BY <1>16 DEF Configured
  <2>2. ~Fine(f)
    BY <1>16 DEF Finding, Stands
  <2> HIDE DEF f
  <2>3. QED BY <2>1, <2>2, <1>16, <1>14, <1>12, <1>3, OsvFindingsAreTyped
<1>17. QED BY <1>7, <1>8, <1>13, <1>14, <1>15, <1>16

-----------------------------------------------------------------------------
(* The invariant.                                                          *)

JobFields == DOMAIN NoJob
Doctoring == {"root", "mkdir", "probe", "unprobe", "report"}
Reading == {"inspect", "document", "reading"}
Early == {"idle", "start"} \cup Doctoring \cup Reading
Storing == {"create", "fill", "sync", "rename", "published", "discard"}
Late == {"lookup", "asked", "open", "parse", "evaluate"} \cup Storing

\* Config, Advisories and Live of a check, apart from the state.
PolicyOf(s, j) ==
    LET read == IF j.policy = "default" THEN Defaults ELSE s.config
    IN IF s.strict THEN [read EXCEPT !.mode = "strict"] ELSE read
KnownUpTo(s, n) == UNION {RecordsOn(s.advisories[i]) : i \in 1..n}
AdvisoriesOf(s) == UNION {RecordsOn(s.advisories[i]) : i \in DOMAIN s.advisories}

GoodNpm(s, npm) == npm.ok = TRUE /\ npm.data \in NpmData(s)

JobType(j) ==
    /\ DOMAIN j = JobFields
    /\ j.phase \in JobPhases /\ j.at \in {"npm", "osv"} /\ j.doc \in {"policy", "approvals"}
    /\ j.page \in 1..MaxPages
    /\ IsFiniteSet(j.records) /\ Cardinality(j.records) <= MaxRecords
    /\ j.npmFrom \in {"none", "live", "cache"} /\ j.osvFrom \in {"none", "live", "cache"}
    /\ j.policy \in {"given", "default", "file", "invalid"}
    /\ j.approvals \in {"given", "default", "file", "invalid"}
    /\ j.cache \in {"none", "writable", "unwritable", "unsafe"}
    /\ j.outcome \in Outcomes
    /\ (j.phase = "done") = (j.outcome # "none")

\* Nothing is known before the documents are read.
EarlyOK(j) ==
    j.phase \in Early =>
       /\ j.npm = Absent /\ j.osv = Absent /\ j.at = "npm"
       /\ j.npmFrom = "none" /\ j.osvFrom = "none" /\ j.page = 1 /\ j.records = {}

\* What the evidence is.
NpmOK(s, j) == j.npm # Absent /\ j.npm.ok => j.npmFrom # "none" /\ j.npm.data \in NpmData(s)
OsvOK(s, j) ==
    j.osv # Absent =>
       /\ PolicyOf(s, j).osv
       /\ j.osv.ok => j.osvFrom # "none" /\ (j.osvFrom = "live" => j.osv.records = AdvisoriesOf(s))
AtOK(s, j) == j.at = "osv" => PolicyOf(s, j).osv /\ GoodNpm(s, j.npm)
PageOK(s, j) == j.page \in DOMAIN s.advisories /\ j.records = KnownUpTo(s, j.page - 1)
StoreOK(s, j) == j.phase \in Storing /\ j.at = "npm" => GoodNpm(s, j.npm)
SpecOK(s, j) ==
    ~s.registrySpec => j.npm = Absent /\ j.osv = Absent /\ j.phase \notin Late \ {"evaluate"}

\* Where the documents came from, and who does what.
DocOK(s, c, j) ==
    j.policy = "default" =>
       s.tool[c] = "doctor" \/ (s.tool[c] = "check" /\ "policy" \notin s.required)
ToolOK(s, c, j) ==
    /\ s.tool[c] = "doctor" =>
          j.phase \notin Late /\ j.outcome \in {"none", "cancelled", "invalid", "ready", "attention"}
    /\ j.phase \in Doctoring => s.tool[c] = "doctor"
    /\ s.tool[c] = "check" => j.outcome \in {"none", "cancelled", "invalid"} \cup Verdicts

\* What a verdict rests on.
MaliceOK(s, j) ==
    /\ PolicyOf(s, j).npm
    /\ \/ j.npm = Failed("not_found")
       \/ /\ j.npm # Absent /\ j.npm.ok /\ j.npm.data.semver
          /\ j.osv # Absent /\ j.osv.ok /\ Malicious(j.osv.records) # {}
    => j.outcome \in {"block", "error"}
AdmissionOK(s, j) ==
    Admits(j.outcome) =>
       /\ j.approved => j.approvals # "default"
       /\ s.registrySpec /\ (~j.approved \/ Strict(PolicyOf(s, j))) =>
             /\ j.npmFrom = "live"
             /\ PolicyOf(s, j).osv => j.osvFrom = "live" /\ Malicious(AdvisoriesOf(s)) = {}
             /\ ~j.approved /\ PolicyOf(s, j).osv
                   /\ PolicyOf(s, j).action["PG011"] \in {"review", "block"}
                => Vulnerabilities(PolicyOf(s, j), AdvisoriesOf(s)) = {}
VerdictOK(s, j) == j.outcome \in Verdicts => MaliceOK(s, j) /\ AdmissionOK(s, j)

JobOK(s, c, j) ==
    /\ JobType(j) /\ EarlyOK(j)
    /\ NpmOK(s, j) /\ OsvOK(s, j) /\ AtOK(s, j) /\ PageOK(s, j) /\ StoreOK(s, j) /\ SpecOK(s, j)
    /\ DocOK(s, c, j) /\ ToolOK(s, c, j) /\ VerdictOK(s, j)

\* The files of a check: a temporary file, and an entry that it has opened.
IsRecord(e) ==
    /\ e.state \in {"partial", "unsynced", "synced", "garbage"}
    /\ e.storedAt \in Int /\ e.expiresAt \in Int
    /\ DOMAIN e = {"state", "storedAt", "expiresAt", "payload"}

TempOK(s, c, j, t) ==
    /\ t = None \/ IsRecord(t)
    /\ j.phase \in {"fill", "sync", "rename"} =>
          IsRecord(t) /\ (j.at = "npm" => t.payload \in NpmData(s))
    /\ j.phase = "rename" => t.state = "synced"
    /\ t # None =>
          \/ j.phase \in {"fill", "sync", "rename", "discard", "unprobe", "dead"}
          \/ /\ s.tool[c] = "doctor" /\ j.cache \in {"unwritable", "unsafe"}
             /\ j.phase \in Reading \cup {"report"}
          \/ j.outcome = "attention"

EntryOK(s, k, e) ==
    e = None \/ /\ IsRecord(e) /\ e.state \in {"synced", "garbage"}
                /\ k = NpmKey /\ e.state = "synced" => e.payload \in NpmData(s)

HandleOK(s, j, h) ==
    /\ h = None \/ IsRecord(h)
    /\ j.phase = "parse" =>
          IsRecord(h) /\ h.state \in {"synced", "garbage"}
          /\ (j.at = "npm" /\ h.state = "synced" => h.payload \in NpmData(s))

LocalOK(s, c, j, t, h) == JobOK(s, c, j) /\ TempOK(s, c, j, t) /\ HandleOK(s, j, h)

\* The inductive invariant of the checks.
LocalInv ==
    /\ scenario \in Scenarios
    /\ DOMAIN job = Callers /\ DOMAIN temp = Callers /\ DOMAIN handle = Callers
    /\ \A c \in Active : LocalOK(scenario, c, job[c], temp[c], handle[c])
EntryInv == DOMAIN entry = Keys /\ \A k \in Keys : EntryOK(scenario, k, entry[k])
DocumentInv ==
    /\ DOMAIN documents = {"policy", "approvals"}
    /\ \A d \in {"policy", "approvals"} :
          DOMAIN documents[d] = {"ino", "content", "gone"} /\ IsDocument(documents[d])
    /\ \A c \in Active : job[c].policy = "default" => documents["policy"].gone
PausingInv == \A c \in Callers : call[c].phase = "pausing" => call[c].attempt < MaxRetries
HttpInv == HttpTypeOK /\ PausingInv /\ (aborted # {} => scenario.abortable)
CheckInv == LocalInv /\ EntryInv /\ DocumentInv /\ HttpInv /\ clock \in 0..MaxClock

-----------------------------------------------------------------------------
(* What a step of one check has to keep.                                   *)

\* The record r is j, apart from the fields fs.
SameBut(j, r, fs) == DOMAIN r = JobFields /\ \A f \in JobFields \ fs : r[f] = j[f]

LEMMA Fields ==
    JobFields = {"phase", "cache", "doc", "seen", "held", "policy", "approvals", "at", "now",
                 "page", "records", "npm", "osv", "npmFrom", "osvFrom", "outcome", "approved"}
BY DEF JobFields, NoJob

LEMMA ScenarioIsTyped ==
    ASSUME NEW s \in Scenarios
    PROVE  IsScenario(s)
BY ScenarioAssumption

\* The policy of a check is one that the schema accepts.
LEMMA PolicyIsLegal ==
    ASSUME NEW s \in Scenarios, NEW j
    PROVE  PolicyOf(s, j) \in LegalConfigs /\ (s.strict => Strict(PolicyOf(s, j)))
<1>1. Defaults \in LegalConfigs /\ s.config \in LegalConfigs
  BY ScenarioAssumption DEF IsScenario
<1> DEFINE read == IF j.policy = "default" THEN Defaults ELSE s.config
<1>2. read \in LegalConfigs
  BY <1>1
<1>3. [read EXCEPT !.mode = "strict"] \in LegalConfigs /\ [read EXCEPT !.mode = "strict"].mode = "strict"
  <2> HIDE DEF read
  <2>1. QED BY <1>2 DEF LegalConfigs
<1>4. PolicyOf(s, j) = IF s.strict THEN [read EXCEPT !.mode = "strict"] ELSE read
  BY DEF PolicyOf
<1>5. QED
  <2> HIDE DEF read
  <2>1. QED BY <1>2, <1>3, <1>4 DEF Strict

\* A step that learns nothing about the package.
LEMMA Moved ==
    ASSUME NEW s \in Scenarios, NEW c, NEW j, NEW r, JobOK(s, c, j),
           SameBut(j, r, {"phase", "cache", "doc", "seen", "held", "now", "outcome", "approvals"}),
           JobType(r), r.outcome \notin Verdicts,
           r.phase \in Early => j.phase \in Early,
           r.phase \in Storing => j.phase \in Storing,
           s.registrySpec \/ r.phase \notin Late \ {"evaluate"},
           s.tool[c] = "doctor" =>
              r.phase \notin Late /\ r.outcome \in {"none", "cancelled", "invalid", "ready", "attention"},
           s.tool[c] = "check" => r.outcome \in {"none", "cancelled", "invalid"},
           r.phase \in Doctoring => s.tool[c] = "doctor"
    PROVE  JobOK(s, c, r)
<1>1. /\ r.npm = j.npm /\ r.osv = j.osv /\ r.npmFrom = j.npmFrom /\ r.osvFrom = j.osvFrom
      /\ r.at = j.at /\ r.page = j.page /\ r.records = j.records /\ r.policy = j.policy
  BY Fields DEF SameBut
<1>2. PolicyOf(s, r) = PolicyOf(s, j)
  BY <1>1 DEF PolicyOf
<1>3. EarlyOK(r)
  BY <1>1 DEF JobOK, EarlyOK
<1>4. NpmOK(s, r) /\ OsvOK(s, r) /\ AtOK(s, r) /\ PageOK(s, r)
  BY <1>1, <1>2 DEF JobOK, NpmOK, OsvOK, AtOK, PageOK
<1>5. StoreOK(s, r) /\ SpecOK(s, r)
  BY <1>1 DEF JobOK, StoreOK, SpecOK
<1>6. DocOK(s, c, r) /\ ToolOK(s, c, r) /\ VerdictOK(s, r)
  BY <1>1 DEF JobOK, DocOK, ToolOK, VerdictOK
<1>7. QED BY <1>3, <1>4, <1>5, <1>6 DEF JobOK

\* A step of one check, and of its files.
Steps(c, r, t, h) ==
    /\ DOMAIN job' = Callers /\ job'[c] = r /\ \A d \in Callers \ {c} : job'[d] = job[d]
    /\ DOMAIN temp' = Callers /\ temp'[c] = t /\ \A d \in Callers \ {c} : temp'[d] = temp[d]
    /\ DOMAIN handle' = Callers /\ handle'[c] = h /\ \A d \in Callers \ {c} : handle'[d] = handle[d]

\* The configuration is only taken from the defaults while there is no policy.
DefaultStep ==
    \A c \in Active : job'[c].policy = "default" =>
                          job[c].policy = "default" \/ documents["policy"].content = "absent"

LEMMA ActiveIsCaller ==
    ASSUME LocalInv
    PROVE  Active \subseteq Callers
BY ScenarioIsTyped DEF LocalInv, IsScenario, Active

\* What the invariant says of one check.
LEMMA Here ==
    ASSUME LocalInv, NEW c \in Active
    PROVE  /\ c \in Callers /\ c \in scenario.active /\ scenario \in Scenarios /\ IsScenario(scenario)
           /\ LocalOK(scenario, c, job[c], temp[c], handle[c])
           /\ JobOK(scenario, c, job[c]) /\ JobType(job[c]) /\ DOMAIN job[c] = JobFields
           /\ TempOK(scenario, c, job[c], temp[c]) /\ HandleOK(scenario, job[c], handle[c])
BY ActiveIsCaller, ScenarioIsTyped DEF LocalInv, LocalOK, JobOK, JobType, Active

\* One check moves: what is left to show is about its own record.
LEMMA LocalStep ==
    ASSUME LocalInv, NEW c \in Active, NEW r, NEW t, NEW h, Steps(c, r, t, h),
           LocalOK(scenario, c, r, t, h), UNCHANGED scenario,
           r.policy = "default" => job[c].policy = "default" \/ documents["policy"].content = "absent"
    PROVE  LocalInv' /\ DefaultStep
BY ActiveIsCaller DEF LocalInv, Steps, Active, DefaultStep

LEMMA JobSteps ==
    ASSUME LocalInv, NEW c \in Active, NEW r, job' = [job EXCEPT ![c] = r], UNCHANGED <<temp, handle>>
    PROVE  Steps(c, r, temp[c], handle[c])
BY Here DEF LocalInv, Steps

\* The same, when it learns nothing about the package.
LEMMA MovedStep ==
    ASSUME LocalInv, NEW c \in Active, NEW r, NEW t, NEW h, Steps(c, r, t, h), UNCHANGED scenario,
           SameBut(job[c], r, {"phase", "cache", "doc", "seen", "held", "now", "outcome", "approvals"}),
           JobType(r), r.outcome \notin Verdicts,
           r.phase \in Early => job[c].phase \in Early,
           r.phase \in Storing => job[c].phase \in Storing,
           scenario.registrySpec \/ r.phase \notin Late \ {"evaluate"},
           scenario.tool[c] = "doctor" =>
              r.phase \notin Late /\ r.outcome \in {"none", "cancelled", "invalid", "ready", "attention"},
           scenario.tool[c] = "check" => r.outcome \in {"none", "cancelled", "invalid"},
           r.phase \in Doctoring => scenario.tool[c] = "doctor",
           TempOK(scenario, c, r, t), HandleOK(scenario, r, h)
    PROVE  LocalInv' /\ DefaultStep
<1>1. JobOK(scenario, c, r)
  BY Here, Moved
<1>2. r.policy = job[c].policy
  BY Fields DEF SameBut
<1>3. QED BY <1>1, <1>2, LocalStep DEF LocalOK

-----------------------------------------------------------------------------
(* A check ends, or goes on without having learnt anything.                *)

\* The outcomes that are not verdicts.
LEMMA NoVerdict ==
    /\ Verdicts \cap {"none", "cancelled", "invalid", "valid", "ready", "attention"} = {}
    /\ Outcomes = {"none", "cancelled", "invalid", "valid", "ready", "attention"} \cup Verdicts
BY DEF Verdicts, Outcomes

\* A check that ends without a verdict.
LEMMA Ends ==
    ASSUME LocalInv, NEW c \in Active, NEW o \in {"cancelled", "invalid", "valid", "ready", "attention"},
           End(c, o), UNCHANGED <<temp, handle, scenario>>,
           job[c].phase \notin {"done", "dead", "fill", "sync", "rename", "discard", "unprobe"},
           scenario.tool[c] = "check" => o \in {"cancelled", "invalid"},
           scenario.tool[c] = "doctor" =>
              /\ o # "valid"
              /\ job[c].phase = "start" \/ o = "attention" \/ (o = "ready" /\ job[c].cache = "writable")
    PROVE  LocalInv' /\ DefaultStep
<1> DEFINE r == [job[c] EXCEPT !.phase = "done", !.outcome = o]
<1>1. job' = [job EXCEPT ![c] = r]
  BY DEF End
<1>2. DOMAIN job[c] = JobFields
  BY Here
<1>3. SameBut(job[c], r, {"phase", "outcome"}) /\ r.phase = "done" /\ r.outcome = o
  BY <1>2, Fields DEF SameBut
<1> HIDE DEF r
<1>4. SameBut(job[c], r, {"phase", "cache", "doc", "seen", "held", "now", "outcome", "approvals"})
  BY <1>3 DEF SameBut
<1>5. JobType(r)
  BY <1>3, Here, Fields, NoVerdict DEF SameBut, JobType, JobPhases
<1>6. TempOK(scenario, c, r, temp[c])
  <2>1. TempOK(scenario, c, job[c], temp[c]) /\ r.phase = "done" /\ r.cache = job[c].cache
    BY <1>3, Here, Fields DEF SameBut
  <2>2. job[c].phase = "start" => temp[c] = None
    <3>1. job[c].phase = "start" => job[c].outcome = "none"
      BY Here DEF JobType
    <3>2. QED BY <2>1, <3>1 DEF TempOK, Reading
  <2>3. job[c].outcome = "none"
    BY Here DEF JobType
  <2>4. QED BY <1>3, <2>1, <2>2, <2>3 DEF TempOK, Reading
<1>7. HandleOK(scenario, r, handle[c])
  BY <1>3, Here DEF HandleOK
<1>8. Steps(c, r, temp[c], handle[c])
  BY <1>1, JobSteps
<1>9. QED BY <1>3, <1>4, <1>5, <1>6, <1>7, <1>8, MovedStep, NoVerdict DEF Early, Storing, Late, Reading, Doctoring

\* A check that goes on and keeps all it has but its phase.
LEMMA Goes1 ==
    ASSUME LocalInv, NEW c \in Active, NEW p \in JobPhases \ {"done"}, NEW t,
           Go(c, p), DOMAIN temp' = Callers, temp'[c] = t, \A d \in Callers \ {c} : temp'[d] = temp[d],
           NEW h, DOMAIN handle' = Callers, handle'[c] = h, \A d \in Callers \ {c} : handle'[d] = handle[d],
           UNCHANGED scenario, job[c].phase # "done",
           p \in Early => job[c].phase \in Early,
           p \in Storing => job[c].phase \in Storing,
           scenario.registrySpec \/ p \notin Late \ {"evaluate"},
           scenario.tool[c] = "doctor" => p \notin Late,
           p \in Doctoring => scenario.tool[c] = "doctor",
           \A r : SameBut(job[c], r, {"phase"}) /\ r.phase = p =>
                    TempOK(scenario, c, r, t) /\ HandleOK(scenario, r, h)
    PROVE  LocalInv' /\ DefaultStep
<1> DEFINE r == [job[c] EXCEPT !.phase = p]
<1>1. job' = [job EXCEPT ![c] = r]
  BY DEF Go
<1>2. DOMAIN job[c] = JobFields
  BY Here
<1>3. SameBut(job[c], r, {"phase"}) /\ r.phase = p
  BY <1>2, Fields DEF SameBut
<1> HIDE DEF r
<1>4. SameBut(job[c], r, {"phase", "cache", "doc", "seen", "held", "now", "outcome", "approvals"})
  BY <1>3 DEF SameBut
<1>5. r.outcome = "none" /\ job[c].outcome = "none"
  BY <1>3, Here, Fields DEF SameBut, JobType
<1>6. JobType(r)
  BY <1>3, <1>5, Here, Fields, NoVerdict DEF SameBut, JobType
<1>7. Steps(c, r, t, h)
  BY <1>1, Here DEF Steps, LocalInv
<1>8. TempOK(scenario, c, r, t) /\ HandleOK(scenario, r, h)
  BY <1>3
<1>9. QED BY <1>3, <1>4, <1>5, <1>6, <1>7, <1>8, MovedStep, NoVerdict

\* The files stay as they are.
LEMMA FilesStay ==
    ASSUME LocalInv, UNCHANGED <<temp, handle>>, NEW c \in Active
    PROVE  /\ DOMAIN temp' = Callers /\ temp'[c] = temp[c] /\ \A d \in Callers \ {c} : temp'[d] = temp[d]
           /\ DOMAIN handle' = Callers /\ handle'[c] = handle[c]
           /\ \A d \in Callers \ {c} : handle'[d] = handle[d]
BY DEF LocalInv

\* Nobody aborts a doctor.
LEMMA NotAborted ==
    ASSUME HttpInv, LocalInv, NEW c \in Active, scenario.tool[c] = "doctor"
    PROVE  c \notin aborted
BY Here DEF HttpInv, IsScenario

LEMMA StartKeeps ==
    ASSUME LocalInv, HttpInv, NEW c \in Active, Start(c)
    PROVE  LocalInv' /\ DefaultStep
<1>0. job[c].phase = "start" /\ UNCHANGED <<temp, handle, scenario>>
  BY DEF Start, At, disk
<1>1. CASE c \in aborted
  <2>1. End(c, "cancelled")
    BY <1>1 DEF Start, Unless
  <2>2. QED BY <1>0, <2>1, Ends
<1>2. CASE c \notin aborted /\ Mode(c) = "both"
  <2>1. End(c, "invalid")
    BY <1>2 DEF Start, Unless
  <2>2. QED BY <1>0, <2>1, Ends
<1>3. CASE c \notin aborted /\ Mode(c) # "both"
  <2> DEFINE p == FirstPhase(c)
             r == [job[c] EXCEPT !.now = clock, !.phase = p]
  <2>1. job' = [job EXCEPT ![c] = r]
    BY <1>3 DEF Start, Unless
  <2>2. p \in {"root", "inspect", "lookup", "evaluate"}
           /\ (p = "root" <=> scenario.tool[c] = "doctor")
           /\ (p = "lookup" => scenario.registrySpec)
           /\ (scenario.tool[c] = "doctor" => p = "root")
    BY DEF FirstPhase, Evidential
  <2>3. SameBut(job[c], r, {"phase", "now"}) /\ r.phase = p
    BY Here, Fields DEF SameBut
  <2> HIDE DEF r, p
  <2>4. SameBut(job[c], r, {"phase", "cache", "doc", "seen", "held", "now", "outcome", "approvals"})
    BY <2>3 DEF SameBut
  <2>5. job[c].outcome = "none" /\ r.outcome = "none"
    BY <1>0, <2>3, Here, Fields DEF SameBut, JobType
  <2>6. JobType(r)
    BY <2>2, <2>3, <2>5, Here, Fields, NoVerdict DEF SameBut, JobType, JobPhases
  <2>7. temp[c] = None
    BY <1>0, <2>5, Here DEF TempOK, Reading
  <2>8. TempOK(scenario, c, r, temp[c])
    BY <2>2, <2>3, <2>7 DEF TempOK
  <2>9. HandleOK(scenario, r, handle[c])
    BY <2>2, <2>3, Here DEF HandleOK
  <2>10. Steps(c, r, temp[c], handle[c])
    BY <2>1, <1>0, JobSteps
  <2>11. QED BY <1>0, <2>2, <2>3, <2>4, <2>5, <2>6, <2>8, <2>9, <2>10, MovedStep, NoVerdict
               DEF Early, Storing, Late, Doctoring, Reading
<1>4. QED BY <1>1, <1>2, <1>3

-----------------------------------------------------------------------------
(* The documents.                                                          *)

\* The policy was read, or was not there.
LEMMA PolicyLoaded ==
    ASSUME LocalInv, NEW c \in Active, NEW from \in {"default", "file", "invalid"},
           job[c].phase \in Reading, job[c].outcome = "none",
           job' = [job EXCEPT ![c].policy = from, ![c].doc = "approvals", ![c].phase = "inspect"],
           UNCHANGED <<temp, handle, scenario>>,
           from = "default" => /\ documents["policy"].content = "absent"
                               /\ \/ scenario.tool[c] = "doctor"
                                  \/ scenario.tool[c] = "check" /\ "policy" \notin scenario.required
    PROVE  LocalInv' /\ DefaultStep
<1> DEFINE j == job[c]
           r == [job[c] EXCEPT !.policy = from, !.doc = "approvals", !.phase = "inspect"]
<1>1. job' = [job EXCEPT ![c] = r]
  OBVIOUS
<1>2. SameBut(j, r, {"policy", "doc", "phase"}) /\ r.policy = from /\ r.doc = "approvals" /\ r.phase = "inspect"
  BY Here, Fields DEF SameBut
<1> HIDE DEF r
<1>3. /\ r.npm = j.npm /\ r.osv = j.osv /\ r.npmFrom = j.npmFrom /\ r.osvFrom = j.osvFrom
      /\ r.at = j.at /\ r.page = j.page /\ r.records = j.records /\ r.cache = j.cache
      /\ r.outcome = "none"
  BY <1>2, Fields DEF SameBut
<1>4. JobType(r)
  BY <1>2, <1>3, Here, Fields DEF SameBut, JobType, JobPhases
<1>5. EarlyOK(r) /\ EarlyOK(j) /\ j.phase \in Early
  BY <1>2, <1>3, Here DEF JobOK, EarlyOK, Early
<1>6. NpmOK(scenario, r) /\ OsvOK(scenario, r) /\ AtOK(scenario, r) /\ PageOK(scenario, r)
  BY <1>3, <1>5, Here DEF EarlyOK, JobOK, NpmOK, OsvOK, AtOK, PageOK
<1>7. StoreOK(scenario, r) /\ SpecOK(scenario, r)
  BY <1>2, <1>3, <1>5, Here DEF EarlyOK, JobOK, StoreOK, SpecOK, Storing, Late
<1>8. DocOK(scenario, c, r) /\ ToolOK(scenario, c, r) /\ VerdictOK(scenario, r)
  BY <1>2, <1>3, NoVerdict, Here DEF JobOK, DocOK, ToolOK, VerdictOK, Late, Storing, Doctoring
<1>9. JobOK(scenario, c, r)
  BY <1>4, <1>5, <1>6, <1>7, <1>8 DEF JobOK
<1>10. TempOK(scenario, c, r, temp[c]) /\ HandleOK(scenario, r, handle[c])
  BY <1>2, <1>3, Here DEF TempOK, HandleOK, Reading
<1>11. Steps(c, r, temp[c], handle[c])
  BY <1>1, JobSteps
<1>12. QED BY <1>2, <1>9, <1>10, <1>11, LocalStep DEF LocalOK

\* So were the approvals, the last document.
LEMMA ApprovalsLoaded ==
    ASSUME LocalInv, NEW c \in Active, NEW from \in {"default", "file", "invalid"},
           job[c].phase \in Reading, job[c].outcome = "none",
           NEW last \in {"lookup", "evaluate", "report"},
           job' = [job EXCEPT ![c].approvals = from, ![c].phase = last],
           UNCHANGED <<temp, handle, scenario>>,
           last = "lookup" => scenario.registrySpec,
           last = "report" <=> scenario.tool[c] = "doctor"
    PROVE  LocalInv' /\ DefaultStep
<1> DEFINE j == job[c]
           r == [job[c] EXCEPT !.approvals = from, !.phase = last]
<1>1. job' = [job EXCEPT ![c] = r]
  OBVIOUS
<1>2. SameBut(j, r, {"approvals", "phase"}) /\ r.approvals = from /\ r.phase = last
  BY Here, Fields DEF SameBut
<1> HIDE DEF r
<1>3. SameBut(j, r, {"phase", "cache", "doc", "seen", "held", "now", "outcome", "approvals"})
  BY <1>2 DEF SameBut
<1>4. r.outcome = "none" /\ r.cache = j.cache /\ r.at = j.at
  BY <1>2, Fields DEF SameBut
<1>5. JobType(r)
  BY <1>2, <1>4, Here, Fields DEF SameBut, JobType, JobPhases
<1>6. TempOK(scenario, c, r, temp[c]) /\ HandleOK(scenario, r, handle[c])
  BY <1>2, <1>4, Here DEF TempOK, HandleOK, Reading
<1>7. Steps(c, r, temp[c], handle[c])
  BY <1>1, JobSteps
<1>8. QED BY <1>2, <1>3, <1>4, <1>5, <1>6, <1>7, MovedStep, NoVerdict
            DEF Early, Storing, Late, Doctoring, Reading

\* loadPolicyDocument and loadApprovalDocument return.
LEMMA DocumentTaken ==
    ASSUME LocalInv, NEW c \in Active, NEW state \in {"default", "file", "invalid"},
           job[c].phase \in Reading, TakesDocument(c, state), UNCHANGED <<temp, handle, scenario>>,
           state = "default" => Document(c).content = "absent"
    PROVE  LocalInv' /\ DefaultStep
<1>0. /\ scenario.tool[c] \in {"check", "doctor", "policy_validate", "approvals_verify"}
      /\ job[c].outcome = "none" /\ job[c].doc \in {"policy", "approvals"}
  BY Here DEF IsScenario, JobType, Reading
<1>1. ASSUME NEW last \in {"lookup", "evaluate", "report"}, Loaded(c, state, last),
             last = "lookup" => scenario.registrySpec,
             last = "report" <=> scenario.tool[c] = "doctor",
             scenario.tool[c] \in {"check", "doctor"},
             scenario.tool[c] = "check" => ~(state = "default" /\ job[c].doc \in scenario.required)
      PROVE  LocalInv' /\ DefaultStep
  <2>1. CASE job[c].doc = "policy"
    <3>1. job' = [job EXCEPT ![c].policy = state, ![c].doc = "approvals", ![c].phase = "inspect"]
      BY <1>1, <2>1 DEF Loaded
    <3>2. state = "default" => documents["policy"].content = "absent"
      BY <2>1 DEF Document
    <3>3. QED BY <3>1, <3>2, <1>0, <1>1, <2>1, PolicyLoaded
  <2>2. CASE job[c].doc # "policy"
    <3>1. job' = [job EXCEPT ![c].approvals = state, ![c].phase = last]
      BY <1>1, <2>2 DEF Loaded
    <3>2. QED BY <3>1, <1>0, <1>1, ApprovalsLoaded
  <2>3. QED BY <2>1, <2>2
<1>2. ASSUME NEW o \in {"invalid", "valid"}, End(c, o), scenario.tool[c] # "doctor",
             scenario.tool[c] = "check" => o = "invalid"
      PROVE  LocalInv' /\ DefaultStep
  BY <1>0, <1>2, Ends DEF Reading
<1>3. CASE scenario.tool[c] = "check"
  <2>1. CASE state = "invalid" \/ (state = "default" /\ job[c].doc \in scenario.required)
    BY <1>2, <1>3, <2>1 DEF TakesDocument, CheckTakes, Tool
  <2>2. CASE ~(state = "invalid" \/ (state = "default" /\ job[c].doc \in scenario.required))
    <3>1. Loaded(c, state, Evidential)
      BY <1>3, <2>2 DEF TakesDocument, CheckTakes, Tool
    <3>2. Evidential \in {"lookup", "evaluate"} /\ (Evidential = "lookup" => scenario.registrySpec)
      BY DEF Evidential
    <3>3. QED BY <1>1, <1>3, <2>2, <3>1, <3>2
  <2>3. QED BY <2>1, <2>2
<1>4. CASE scenario.tool[c] = "doctor"
  <2>1. Loaded(c, state, "report")
    BY <1>4 DEF TakesDocument, Tool
  <2>2. QED BY <1>1, <1>4, <2>1
<1>5. CASE scenario.tool[c] \notin {"check", "doctor"}
  <2>1. End(c, IF state = "file" THEN "valid" ELSE "invalid")
    BY <1>5 DEF TakesDocument, ValidatorTakes, Tool
  <2>2. QED BY <1>2, <1>5, <2>1
<1>6. QED BY <1>3, <1>4, <1>5

\* A document is inspected, opened, or changed under the reader.
LEMMA Reads ==
    ASSUME LocalInv, NEW c \in Active, job[c].phase \in Reading, NEW r,
           SameBut(job[c], r, {"seen", "held", "phase"}), r.phase \in Reading,
           job' = [job EXCEPT ![c] = r], UNCHANGED <<temp, handle, scenario>>
    PROVE  LocalInv' /\ DefaultStep
<1> DEFINE j == job[c]
<1>1. SameBut(j, r, {"phase", "cache", "doc", "seen", "held", "now", "outcome", "approvals"})
  BY DEF SameBut
<1>2. r.outcome = "none" /\ j.outcome = "none" /\ r.cache = j.cache /\ r.at = j.at
  BY Here, Fields DEF SameBut, JobType, Reading
<1>3. JobType(r)
  BY <1>2, Here, Fields DEF SameBut, JobType, JobPhases, Reading
<1>4. TempOK(scenario, c, r, temp[c]) /\ HandleOK(scenario, r, handle[c])
  <2>1. TempOK(scenario, c, j, temp[c]) /\ HandleOK(scenario, j, handle[c])
    BY Here
  <2>2. QED BY <1>2, <2>1 DEF TempOK, HandleOK, Reading
<1>5. Steps(c, r, temp[c], handle[c])
  BY JobSteps
<1>6. QED BY <1>1, <1>2, <1>3, <1>4, <1>5, MovedStep, NoVerdict
            DEF Early, Storing, Late, Doctoring, Reading

LEMMA ReadingStops ==
    ASSUME LocalInv, HttpInv, NEW c \in Active, job[c].phase \in Reading, c \in aborted,
           End(c, "cancelled"), UNCHANGED <<temp, handle, scenario>>
    PROVE  LocalInv' /\ DefaultStep
BY NotAborted, Ends DEF Reading

LEMMA InspectKeeps ==
    ASSUME LocalInv, HttpInv, NEW c \in Active, Inspect(c)
    PROVE  LocalInv' /\ DefaultStep
<1>0. job[c].phase \in Reading /\ UNCHANGED <<temp, handle, scenario>>
  BY DEF Inspect, At, disk, Reading
<1>1. CASE c \in aborted
  BY <1>0, <1>1, ReadingStops DEF Inspect, Unless
<1>2. CASE c \notin aborted
  <2>1. CASE Document(c).content = "absent"
    <3>1. TakesDocument(c, "default")
      BY <1>2, <2>1 DEF Inspect, Unless
    <3>2. QED BY <1>0, <2>1, <3>1, DocumentTaken
  <2>2. CASE Document(c).content = "link"
    <3>1. TakesDocument(c, "invalid")
      BY <1>2, <2>2 DEF Inspect, Unless
    <3>2. QED BY <1>0, <3>1, DocumentTaken
  <2>3. CASE Document(c).content \notin {"absent", "link"}
    <3>1. job' = [job EXCEPT ![c].seen = Document(c).ino, ![c].phase = "document"]
      BY <1>2, <2>3 DEF Inspect, Unless
    <3>2. DOMAIN job[c] = JobFields
      BY Here
    <3> DEFINE r == [job[c] EXCEPT !.seen = Document(c).ino, !.phase = "document"]
    <3>3. SameBut(job[c], r, {"seen", "held", "phase"}) /\ r.phase = "document"
      BY <3>2, Fields DEF SameBut
    <3>4. job' = [job EXCEPT ![c] = r]
      BY <3>1
    <3> HIDE DEF r
    <3>5. QED BY <1>0, <3>3, <3>4, Reads DEF Reading
  <2>4. QED BY <2>1, <2>2, <2>3
<1>3. QED BY <1>1, <1>2

LEMMA OpenDocumentKeeps ==
    ASSUME LocalInv, HttpInv, NEW c \in Active, OpenDocument(c)
    PROVE  LocalInv' /\ DefaultStep
<1>0. job[c].phase \in Reading /\ UNCHANGED <<temp, handle, scenario>>
  BY DEF OpenDocument, At, disk, Reading
<1>1. CASE c \in aborted
  BY <1>0, <1>1, ReadingStops DEF OpenDocument, Unless
<1>2. CASE c \notin aborted
  <2>1. CASE Document(c).content = "absent"
    <3>1. TakesDocument(c, "default")
      BY <1>2, <2>1 DEF OpenDocument, Unless
    <3>2. QED BY <1>0, <2>1, <3>1, DocumentTaken
  <2>2. CASE Document(c).content # "absent" /\ Document(c).ino # job[c].seen
    <3>1. TakesDocument(c, "invalid")
      BY <1>2, <2>2 DEF OpenDocument, Unless
    <3>2. QED BY <1>0, <3>1, DocumentTaken
  <2>3. CASE Document(c).content # "absent" /\ ~(Document(c).ino # job[c].seen)
    <3>1. job' = [job EXCEPT ![c].held = Document(c).content, ![c].phase = "reading"]
      BY <1>2, <2>3 DEF OpenDocument, Unless
    <3>2. DOMAIN job[c] = JobFields
      BY Here
    <3> DEFINE r == [job[c] EXCEPT !.held = Document(c).content, !.phase = "reading"]
    <3>3. SameBut(job[c], r, {"seen", "held", "phase"}) /\ r.phase = "reading"
      BY <3>2, Fields DEF SameBut
    <3>4. job' = [job EXCEPT ![c] = r]
      BY <3>1
    <3> HIDE DEF r
    <3>5. QED BY <1>0, <3>3, <3>4, Reads DEF Reading
  <2>4. QED BY <2>1, <2>2, <2>3
<1>3. QED BY <1>1, <1>2

LEMMA CloseDocumentKeeps ==
    ASSUME LocalInv, HttpInv, NEW c \in Active, CloseDocument(c)
    PROVE  LocalInv' /\ DefaultStep
<1>0. job[c].phase \in Reading /\ UNCHANGED <<temp, handle, scenario>>
  BY DEF CloseDocument, At, disk, Reading
<1>1. CASE c \in aborted
  BY <1>0, <1>1, ReadingStops DEF CloseDocument, Unless
<1>2. CASE c \notin aborted
  <2>1. \E state \in {"invalid", "file"} : TakesDocument(c, state)
    BY <1>2 DEF CloseDocument, Unless
  <2>2. QED BY <1>0, <2>1, DocumentTaken
<1>3. QED BY <1>1, <1>2

-----------------------------------------------------------------------------
(* The doctor.                                                             *)

\* A step of the doctor's that ends with another phase.
LEMMA DoctorSteps ==
    ASSUME LocalInv, NEW c \in Active, NEW state \in {"none", "writable", "unwritable", "unsafe"},
           NEW p \in {"mkdir", "probe", "unprobe", "inspect"},
           job[c].phase \in Doctoring, NEW t,
           job' = [job EXCEPT ![c].cache = state, ![c].phase = p],
           UNCHANGED <<handle, scenario>>,
           DOMAIN temp' = Callers, temp'[c] = t, \A d \in Callers \ {c} : temp'[d] = temp[d],
           t = None \/ IsRecord(t),
           t # None => p = "unprobe" \/ (p = "inspect" /\ state \in {"unwritable", "unsafe"})
    PROVE  LocalInv' /\ DefaultStep
<1> DEFINE j == job[c]
           r == [job[c] EXCEPT !.cache = state, !.phase = p]
<1>1. job' = [job EXCEPT ![c] = r]
  OBVIOUS
<1>2. SameBut(j, r, {"cache", "phase"}) /\ r.cache = state /\ r.phase = p
  BY Here, Fields DEF SameBut
<1>3. scenario.tool[c] = "doctor"
  BY Here DEF JobOK, ToolOK
<1> HIDE DEF r
<1>4. SameBut(j, r, {"phase", "cache", "doc", "seen", "held", "now", "outcome", "approvals"})
  BY <1>2 DEF SameBut
<1>5. r.outcome = "none" /\ j.outcome = "none" /\ j.phase \in Early
  BY <1>2, Here, Fields DEF SameBut, JobType, Doctoring, Early
<1>6. JobType(r)
  BY <1>2, <1>5, Here, Fields DEF SameBut, JobType, JobPhases
<1>7. TempOK(scenario, c, r, t) /\ HandleOK(scenario, r, handle[c])
  BY <1>2, <1>3, Here DEF TempOK, HandleOK, Reading
<1>8. Steps(c, r, t, handle[c])
  BY <1>1, Here DEF Steps, LocalInv
<1>9. QED BY <1>2, <1>3, <1>4, <1>5, <1>6, <1>7, <1>8, MovedStep, NoVerdict
            DEF Early, Storing, Late, Doctoring, Reading

LEMMA Probes ==
    ASSUME LocalInv, NEW c \in Active, NEW state \in {"writable", "unwritable", "unsafe"},
           job[c].phase \in Doctoring, Probed(c, state), UNCHANGED <<temp, handle, scenario>>,
           temp[c] = None \/ state # "writable"
    PROVE  LocalInv' /\ DefaultStep
<1>1. job' = [job EXCEPT ![c].cache = state, ![c].phase = "inspect"]
  BY DEF Probed
<1>2. temp[c] = None \/ IsRecord(temp[c])
  BY Here DEF TempOK
<1>3. QED BY <1>1, <1>2, FilesStay, DoctorSteps

LEMMA Prepares ==
    ASSUME LocalInv, NEW c \in Active, NEW p \in {"mkdir", "probe"},
           job[c].phase \in {"root", "mkdir"}, Go(c, p), UNCHANGED <<temp, handle, scenario>>
    PROVE  LocalInv' /\ DefaultStep
<1>1. job[c].outcome = "none" /\ scenario.tool[c] = "doctor"
  BY Here DEF JobType, JobOK, ToolOK, Doctoring
<1>2. temp[c] = None
  BY <1>1, Here DEF TempOK, Reading
<1>3. \A r : r.phase = p => TempOK(scenario, c, r, temp[c]) /\ HandleOK(scenario, r, handle[c])
  BY <1>2, Here DEF TempOK, HandleOK
<1>4. QED BY <1>1, <1>3, FilesStay, Goes1 DEF JobPhases, Early, Storing, Late, Doctoring

LEMMA InspectRootKeeps ==
    ASSUME LocalInv, NEW c \in Active, InspectRoot(c)
    PROVE  LocalInv' /\ DefaultStep
<1>0. job[c].phase = "root" /\ UNCHANGED <<temp, handle, scenario>>
  BY DEF InspectRoot, At, disk
<1>1. Probed(c, "unsafe") \/ Probed(c, "unwritable") \/ Go(c, "mkdir")
  BY DEF InspectRoot
<1>2. QED BY <1>0, <1>1, Probes, Prepares DEF Doctoring

LEMMA MakeRootKeeps ==
    ASSUME LocalInv, NEW c \in Active, MakeRoot(c)
    PROVE  LocalInv' /\ DefaultStep
<1>0. job[c].phase = "mkdir" /\ UNCHANGED <<temp, handle, scenario>>
  BY DEF MakeRoot, At, disk
<1>1. Probed(c, "unsafe") \/ Probed(c, "unwritable") \/ Go(c, "probe")
  BY DEF MakeRoot
<1>2. QED BY <1>0, <1>1, Probes, Prepares DEF Doctoring

LEMMA CreateProbeKeeps ==
    ASSUME LocalInv, NEW c \in Active, CreateProbe(c)
    PROVE  LocalInv' /\ DefaultStep
<1>0. job[c].phase = "probe" /\ UNCHANGED <<handle, scenario>>
  BY DEF CreateProbe, At
<1>1. CASE Probed(c, "unwritable") /\ UNCHANGED temp
  BY <1>0, <1>1, Probes DEF Doctoring
<1>2. ASSUME NEW state \in {"writable", "unwritable"},
             temp' = [temp EXCEPT ![c] = [state |-> "unsynced", storedAt |-> 0, expiresAt |-> 0,
                                          payload |-> {}]],
             job' = [job EXCEPT ![c].cache = state, ![c].phase = "unprobe"]
      PROVE  LocalInv' /\ DefaultStep
  <2> DEFINE t == [state |-> "unsynced", storedAt |-> 0, expiresAt |-> 0, payload |-> {}]
  <2>1. IsRecord(t)
    BY DEF IsRecord
  <2> HIDE DEF t
  <2>2. DOMAIN temp' = Callers /\ temp'[c] = t /\ \A d \in Callers \ {c} : temp'[d] = temp[d]
    BY <1>2, Here DEF LocalInv, t
  <2>3. QED BY <1>0, <1>2, <2>1, <2>2, DoctorSteps DEF Doctoring
<1>3. QED BY <1>1, <1>2 DEF CreateProbe

LEMMA RemoveProbeKeeps ==
    ASSUME LocalInv, NEW c \in Active, RemoveProbe(c)
    PROVE  LocalInv' /\ DefaultStep
<1>0. job[c].phase = "unprobe" /\ UNCHANGED <<handle, scenario>>
  BY DEF RemoveProbe, At
<1>1. CASE Probed(c, "unsafe") /\ UNCHANGED temp
  BY <1>0, <1>1, Probes DEF Doctoring
<1>2. CASE temp' = [temp EXCEPT ![c] = None] /\ Probed(c, job[c].cache)
  <2>1. DOMAIN temp' = Callers /\ temp'[c] = None /\ \A d \in Callers \ {c} : temp'[d] = temp[d]
    BY <1>2, Here DEF LocalInv
  <2>2. job' = [job EXCEPT ![c].cache = job[c].cache, ![c].phase = "inspect"]
    BY <1>2 DEF Probed
  <2>3. job[c].cache \in {"none", "writable", "unwritable", "unsafe"}
    BY Here DEF JobType
  <2>4. QED BY <1>0, <2>1, <2>2, <2>3, DoctorSteps DEF Doctoring
<1>3. QED BY <1>1, <1>2 DEF RemoveProbe

LEMMA ReportKeeps ==
    ASSUME LocalInv, NEW c \in Active, Report(c)
    PROVE  LocalInv' /\ DefaultStep
<1>0. job[c].phase = "report" /\ UNCHANGED <<temp, handle, scenario>>
  BY DEF Report, At, disk
<1>1. \E o \in {"ready", "attention"} : End(c, o) /\ (o = "ready" => job[c].cache = "writable")
  BY DEF Report
<1>2. scenario.tool[c] = "doctor"
  BY <1>0, Here DEF JobOK, ToolOK, Doctoring
<1>3. QED BY <1>0, <1>1, <1>2, Ends

-----------------------------------------------------------------------------
(* The evidence.                                                           *)

\* Of a check that has asked for evidence: everything but what its phase says.
EvidenceOK(s, c, e) ==
    /\ JobType(e) /\ e.outcome = "none" /\ s.registrySpec /\ s.tool[c] # "doctor"
    /\ NpmOK(s, e) /\ OsvOK(s, e) /\ AtOK(s, e) /\ PageOK(s, e) /\ DocOK(s, c, e)
    /\ e.at = "npm" /\ e.npm.ok => GoodNpm(s, e.npm)

ResultOK(s, at, result, from) ==
    /\ result.ok \in BOOLEAN
    /\ result.ok => from \in {"live", "cache"}
    /\ result.ok /\ at = "npm" => result.data \in NpmData(s)
    /\ result.ok /\ at = "osv" /\ from = "live" => result.records = AdvisoriesOf(s)

LEMMA ConfigIsPolicy ==
    ASSUME NEW c
    PROVE  Config(c) = PolicyOf(scenario, job[c])
BY DEF Config, PolicyOf

\* The phase of a check that goes on.
LEMMA Phased ==
    ASSUME NEW s \in Scenarios, NEW c, NEW e, NEW r, EvidenceOK(s, c, e),
           SameBut(e, r, {"phase", "at"}), r.phase \in Late,
           r.at \in {"npm", "osv"}, r.at = "osv" => AtOK(s, r),
           r.phase \in Storing /\ r.at = "npm" => GoodNpm(s, e.npm)
    PROVE  JobOK(s, c, r)
<1>1. /\ r.npm = e.npm /\ r.osv = e.osv /\ r.npmFrom = e.npmFrom /\ r.osvFrom = e.osvFrom
      /\ r.page = e.page /\ r.records = e.records /\ r.policy = e.policy /\ r.outcome = "none"
  BY Fields DEF SameBut, EvidenceOK
<1>2. PolicyOf(s, r) = PolicyOf(s, e)
  BY <1>1 DEF PolicyOf
<1>3. JobType(r)
  BY <1>1, Fields DEF SameBut, EvidenceOK, JobType, JobPhases, Late, Storing
<1>4. NpmOK(s, r) /\ OsvOK(s, r) /\ PageOK(s, r) /\ DocOK(s, c, r)
  BY <1>1, <1>2 DEF EvidenceOK, NpmOK, OsvOK, PageOK, DocOK
<1>5. AtOK(s, r) /\ StoreOK(s, r) /\ SpecOK(s, r)
  BY <1>1 DEF AtOK, StoreOK, SpecOK, EvidenceOK
<1>6. EarlyOK(r) /\ ToolOK(s, c, r) /\ VerdictOK(s, r)
  BY <1>1, NoVerdict DEF EvidenceOK, EarlyOK, ToolOK, VerdictOK, Early, Late, Storing, Doctoring, Reading
<1>7. QED BY <1>3, <1>4, <1>5, <1>6 DEF JobOK

\* A provider has answered, and the check goes on to the next, or to its verdict.
LEMMA OnwardIsOK ==
    ASSUME scenario \in Scenarios, NEW c, NEW e, EvidenceOK(scenario, c, e), e.policy = job[c].policy
    PROVE  /\ JobOK(scenario, c, Onward(c, e))
           /\ Onward(c, e).phase \in {"lookup", "evaluate"}
           /\ Onward(c, e).policy = e.policy
<1>0. DOMAIN e = JobFields /\ PolicyOf(scenario, e) = Config(c)
  BY ConfigIsPolicy DEF EvidenceOK, JobType, PolicyOf
<1>1. CASE e.at = "osv"
  <2> DEFINE r == [e EXCEPT !.phase = "evaluate"]
  <2>1. Onward(c, e) = r
    BY <1>1 DEF Onward
  <2>2. SameBut(e, r, {"phase"}) /\ r.phase = "evaluate"
    BY <1>0, Fields DEF SameBut
  <2> HIDE DEF r
  <2>3. SameBut(e, r, {"phase", "at"}) /\ r.at = e.at /\ r.npm = e.npm /\ r.policy = e.policy
    BY <2>2, Fields DEF SameBut
  <2>4. AtOK(scenario, r)
    BY <2>3 DEF EvidenceOK, AtOK, PolicyOf
  <2>5. JobOK(scenario, c, r)
    BY <1>1, <2>2, <2>3, <2>4, Phased DEF Late, Storing
  <2>6. QED BY <2>1, <2>2, <2>3, <2>5
<1>2. CASE e.at = "npm"
  <2> DEFINE p == AfterNpm(c, e.npm)
             r == [e EXCEPT !.phase = p, !.at = IF p = "lookup" THEN "osv" ELSE "npm"]
  <2>1. Onward(c, e) = r
    BY <1>2 DEF Onward
  <2>2. p \in {"lookup", "evaluate"} /\ (p = "lookup" => Config(c).osv /\ e.npm.ok)
    BY DEF AfterNpm
  <2> HIDE DEF p
  <2>3. SameBut(e, r, {"phase", "at"}) /\ r.phase = p /\ r.at = IF p = "lookup" THEN "osv" ELSE "npm"
    BY <1>0, Fields DEF SameBut
  <2> HIDE DEF r
  <2>4. r.npm = e.npm /\ r.policy = e.policy
    BY <2>3, Fields DEF SameBut
  <2>5. PolicyOf(scenario, r) = Config(c)
    BY <1>0, <2>4 DEF PolicyOf
  <2>6. AtOK(scenario, r)
    BY <1>2, <2>2, <2>3, <2>4, <2>5 DEF EvidenceOK, AtOK
  <2>7. JobOK(scenario, c, r)
    BY <2>2, <2>3, <2>6, Phased DEF Late, Storing
  <2>8. QED BY <2>1, <2>2, <2>3, <2>4, <2>7
<1>3. QED BY <1>0, <1>1, <1>2 DEF EvidenceOK, JobType

\* The evidence that an answer leaves.
LEMMA EvidenceIsOK ==
    ASSUME LocalInv, NEW c \in Active, job[c].phase \in Late \ {"evaluate"},
           NEW result, NEW from \in {"none", "live", "cache"},
           ResultOK(scenario, job[c].at, result, from)
    PROVE  /\ EvidenceOK(scenario, c, Evidence(c, result, from))
           /\ Evidence(c, result, from).policy = job[c].policy
           /\ Evidence(c, result, from).at = job[c].at
<1> DEFINE j == job[c]
<1>0. JobOK(scenario, c, j) /\ DOMAIN j = JobFields /\ j.outcome = "none" /\ scenario.registrySpec
         /\ scenario.tool[c] # "doctor"
  BY Here DEF JobOK, JobType, SpecOK, ToolOK, Late, Storing
<1>1. CASE j.at = "npm"
  <2> DEFINE e == [j EXCEPT !.npm = result, !.npmFrom = from]
  <2>1. Evidence(c, result, from) = e
    BY <1>1 DEF Evidence
  <2>2. SameBut(j, e, {"npm", "npmFrom"}) /\ e.npm = result /\ e.npmFrom = from
    BY <1>0, Fields DEF SameBut
  <2> HIDE DEF e
  <2>3. /\ e.osv = j.osv /\ e.osvFrom = j.osvFrom /\ e.at = "npm" /\ e.page = j.page
        /\ e.records = j.records /\ e.policy = j.policy /\ e.outcome = "none"
    BY <1>0, <1>1, <2>2, Fields DEF SameBut
  <2>4. PolicyOf(scenario, e) = PolicyOf(scenario, j)
    BY <2>3 DEF PolicyOf
  <2>5. JobType(e)
    BY <1>0, <2>2, <2>3, Fields DEF SameBut, JobType, JobOK
  <2>6. NpmOK(scenario, e) /\ (e.npm.ok => GoodNpm(scenario, e.npm))
    BY <1>1, <2>2 DEF ResultOK, NpmOK, GoodNpm
  <2>7. OsvOK(scenario, e) /\ AtOK(scenario, e) /\ PageOK(scenario, e) /\ DocOK(scenario, c, e)
    BY <1>0, <2>3, <2>4 DEF JobOK, OsvOK, AtOK, PageOK, DocOK
  <2>8. QED BY <1>0, <1>1, <2>1, <2>3, <2>5, <2>6, <2>7 DEF EvidenceOK
<1>2. CASE j.at = "osv"
  <2> DEFINE e == [j EXCEPT !.osv = result, !.osvFrom = from]
  <2>1. Evidence(c, result, from) = e
    BY <1>2 DEF Evidence
  <2>2. SameBut(j, e, {"osv", "osvFrom"}) /\ e.osv = result /\ e.osvFrom = from
    BY <1>0, Fields DEF SameBut
  <2> HIDE DEF e
  <2>3. /\ e.npm = j.npm /\ e.npmFrom = j.npmFrom /\ e.at = "osv" /\ e.page = j.page
        /\ e.records = j.records /\ e.policy = j.policy /\ e.outcome = "none"
    BY <1>0, <1>2, <2>2, Fields DEF SameBut
  <2>4. PolicyOf(scenario, e) = PolicyOf(scenario, j)
    BY <2>3 DEF PolicyOf
  <2>5. JobType(e)
    BY <1>0, <2>2, <2>3, Fields DEF SameBut, JobType, JobOK
  <2>6. OsvOK(scenario, e)
    BY <1>0, <1>2, <2>2, <2>4 DEF ResultOK, OsvOK, JobOK, AtOK
  <2>7. NpmOK(scenario, e) /\ AtOK(scenario, e) /\ PageOK(scenario, e) /\ DocOK(scenario, c, e)
    BY <1>0, <1>2, <2>3, <2>4 DEF JobOK, NpmOK, AtOK, PageOK, DocOK
  <2>8. QED BY <1>0, <1>2, <2>1, <2>3, <2>5, <2>6, <2>7 DEF EvidenceOK
<1>3. QED BY <1>0, <1>1, <1>2 DEF JobOK, JobType

\* A check takes a step within its evidence; its files follow.
LEMMA LateStep ==
    ASSUME LocalInv, NEW c \in Active, NEW r, NEW t, NEW h, Steps(c, r, t, h), UNCHANGED scenario,
           JobOK(scenario, c, r), r.policy = job[c].policy, r.phase \notin {"fill", "sync", "rename", "parse"},
           t = None, h = None \/ IsRecord(h)
    PROVE  LocalInv' /\ DefaultStep
BY LocalStep DEF LocalOK, TempOK, HandleOK

\* An answer is taken, and stored if there is a cache.
LEMMA Taken ==
    ASSUME LocalInv, NEW c \in Active, job[c].phase \in {"lookup", "asked", "open", "parse"},
           NEW result, ResultOK(scenario, job[c].at, result, "live"),
           Take(c, result), UNCHANGED <<temp, handle, scenario>>
    PROVE  LocalInv' /\ DefaultStep
<1> DEFINE e == Evidence(c, result, "live")
<1>0. scenario \in Scenarios /\ EvidenceOK(scenario, c, e) /\ e.policy = job[c].policy /\ e.at = job[c].at
  BY Here, EvidenceIsOK DEF Late, Storing
<1>1. temp[c] = None /\ (handle[c] = None \/ IsRecord(handle[c]))
  BY Here DEF TempOK, HandleOK, Reading, JobType
<1>2. CASE result.ok /\ Mode(c) = "online"
  <2> DEFINE r == [e EXCEPT !.phase = "create"]
  <2>1. job' = [job EXCEPT ![c] = r]
    BY <1>2 DEF Take
  <2>2. e.at = "npm" => e.npm = result
    BY Here, <1>0, Fields DEF Evidence
  <2> HIDE DEF e
  <2>3. SameBut(e, r, {"phase"}) /\ r.phase = "create"
    BY <1>0, Fields DEF SameBut, EvidenceOK, JobType
  <2> HIDE DEF r
  <2>4. SameBut(e, r, {"phase", "at"}) /\ r.at = e.at /\ r.npm = e.npm /\ r.policy = e.policy
    BY <2>3, Fields DEF SameBut
  <2>5. AtOK(scenario, r) /\ r.at \in {"npm", "osv"}
    BY <1>0, <2>4 DEF EvidenceOK, AtOK, PolicyOf, JobType
  <2>6. r.at = "npm" => GoodNpm(scenario, e.npm)
    BY <1>0, <1>2, <2>2, <2>4 DEF EvidenceOK
  <2>7. JobOK(scenario, c, r)
    BY <1>0, <2>3, <2>4, <2>5, <2>6, Phased DEF Late, Storing
  <2>8. Steps(c, r, temp[c], handle[c])
    BY <2>1, JobSteps
  <2>9. QED BY <1>0, <1>1, <2>3, <2>4, <2>7, <2>8, LateStep
<1>3. CASE ~(result.ok /\ Mode(c) = "online")
  <2>1. job' = [job EXCEPT ![c] = Onward(c, e)]
    BY <1>3 DEF Take
  <2> HIDE DEF e
  <2>2. Steps(c, Onward(c, e), temp[c], handle[c])
    BY <2>1, JobSteps
  <2>3. QED BY <1>0, <1>1, <2>2, OnwardIsOK, LateStep
<1>4. QED BY <1>2, <1>3

-----------------------------------------------------------------------------
(* Asking the providers.                                                   *)

\* What is known of a check that asks, or stores what it has learnt.
LEMMA LateFacts ==
    ASSUME LocalInv, NEW c \in Active, job[c].phase \in Late
    PROVE  /\ job[c].outcome = "none" /\ scenario.tool[c] # "doctor"
           /\ job[c].phase \notin {"fill", "sync", "rename", "discard"} => temp[c] = None
           /\ temp[c] = None \/ IsRecord(temp[c])
           /\ handle[c] = None \/ IsRecord(handle[c])
           /\ job[c].phase # "evaluate" => scenario.registrySpec
<1>1. job[c].outcome = "none" /\ scenario.tool[c] # "doctor"
         /\ (job[c].phase # "evaluate" => scenario.registrySpec)
  BY Here DEF JobOK, JobType, ToolOK, SpecOK, Late, Storing
<1>2. QED BY <1>1, Here DEF TempOK, HandleOK, Late, Storing, Reading

LEMMA LateEnds ==
    ASSUME LocalInv, NEW c \in Active, job[c].phase \in Late, End(c, "cancelled"), UNCHANGED scenario,
           DOMAIN temp' = Callers, temp'[c] = None, \A d \in Callers \ {c} : temp'[d] = temp[d],
           NEW h, h = None \/ IsRecord(h),
           DOMAIN handle' = Callers, handle'[c] = h, \A d \in Callers \ {c} : handle'[d] = handle[d]
    PROVE  LocalInv' /\ DefaultStep
<1> DEFINE r == [job[c] EXCEPT !.phase = "done", !.outcome = "cancelled"]
<1>1. job' = [job EXCEPT ![c] = r]
  BY DEF End
<1>2. DOMAIN job[c] = JobFields
  BY Here
<1>3. SameBut(job[c], r, {"phase", "outcome"}) /\ r.phase = "done" /\ r.outcome = "cancelled"
  BY <1>2, Fields DEF SameBut
<1> HIDE DEF r
<1>4. SameBut(job[c], r, {"phase", "cache", "doc", "seen", "held", "now", "outcome", "approvals"})
  BY <1>3 DEF SameBut
<1>5. JobType(r)
  BY <1>3, Here, Fields, NoVerdict DEF SameBut, JobType, JobPhases
<1>6. TempOK(scenario, c, r, None) /\ HandleOK(scenario, r, h)
  BY <1>3 DEF TempOK, HandleOK
<1>7. Steps(c, r, None, h)
  BY <1>1, Here DEF Steps, LocalInv
<1>8. QED BY <1>3, <1>4, <1>5, <1>6, <1>7, LateFacts, MovedStep, NoVerdict
            DEF Early, Storing, Late, Reading, Doctoring

\* An abort is seen where there is no temporary file.
LEMMA LateStops ==
    ASSUME LocalInv, NEW c \in Active, End(c, "cancelled"), UNCHANGED <<temp, handle, scenario>>,
           job[c].phase \in Late \ {"fill", "sync", "rename", "discard"}
    PROVE  LocalInv' /\ DefaultStep
BY LateFacts, FilesStay, LateEnds

LEMMA Awaits ==
    ASSUME LocalInv, NEW c \in Active, job[c].phase = "lookup", NEW p \in {"open", "asked"},
           Go(c, p), UNCHANGED <<temp, handle, scenario>>
    PROVE  LocalInv' /\ DefaultStep
<1>1. job[c].phase \in Late
  BY DEF Late
<1>2. temp[c] = None /\ scenario.registrySpec /\ scenario.tool[c] # "doctor"
  BY <1>1, LateFacts
<1>3. \A r : r.phase = p => TempOK(scenario, c, r, temp[c]) /\ HandleOK(scenario, r, handle[c])
  BY <1>1, <1>2, LateFacts DEF TempOK, HandleOK
<1>4. QED BY <1>2, <1>3, FilesStay, Goes1 DEF JobPhases, Early, Storing, Late, Doctoring, Reading

LEMMA LookupKeeps ==
    ASSUME LocalInv, NEW c \in Active, Lookup(c)
    PROVE  LocalInv' /\ DefaultStep
<1>0. job[c].phase = "lookup" /\ UNCHANGED <<temp, handle, scenario>>
  BY DEF Lookup, At, disk
<1>1. CASE Offline(c)
  <2>1. End(c, "cancelled") \/ Go(c, "open")
    BY <1>1 DEF Lookup, Unless
  <2>2. QED BY <1>0, <2>1, Awaits, LateStops DEF Late
<1>2. CASE ~Offline(c)
  <2>1. Go(c, "asked")
    BY <1>2 DEF Lookup
  <2>2. QED BY <1>0, <2>1, Awaits
<1>3. QED BY <1>1, <1>2

\* A page has finitely many records,
LEMMA RecordsAreFinite ==
    ASSUME NEW page, IsFiniteSet(page)
    PROVE  IsFiniteSet(RecordsOn(page))
<1>1. IsFiniteSet({x \in page : ~x.withdrawn})
  BY FS_Subset
<1> DEFINE F(r) == [id |-> r.id, malicious |-> r.malicious, severity |-> r.severity]
<1>2. RecordsOn(page) = {F(r) : r \in {x \in page : ~x.withdrawn}}
  BY DEF RecordsOn
<1>3. QED
  <2> DEFINE S == {x \in page : ~x.withdrawn}
             T == {F(r) : r \in S}
             f == [r \in S |-> F(r)]
  <2> HIDE DEF F
  <2>1. f \in Surjection(S, T)
    BY DEF Surjection
  <2>2. IsFiniteSet(T)
    <3> HIDE DEF S, T, f
    <3>1. QED BY <1>1, <2>1, FS_Surjection DEF S
  <2>3. QED BY <1>2, <2>2

\* and what is known grows by those of the next page.
LEMMA KnownGrows ==
    ASSUME NEW s \in Scenarios, NEW n \in DOMAIN s.advisories
    PROVE  /\ n \in Nat /\ n >= 1 /\ Len(s.advisories) \in Nat
           /\ KnownUpTo(s, n) = KnownUpTo(s, n - 1) \cup RecordsOn(s.advisories[n])
           /\ n = Len(s.advisories) => KnownUpTo(s, n) = AdvisoriesOf(s)
           /\ n # Len(s.advisories) => n + 1 \in DOMAIN s.advisories
<1>1. DOMAIN s.advisories = 1..Len(s.advisories) /\ Len(s.advisories) \in Nat
  BY ScenarioIsTyped DEF IsScenario
<1>2. n \in Nat /\ n >= 1 /\ 1..n = (1..(n - 1)) \cup {n}
  BY <1>1
<1>3. KnownUpTo(s, n) = KnownUpTo(s, n - 1) \cup RecordsOn(s.advisories[n])
  <2> DEFINE K(i) == RecordsOn(s.advisories[i])
  <2>1. (UNION {K(i) : i \in 1..n}) = (UNION {K(i) : i \in 1..(n - 1)}) \cup K(n)
    <3> HIDE DEF K
    <3>1. QED BY <1>2
  <2>2. QED BY <2>1 DEF KnownUpTo
<1>4. QED BY <1>1, <1>2, <1>3 DEF KnownUpTo, AdvisoriesOf

\* A page of advisories.
LEMMA PageKeeps ==
    ASSUME LocalInv, NEW c \in Active, job[c].phase = "asked", job[c].at = "osv", Page(c),
           UNCHANGED <<temp, handle, scenario>>
    PROVE  LocalInv' /\ DefaultStep
<1> DEFINE j == job[c]
           pages == scenario.advisories
           new == j.records \cup RecordsOn(pages[j.page])
<1>0. /\ JobOK(scenario, c, j) /\ DOMAIN j = JobFields /\ scenario \in Scenarios /\ IsScenario(scenario)
      /\ j.page \in DOMAIN pages /\ j.records = KnownUpTo(scenario, j.page - 1)
      /\ j.page \in 1..MaxPages /\ IsFiniteSet(j.records)
  BY Here DEF JobOK, PageOK, JobType
<1>1. new = KnownUpTo(scenario, j.page)
  BY <1>0, KnownGrows
<1>2. \A x : ResultOK(scenario, "osv", Truncated(x), "live")
  BY DEF ResultOK, Truncated, Failed
<1>3. CASE TooMany(new)
  <2>1. Take(c, Truncated(j.records))
    BY <1>3 DEF Page
  <2>2. QED BY <1>2, <2>1, Taken
<1>4. CASE ~TooMany(new) /\ j.page = Len(pages)
  <2>1. Take(c, [ok |-> TRUE, records |-> new])
    BY <1>4 DEF Page
  <2>2. new = AdvisoriesOf(scenario)
    BY <1>0, <1>1, <1>4, KnownGrows
  <2>3. ResultOK(scenario, "osv", [ok |-> TRUE, records |-> new], "live")
    BY <2>2 DEF ResultOK
  <2>4. QED BY <2>1, <2>3, Taken
<1>5. CASE ~TooMany(new) /\ j.page # Len(pages) /\ j.page = MaxPages
  <2>1. Take(c, Truncated(new))
    BY <1>5 DEF Page
  <2>2. QED BY <1>2, <2>1, Taken
<1>6. CASE ~TooMany(new) /\ j.page # Len(pages) /\ j.page # MaxPages
  <2> DEFINE r == [j EXCEPT !.page = @ + 1, !.records = new, !.phase = "lookup"]
  <2>1. job' = [job EXCEPT ![c] = r]
    BY <1>6 DEF Page
  <2>2. SameBut(j, r, {"page", "records", "phase"}) /\ r.page = j.page + 1 /\ r.records = new
           /\ r.phase = "lookup"
    BY <1>0, Fields DEF SameBut
  <2>3. IsFiniteSet(new) /\ Cardinality(new) <= MaxRecords
    <3>1. IsFiniteSet(pages[j.page])
      BY <1>0 DEF IsScenario
    <3>2. IsFiniteSet(new)
      BY <1>0, <3>1, RecordsAreFinite, FS_Union
    <3>3. Cardinality(new) \in Nat
      BY <3>2, FS_CardinalityType
    <3> HIDE DEF new
    <3>4. QED BY <1>6, <3>2, <3>3, BoundsAssumption DEF TooMany
  <2>4. r.page \in 1..MaxPages /\ r.page \in DOMAIN pages /\ r.records = KnownUpTo(scenario, r.page - 1)
    BY <1>0, <1>1, <1>6, <2>2, KnownGrows, BoundsAssumption
  <2> HIDE DEF r, new
  <2>5. /\ r.npm = j.npm /\ r.osv = j.osv /\ r.npmFrom = j.npmFrom /\ r.osvFrom = j.osvFrom
        /\ r.at = j.at /\ r.policy = j.policy /\ r.outcome = j.outcome
    BY <2>2, Fields DEF SameBut
  <2>6. PolicyOf(scenario, r) = PolicyOf(scenario, j)
    BY <2>5 DEF PolicyOf
  <2>7. JobType(r)
    BY <1>0, <2>2, <2>3, <2>4, <2>5, Fields DEF SameBut, JobOK, JobType, JobPhases
  <2>8. NpmOK(scenario, r) /\ OsvOK(scenario, r) /\ AtOK(scenario, r) /\ PageOK(scenario, r)
           /\ DocOK(scenario, c, r)
    BY <1>0, <2>4, <2>5, <2>6 DEF JobOK, NpmOK, OsvOK, AtOK, PageOK, DocOK
  <2>9. r.outcome = "none" /\ scenario.registrySpec /\ scenario.tool[c] # "doctor"
    BY <2>5, LateFacts DEF Late
  <2>10. JobOK(scenario, c, r)
    BY <2>2, <2>5, <2>7, <2>8, <2>9, NoVerdict
    DEF JobOK, EarlyOK, StoreOK, SpecOK, ToolOK, VerdictOK, Early, Storing, Doctoring, Reading, Late
  <2>11. Steps(c, r, temp[c], handle[c])
    BY <2>1, JobSteps
  <2>12. QED BY <2>2, <2>5, <2>10, <2>11, LateFacts, LateStep DEF Late
<1>7. QED BY <1>3, <1>4, <1>5, <1>6

LEMMA AnsweredKeeps ==
    ASSUME LocalInv, NEW c \in Active, Answered(c)
    PROVE  LocalInv' /\ DefaultStep
<1>0. job[c].phase = "asked" /\ UNCHANGED <<temp, handle, scenario>>
         /\ job[c].at \in {"npm", "osv"}
  BY Here DEF Answered, At, disk, JobType
<1>1. CASE c \in aborted
  <2>1. End(c, "cancelled")
    BY <1>1 DEF Answered, Unless
  <2>2. QED BY <1>0, <2>1, LateStops DEF Late
<1>2. CASE c \notin aborted /\ call[c].outcome # "json"
  <2>1. Take(c, Failed(call[c].outcome))
    BY <1>2 DEF Answered, Unless
  <2>2. ResultOK(scenario, job[c].at, Failed(call[c].outcome), "live")
    BY DEF ResultOK, Failed
  <2>3. QED BY <1>0, <2>1, <2>2, Taken
<1>3. CASE c \notin aborted /\ call[c].outcome = "json" /\ job[c].at = "npm"
  <2>1. Take(c, NpmAnswer(scenario.package))
    BY <1>3 DEF Answered, Unless
  <2>2. scenario.package.kind \in {"found", "missing", "inconsistent"}
    BY Here DEF IsScenario
  <2>3. scenario.package.kind = "found" => scenario.package.data \in NpmData(scenario)
    BY DEF NpmData
  <2>4. ResultOK(scenario, "npm", NpmAnswer(scenario.package), "live")
    BY <2>2, <2>3 DEF ResultOK, NpmAnswer, Failed
  <2>5. QED BY <1>0, <1>3, <2>1, <2>4, Taken
<1>4. CASE c \notin aborted /\ call[c].outcome = "json" /\ job[c].at # "npm"
  <2>1. Page(c)
    BY <1>4 DEF Answered, Unless
  <2>2. QED BY <1>0, <1>4, <2>1, PageKeeps
<1>5. QED BY <1>1, <1>2, <1>3, <1>4

-----------------------------------------------------------------------------
(* The cache.                                                              *)

\* The entries of the two providers are not confused.
LEMMA KeysDiffer ==
    ASSUME NEW v
    PROVE  <<"osv", v>> # NpmKey
BY DEF NpmKey

LEMMA KeyIsKnown ==
    ASSUME LocalInv, NEW c \in Active, GoodNpm(scenario, job[c].npm) \/ job[c].at = "npm"
    PROVE  /\ Key(c) \in Keys
           /\ (Key(c) = NpmKey) = (job[c].at = "npm")
<1>1. CASE job[c].at = "npm"
  BY <1>1 DEF Key, Keys
<1>2. CASE job[c].at # "npm"
  <2>1. Key(c) = <<"osv", job[c].npm.data.version>>
    BY <1>2 DEF Key
  <2>2. job[c].npm.data.version \in scenario.versions
    BY <1>2, Here DEF IsScenario, GoodNpm
  <2>3. QED BY <1>2, <2>1, <2>2, KeysDiffer DEF Keys
<1>3. QED BY <1>1, <1>2

\* What a cached entry says is what the invariant wants of evidence.
LEMMA EvidenceInHand ==
    ASSUME LocalInv, NEW c \in Active, job[c].phase \in Storing \/ job[c].at = "osv"
    PROVE  GoodNpm(scenario, job[c].npm)
BY Here DEF JobOK, JobType, AtOK, StoreOK

LEMMA Lacks ==
    ASSUME LocalInv, NEW c \in Active, job[c].phase \in {"open", "parse"}, UNCHANGED <<temp, scenario>>,
           NEW result, NEW from \in {"none", "cache"}, ResultOK(scenario, job[c].at, result, from),
           job' = [job EXCEPT ![c] = Onward(c, Evidence(c, result, from))],
           NEW h, h = None \/ IsRecord(h),
           DOMAIN handle' = Callers, handle'[c] = h, \A d \in Callers \ {c} : handle'[d] = handle[d]
    PROVE  LocalInv' /\ DefaultStep
<1> DEFINE e == Evidence(c, result, from)
<1>1. scenario \in Scenarios /\ EvidenceOK(scenario, c, e) /\ e.policy = job[c].policy
  BY Here, EvidenceIsOK DEF Late, Storing
<1> HIDE DEF e
<1>2. JobOK(scenario, c, Onward(c, e)) /\ Onward(c, e).phase \in {"lookup", "evaluate"}
         /\ Onward(c, e).policy = job[c].policy
  BY <1>1, OnwardIsOK
<1>3. temp[c] = None
  BY LateFacts DEF Late
<1>4. Steps(c, Onward(c, e), temp[c], h)
  <2>1. job' = [job EXCEPT ![c] = Onward(c, e)]
    BY DEF e
  <2>2. QED BY <2>1, Here, FilesStay DEF Steps, LocalInv
<1>5. QED BY <1>2, <1>3, <1>4, LateStep

LEMMA OpenKeeps ==
    ASSUME LocalInv, EntryInv, NEW c \in Active, Open(c)
    PROVE  LocalInv' /\ DefaultStep
<1> DEFINE h == entry[Key(c)]
<1>0. /\ job[c].phase = "open" /\ UNCHANGED <<temp, scenario>> /\ handle' = [handle EXCEPT ![c] = h]
      /\ job[c].at \in {"npm", "osv"} /\ job[c].phase \in Late
  BY Here DEF Open, At, disk, JobType, Late
<1>1. DOMAIN handle' = Callers /\ handle'[c] = h /\ \A d \in Callers \ {c} : handle'[d] = handle[d]
  BY <1>0, Here DEF LocalInv
<1>2. GoodNpm(scenario, job[c].npm) \/ job[c].at = "npm"
  BY <1>0, EvidenceInHand
<1>3. EntryOK(scenario, Key(c), h) /\ (job[c].at = "npm" => Key(c) = NpmKey)
  BY <1>2, KeyIsKnown DEF EntryInv
<1>4. h = None \/ IsRecord(h)
  BY <1>3 DEF EntryOK
<1>5. DOMAIN temp' = Callers /\ temp'[c] = None /\ \A d \in Callers \ {c} : temp'[d] = temp[d]
  BY <1>0, LateFacts DEF LocalInv
<1>6. CASE c \in aborted
  <2>1. End(c, "cancelled")
    BY <1>6 DEF Open, Unless
  <2>2. QED BY <1>0, <1>1, <1>4, <1>5, <2>1, LateEnds
<1>7. CASE c \notin aborted /\ h = None
  <2>1. Lacking(c)
    BY <1>7 DEF Open, Unless
  <2>2. ResultOK(scenario, job[c].at, Failed("network_error"), "none")
    BY DEF ResultOK, Failed
  <2>3. QED BY <1>0, <1>1, <1>4, <2>1, <2>2, Lacks DEF Lacking
<1>8. CASE c \notin aborted /\ h # None
  <2>1. Go(c, "parse")
    BY <1>8 DEF Open, Unless
  <2>2. IsRecord(h) /\ h.state \in {"synced", "garbage"}
           /\ (job[c].at = "npm" /\ h.state = "synced" => h.payload \in NpmData(scenario))
    BY <1>3, <1>8 DEF EntryOK
  <2> HIDE DEF h
  <2>3. ASSUME NEW r, SameBut(job[c], r, {"phase"}), r.phase = "parse"
        PROVE  TempOK(scenario, c, r, None) /\ HandleOK(scenario, r, h)
    <3>1. r.at = job[c].at
      BY <2>3, Fields DEF SameBut
    <3>2. QED BY <2>2, <2>3, <3>1 DEF TempOK, HandleOK
  <2>4. QED BY <1>0, <1>1, <1>5, <2>1, <2>3, LateFacts, Goes1
              DEF JobPhases, Early, Storing, Late, Doctoring, Reading
<1>9. QED BY <1>6, <1>7, <1>8

LEMMA ParseKeeps ==
    ASSUME LocalInv, NEW c \in Active, Parse(c)
    PROVE  LocalInv' /\ DefaultStep
<1> DEFINE e == handle[c]
<1>0. /\ job[c].phase = "parse" /\ UNCHANGED <<temp, scenario>> /\ handle' = [handle EXCEPT ![c] = None]
      /\ job[c].at \in {"npm", "osv"} /\ job[c].phase \in Late
  BY Here DEF Parse, At, disk, JobType, Late
<1>1. DOMAIN handle' = Callers /\ handle'[c] = None /\ \A d \in Callers \ {c} : handle'[d] = handle[d]
  BY <1>0, Here DEF LocalInv
<1>2. DOMAIN temp' = Callers /\ temp'[c] = None /\ \A d \in Callers \ {c} : temp'[d] = temp[d]
  BY <1>0, LateFacts DEF LocalInv
<1>3. CASE c \in aborted
  <2>1. End(c, "cancelled")
    BY <1>3 DEF Parse, Unless
  <2>2. QED BY <1>0, <1>1, <1>2, <2>1, LateEnds
<1>4. CASE c \notin aborted /\ ~Fresh(e, clock)
  <2>1. Lacking(c)
    BY <1>4 DEF Parse, Unless
  <2>2. ResultOK(scenario, job[c].at, Failed("network_error"), "none")
    BY DEF ResultOK, Failed
  <2>3. QED BY <1>0, <1>1, <2>1, <2>2, Lacks DEF Lacking
<1>5. CASE c \notin aborted /\ Fresh(e, clock)
  <2> DEFINE result == IF job[c].at = "npm" THEN [ok |-> TRUE, data |-> e.payload]
                       ELSE [ok |-> TRUE, records |-> e.payload]
  <2>1. job' = [job EXCEPT ![c] = Onward(c, Evidence(c, result, "cache"))]
    BY <1>5 DEF Parse, Unless
  <2>2. job[c].at = "npm" => e.payload \in NpmData(scenario)
    BY <1>0, <1>5, Here DEF HandleOK, Fresh, Corrupt
  <2>3. ResultOK(scenario, job[c].at, result, "cache")
    BY <2>2 DEF ResultOK
  <2> HIDE DEF result
  <2>4. QED BY <1>0, <1>1, <2>1, <2>3, Lacks
<1>6. QED BY <1>3, <1>4, <1>5

\* A step of the writer that changes its temporary file.
LEMMA Stores ==
    ASSUME LocalInv, NEW c \in Active, job[c].phase \in Storing, NEW p \in Storing, NEW t,
           Go(c, p), temp' = [temp EXCEPT ![c] = t], UNCHANGED <<handle, scenario>>,
           t = None \/ IsRecord(t),
           p \in {"fill", "sync", "rename"} =>
              IsRecord(t) /\ (job[c].at = "npm" => t.payload \in NpmData(scenario)),
           p = "rename" => t.state = "synced",
           t # None => p \in {"fill", "sync", "rename", "discard"}
    PROVE  LocalInv' /\ DefaultStep
<1>1. DOMAIN temp' = Callers /\ temp'[c] = t /\ \A d \in Callers \ {c} : temp'[d] = temp[d]
  BY Here DEF LocalInv
<1>2. DOMAIN handle' = Callers /\ handle'[c] = handle[c] /\ \A d \in Callers \ {c} : handle'[d] = handle[d]
  BY DEF LocalInv
<1>3. job[c].phase \in Late /\ job[c].phase # "evaluate"
  BY DEF Late, Storing
<1>4. ASSUME NEW r, SameBut(job[c], r, {"phase"}), r.phase = p
      PROVE  TempOK(scenario, c, r, t) /\ HandleOK(scenario, r, handle[c])
  <2>1. r.at = job[c].at
    BY <1>4, Fields DEF SameBut
  <2>2. QED BY <1>3, <1>4, <2>1, LateFacts DEF TempOK, HandleOK, Storing
<1>5. QED BY <1>1, <1>2, <1>3, <1>4, LateFacts, Goes1 DEF JobPhases, Early, Storing, Doctoring, Reading

LEMMA WriteFailsKeeps ==
    ASSUME LocalInv, NEW c \in Active, WriteFails(c)
    PROVE  LocalInv' /\ DefaultStep
<1>0. job[c].phase \in Storing /\ UNCHANGED <<temp, handle, scenario>> /\ Go(c, "discard")
  BY DEF WriteFails, disk, Storing
<1>1. job[c].phase \in Late
  BY <1>0 DEF Late
<1>2. ASSUME NEW r, SameBut(job[c], r, {"phase"}), r.phase = "discard"
      PROVE  TempOK(scenario, c, r, temp[c]) /\ HandleOK(scenario, r, handle[c])
  BY <1>1, <1>2, LateFacts DEF TempOK, HandleOK
<1>3. QED BY <1>0, <1>1, <1>2, LateFacts, FilesStay, Goes1
            DEF JobPhases, Early, Storing, Doctoring, Reading

LEMMA CreateKeeps ==
    ASSUME LocalInv, NEW c \in Active, Create(c), clock \in 0..MaxClock
    PROVE  LocalInv' /\ DefaultStep
<1> DEFINE t == [state |-> "partial", storedAt |-> clock, expiresAt |-> clock + Ttl[job[c].at],
                 payload |-> Payload(c)]
<1>0. job[c].phase = "create" /\ UNCHANGED <<handle, scenario>> /\ Go(c, "fill")
         /\ temp' = [temp EXCEPT ![c] = t]
  BY DEF Create, Store, At
<1>1. job[c].at \in {"npm", "osv"}
  BY Here DEF JobType
<1>2. IsRecord(t)
  <2>1. Ttl[job[c].at] \in Nat
    BY <1>1, BoundsAssumption
  <2>2. QED BY <2>1 DEF IsRecord
<1>3. job[c].at = "npm" => t.payload \in NpmData(scenario)
  BY <1>0, EvidenceInHand DEF Payload, GoodNpm, Storing
<1> HIDE DEF t
<1>4. QED BY <1>0, <1>2, <1>3, Stores DEF Storing

LEMMA FillKeeps ==
    ASSUME LocalInv, NEW c \in Active, Fill(c)
    PROVE  LocalInv' /\ DefaultStep
<1> DEFINE t == [temp[c] EXCEPT !.state = "unsynced"]
<1>0. job[c].phase = "fill" /\ UNCHANGED <<handle, scenario>> /\ Go(c, "sync")
         /\ temp' = [temp EXCEPT ![c] = t]
  BY DEF Fill, Store, At
<1>1. IsRecord(temp[c]) /\ (job[c].at = "npm" => temp[c].payload \in NpmData(scenario))
  BY <1>0, Here DEF TempOK
<1>2. IsRecord(t) /\ t.payload = temp[c].payload
  BY <1>1 DEF IsRecord
<1> HIDE DEF t
<1>3. QED BY <1>0, <1>1, <1>2, Stores DEF Storing

LEMMA SyncKeeps ==
    ASSUME LocalInv, NEW c \in Active, Sync(c)
    PROVE  LocalInv' /\ DefaultStep
<1> DEFINE t == [temp[c] EXCEPT !.state = "synced"]
<1>0. job[c].phase = "sync" /\ UNCHANGED <<handle, scenario>> /\ Go(c, "rename")
         /\ temp' = [temp EXCEPT ![c] = t]
  BY DEF Sync, Store, At, Synced
<1>1. IsRecord(temp[c]) /\ (job[c].at = "npm" => temp[c].payload \in NpmData(scenario))
  BY <1>0, Here DEF TempOK
<1>2. IsRecord(t) /\ t.payload = temp[c].payload /\ t.state = "synced"
  BY <1>1 DEF IsRecord
<1> HIDE DEF t
<1>3. QED BY <1>0, <1>1, <1>2, Stores DEF Storing

LEMMA RenameKeeps ==
    ASSUME LocalInv, NEW c \in Active, Rename(c)
    PROVE  LocalInv' /\ DefaultStep
<1>0. job[c].phase = "rename" /\ UNCHANGED <<handle, scenario>> /\ Go(c, "published")
         /\ temp' = [temp EXCEPT ![c] = None]
  BY DEF Rename, At
<1>1. QED BY <1>0, Stores DEF Storing

\* Whether stored or not, the evidence is used.
LEMMA Resumes ==
    ASSUME LocalInv, NEW c \in Active, job[c].phase \in Storing, UNCHANGED <<handle, scenario>>,
           DOMAIN temp' = Callers, temp'[c] = None, \A d \in Callers \ {c} : temp'[d] = temp[d],
           Unless(c, job' = [job EXCEPT ![c] = Onward(c, job[c])])
    PROVE  LocalInv' /\ DefaultStep
<1>0. job[c].phase \in Late /\ job[c].phase # "evaluate" /\ DOMAIN handle' = Callers
         /\ handle'[c] = handle[c] /\ \A d \in Callers \ {c} : handle'[d] = handle[d]
  BY DEF Late, Storing, LocalInv
<1>1. CASE c \in aborted
  BY <1>0, <1>1, LateFacts, LateEnds DEF Unless
<1>2. CASE c \notin aborted
  <2>1. job' = [job EXCEPT ![c] = Onward(c, job[c])]
    BY <1>2 DEF Unless
  <2>2. EvidenceOK(scenario, c, job[c])
    BY <1>0, Here, LateFacts, EvidenceInHand DEF JobOK, EvidenceOK
  <2>3. JobOK(scenario, c, Onward(c, job[c])) /\ Onward(c, job[c]).phase \in {"lookup", "evaluate"}
           /\ Onward(c, job[c]).policy = job[c].policy
    BY <2>2, Here, OnwardIsOK
  <2>4. Steps(c, Onward(c, job[c]), None, handle[c])
    BY <1>0, <2>1, Here DEF Steps, LocalInv
  <2>5. QED BY <1>0, <2>3, <2>4, LateFacts, LateStep
<1>3. QED BY <1>1, <1>2

LEMMA WrittenKeeps ==
    ASSUME LocalInv, NEW c \in Active, Written(c)
    PROVE  LocalInv' /\ DefaultStep
<1>0. job[c].phase = "published" /\ UNCHANGED <<temp, handle, scenario>>
         /\ Unless(c, job' = [job EXCEPT ![c] = Onward(c, job[c])])
  BY DEF Written, At, disk
<1>1. DOMAIN temp' = Callers /\ temp'[c] = None /\ \A d \in Callers \ {c} : temp'[d] = temp[d]
  BY <1>0, LateFacts DEF LocalInv, Late, Storing
<1>2. QED BY <1>0, <1>1, Resumes DEF Storing

LEMMA DiscardKeeps ==
    ASSUME LocalInv, NEW c \in Active, Discard(c)
    PROVE  LocalInv' /\ DefaultStep
<1>0. job[c].phase = "discard" /\ UNCHANGED <<handle, scenario>>
         /\ Unless(c, job' = [job EXCEPT ![c] = Onward(c, job[c])])
         /\ temp' = [temp EXCEPT ![c] = None]
  BY DEF Discard, At
<1>1. DOMAIN temp' = Callers /\ temp'[c] = None /\ \A d \in Callers \ {c} : temp'[d] = temp[d]
  BY <1>0, Here DEF LocalInv
<1>2. QED BY <1>0, <1>1, Resumes DEF Storing

-----------------------------------------------------------------------------
(* The verdict.                                                            *)

EvaluationOfCheck(c) ==
    RequireLive(Config(c), EvaluatePolicy(Config(c), scenario.registrySpec,
                                          job[c].npm, job[c].osv, job[c].now), FromCache(c))
AppliedTo(c) == ApplyApprovals(Config(c), Approvals(c), EvaluationOfCheck(c), Resolved(c), job[c].now)

\* The verdict of a check,
LEMMA VerdictIsTyped ==
    ASSUME LocalInv, NEW c \in Active
    PROVE  /\ Config(c) \in LegalConfigs /\ EvaluationOfCheck(c) \in Evaluations
           /\ AppliedTo(c).verdict \in Verdicts /\ AppliedTo(c).approved \in BOOLEAN
           /\ AppliedTo(c).approved =>
                 /\ job[c].approvals # "default"
                 /\ job[c].npm # Absent /\ job[c].npm.ok => job[c].npm.data.semver
<1> DEFINE g == Config(c)
           base == EvaluatePolicy(g, scenario.registrySpec, job[c].npm, job[c].osv, job[c].now)
<1>1. g \in LegalConfigs
  BY Here, ConfigIsPolicy, PolicyIsLegal
<1>2. scenario.registrySpec \in BOOLEAN /\ FromCache(c) \in BOOLEAN
  BY Here DEF IsScenario, FromCache
<1>3. base \in Evaluations
  <2> HIDE DEF g
  <2>1. QED BY <1>1, <1>2, EvaluationIsTyped
<1>4. EvaluationOfCheck(c) \in Evaluations
  <2>1. EvaluationOfCheck(c) = RequireLive(g, base, FromCache(c))
    BY DEF EvaluationOfCheck
  <2> HIDE DEF g, base
  <2>2. QED BY <1>1, <1>2, <1>3, <2>1, LiveEvaluation
<1> DEFINE a == AppliedTo(c)
<1>5. /\ a.verdict \in Verdicts /\ a.approved \in BOOLEAN
      /\ a.approved => Resolved(c) # Absent
                       /\ \E r \in Approvals(c) : Matches(g, r, Resolved(c), job[c].now)
  <2>1. a = ApplyApprovals(g, Approvals(c), EvaluationOfCheck(c), Resolved(c), job[c].now)
    BY DEF AppliedTo
  <2> HIDE DEF a, g
  <2>2. QED BY <1>4, <2>1, ApprovalsApplied
<1>6. ASSUME a.approved
      PROVE  /\ job[c].approvals # "default"
             /\ job[c].npm # Absent /\ job[c].npm.ok => job[c].npm.data.semver
  <2>1. PICK r \in Approvals(c) : Matches(g, r, Resolved(c), job[c].now)
    <3> HIDE DEF a, g
    <3>1. QED BY <1>5, <1>6
  <2>2. job[c].approvals # "default" /\ r \in scenario.approvals
    BY DEF Approvals
  <2>3. r.version = Resolved(c)
    BY <2>1 DEF Matches
  <2>4. ASSUME job[c].npm # Absent, job[c].npm.ok
        PROVE  job[c].npm.data.semver
    <3>1. r.version = job[c].npm.data.version
      BY <2>3, <2>4 DEF Resolved
    <3>2. job[c].npm.data \in NpmData(scenario)
      BY <2>4, Here DEF JobOK, NpmOK
    <3>3. QED BY <2>2, <3>1, <3>2, Here DEF IsScenario
  <2>5. QED BY <2>2, <2>4
<1> HIDE DEF a, g
<1>7. QED BY <1>1, <1>4, <1>5, <1>6 DEF a, g

\* which malice makes severe,
LEMMA VerdictIsSevere ==
    ASSUME LocalInv, NEW c \in Active, PolicyOf(scenario, job[c]).npm,
           \/ job[c].npm = Failed("not_found")
           \/ /\ job[c].npm # Absent /\ job[c].npm.ok /\ job[c].npm.data.semver
              /\ job[c].osv # Absent /\ job[c].osv.ok /\ Malicious(job[c].osv.records) # {}
    PROVE  AppliedTo(c).verdict \in {"block", "error"}
<1> DEFINE g == Config(c)
           base == EvaluatePolicy(g, TRUE, job[c].npm, job[c].osv, job[c].now)
           l == EvaluationOfCheck(c)
           a == AppliedTo(c)
<1>1. g = PolicyOf(scenario, job[c]) /\ g \in LegalConfigs /\ l \in Evaluations
  BY ConfigIsPolicy, VerdictIsTyped
<1>2. scenario.registrySpec = TRUE
  BY AbsentAssumption, Here DEF JobOK, SpecOK, IsScenario
<1>3. job[c].osv # Absent => g.osv
  BY <1>1, Here DEF JobOK, OsvOK
<1>4. FromCache(c) \in BOOLEAN /\ TRUE \in BOOLEAN
  BY DEF FromCache
<1>41. l = RequireLive(g, base, FromCache(c))
  BY <1>2 DEF EvaluationOfCheck
<1> HIDE DEF g
<1>51. g.npm
  BY <1>1
<1>52. \E f \in base.findings : f.verdict = "block"
  <2> DEFINE npm == job[c].npm
             osv == job[c].osv
  <2>1. \/ npm = Failed("not_found")
        \/ /\ npm # Absent /\ npm.ok /\ npm.data.semver
           /\ g.osv /\ osv # Absent /\ osv.ok /\ Malicious(osv.records) # {}
    BY <1>3
  <2>2. base = EvaluatePolicy(g, TRUE, npm, osv, job[c].now)
    OBVIOUS
  <2> HIDE DEF npm, osv, base
  <2>3. QED BY <1>1, <1>51, <2>1, <2>2, MaliceIsFound
<1>53. base \in Evaluations
  BY <1>1, <1>4, EvaluationIsTyped
<1> HIDE DEF base, l
<1>6. \E f \in l.findings : f.verdict = "block"
  BY <1>1, <1>4, <1>41, <1>52, <1>53, LiveEvaluation
<1>7. a = ApplyApprovals(g, Approvals(c), l, Resolved(c), job[c].now)
  BY DEF g, l, AppliedTo
<1> HIDE DEF a
<1>8. a.verdict \in {"block", "error"}
  BY <1>1, <1>6, <1>7, ApprovalsApplied
<1>9. QED BY <1>8 DEF a

\* and what it rests on when it admits.
LEMMA AdmissionRestsOn ==
    ASSUME LocalInv, NEW c \in Active, Admits(AppliedTo(c).verdict), scenario.registrySpec,
           ~AppliedTo(c).approved \/ Strict(PolicyOf(scenario, job[c]))
    PROVE  /\ job[c].npmFrom = "live"
           /\ PolicyOf(scenario, job[c]).osv =>
                 job[c].osvFrom = "live" /\ Malicious(AdvisoriesOf(scenario)) = {}
           /\ ~AppliedTo(c).approved /\ PolicyOf(scenario, job[c]).osv
                 /\ PolicyOf(scenario, job[c]).action["PG011"] \in {"review", "block"}
              => Vulnerabilities(PolicyOf(scenario, job[c]), AdvisoriesOf(scenario)) = {}
<1> DEFINE g == Config(c)
           cached == FromCache(c)
           a == AppliedTo(c)
           npm == job[c].npm
           osv == job[c].osv
<1>1. g = PolicyOf(scenario, job[c]) /\ g \in LegalConfigs /\ a.approved \in BOOLEAN
         /\ cached \in BOOLEAN
  BY ConfigIsPolicy, VerdictIsTyped DEF FromCache
<1>2. npm # Absent /\ npm.ok /\ ~npm.data.semver => ~a.approved
  BY VerdictIsTyped
<1>3. scenario.registrySpec = TRUE
  BY Here DEF IsScenario
<1>4. a = ApplyApprovals(g, Approvals(c),
              RequireLive(g, EvaluatePolicy(g, TRUE, npm, osv, job[c].now), cached), Resolved(c), job[c].now)
  BY <1>3 DEF AppliedTo, EvaluationOfCheck
<1>5. ~a.approved \/ Strict(g)
  BY <1>1
<1>6. /\ npm # Absent /\ npm.ok /\ ~cached
      /\ g.osv => osv # Absent /\ osv.ok /\ Malicious(osv.records) = {}
      /\ ~a.approved /\ g.osv /\ g.action["PG011"] \in {"review", "block"}
            => Vulnerabilities(g, osv.records) = {}
  <2>1. Admits(a.verdict)
    OBVIOUS
  <2> HIDE DEF g, a, npm, osv, cached
  <2>2. QED BY <1>1, <1>2, <1>4, <1>5, <2>1, AdmissionIsLive
<1>7. job[c].npmFrom # "cache" /\ job[c].osvFrom # "cache"
  BY <1>6 DEF FromCache
<1>8. job[c].npmFrom = "live"
  BY <1>6, <1>7, Here DEF JobOK, JobType, NpmOK
<1>9. g.osv => job[c].osvFrom = "live" /\ osv.records = AdvisoriesOf(scenario)
  BY <1>6, <1>7, Here DEF JobOK, JobType, OsvOK
<1> HIDE DEF g, a, osv
<1>10. QED BY <1>1, <1>6, <1>8, <1>9 DEF a, osv

LEMMA EvaluateKeeps ==
    ASSUME LocalInv, NEW c \in Active, Evaluate(c)
    PROVE  LocalInv' /\ DefaultStep
<1> DEFINE a == AppliedTo(c)
           j == job[c]
           r == [job[c] EXCEPT !.phase = "done", !.outcome = a.verdict, !.approved = a.approved]
<1>0. job[c].phase = "evaluate" /\ UNCHANGED <<temp, handle, scenario>>
  BY DEF Evaluate, At, disk
<1>1. CASE c \in aborted
  <2>1. End(c, "cancelled")
    BY <1>1 DEF Evaluate, Unless
  <2>2. QED BY <1>0, <2>1, LateStops DEF Late, Storing
<1>2. CASE c \notin aborted
  <2>1. job' = [job EXCEPT ![c] = r]
    BY <1>2 DEF Evaluate, Unless, AppliedTo, EvaluationOfCheck
  <2>2. /\ a.verdict \in Verdicts /\ a.approved \in BOOLEAN
        /\ a.approved => job[c].approvals # "default"
    BY VerdictIsTyped
  <2> HIDE DEF a
  <2>3. SameBut(j, r, {"phase", "outcome", "approved"}) /\ r.phase = "done"
           /\ r.outcome = a.verdict /\ r.approved = a.approved
    BY Here, Fields DEF SameBut
  <2> HIDE DEF r
  <2>4. /\ r.npm = j.npm /\ r.osv = j.osv /\ r.npmFrom = j.npmFrom /\ r.osvFrom = j.osvFrom
        /\ r.at = j.at /\ r.page = j.page /\ r.records = j.records /\ r.policy = j.policy
        /\ r.approvals = j.approvals
    BY <2>3, Fields DEF SameBut
  <2>5. PolicyOf(scenario, r) = PolicyOf(scenario, j)
    BY <2>4 DEF PolicyOf
  <2>6. JobType(r)
    BY <2>2, <2>3, Here, Fields, NoVerdict DEF SameBut, JobType, JobPhases
  <2>7. NpmOK(scenario, r) /\ OsvOK(scenario, r) /\ AtOK(scenario, r) /\ PageOK(scenario, r)
           /\ DocOK(scenario, c, r)
    BY <2>4, <2>5, Here DEF JobOK, NpmOK, OsvOK, AtOK, PageOK, DocOK
  <2>8. EarlyOK(r) /\ StoreOK(scenario, r)
    BY <2>3 DEF EarlyOK, StoreOK, Early, Storing, Doctoring, Reading
  <2>9. SpecOK(scenario, r)
    BY <2>3, <2>4, Here DEF JobOK, SpecOK, Late, Storing
  <2>10. ToolOK(scenario, c, r)
    BY <1>0, <2>2, <2>3, Here DEF JobOK, ToolOK, Late, Storing, Doctoring
  <2>11. MaliceOK(scenario, r)
    BY <2>3, <2>4, <2>5, VerdictIsSevere DEF MaliceOK, a
  <2>12. AdmissionOK(scenario, r)
    BY <2>2, <2>3, <2>4, <2>5, AdmissionRestsOn DEF AdmissionOK, a
  <2>13. JobOK(scenario, c, r)
    BY <2>6, <2>7, <2>8, <2>9, <2>10, <2>11, <2>12 DEF JobOK, VerdictOK
  <2>14. temp[c] = None /\ (handle[c] = None \/ IsRecord(handle[c]))
    BY <1>0, LateFacts DEF Late
  <2>15. Steps(c, r, temp[c], handle[c])
    BY <1>0, <2>1, JobSteps
  <2>16. QED BY <1>0, <2>3, <2>4, <2>13, <2>14, <2>15, LateStep
<1>3. QED BY <1>1, <1>2

-----------------------------------------------------------------------------
(* Every step of a check keeps the invariant of the checks.                *)

\* Every step of a check.
LEMMA CheckStepKeeps ==
    ASSUME CheckInv, NEW c \in Active, CheckStep(c)
    PROVE  LocalInv' /\ DefaultStep
<1>0. LocalInv /\ HttpInv /\ EntryInv /\ clock \in 0..MaxClock
  BY DEF CheckInv
<1>1. CASE InspectRoot(c) \/ MakeRoot(c) \/ CreateProbe(c) \/ RemoveProbe(c) \/ Report(c)
  BY <1>0, <1>1, InspectRootKeeps, MakeRootKeeps, CreateProbeKeeps, RemoveProbeKeeps, ReportKeeps
<1>2. CASE Start(c) \/ Inspect(c) \/ OpenDocument(c) \/ CloseDocument(c)
  BY <1>0, <1>2, StartKeeps, InspectKeeps, OpenDocumentKeeps, CloseDocumentKeeps
<1>3. CASE Lookup(c) \/ Answered(c) \/ Open(c) \/ Parse(c) \/ Evaluate(c)
  BY <1>0, <1>3, LookupKeeps, AnsweredKeeps, OpenKeeps, ParseKeeps, EvaluateKeeps
<1>4. CASE WriteFails(c) \/ Create(c) \/ Fill(c) \/ Sync(c) \/ Rename(c) \/ Written(c) \/ Discard(c)
  BY <1>0, <1>4, WriteFailsKeeps, CreateKeeps, FillKeeps, SyncKeeps, RenameKeeps, WrittenKeeps, DiscardKeeps
<1>5. QED BY <1>1, <1>2, <1>3, <1>4 DEF CheckStep

\* Many checks at a time change their phase.
LEMMA ManySteps ==
    ASSUME LocalInv, UNCHANGED <<scenario, handle>>, DOMAIN job' = Callers, DOMAIN temp' = Callers,
           \A c \in Active : job'[c].policy = job[c].policy
                             /\ LocalOK(scenario, c, job'[c], temp'[c], handle[c])
    PROVE  LocalInv' /\ DefaultStep
BY DEF LocalInv, DefaultStep, Active

LEMMA ChecksRest ==
    ASSUME LocalInv, UNCHANGED <<scenario, job, temp, handle>>
    PROVE  LocalInv' /\ DefaultStep
BY DEF LocalInv, DefaultStep, Active

\* What was synchronized outlives the power.
LEMMA LosesNothingKnown ==
    ASSUME NEW e, e = None \/ IsRecord(e)
    PROVE  /\ Lost(e) = None \/ IsRecord(Lost(e))
           /\ e = None => Lost(e) = None
           /\ e # None /\ e.state \in {"synced", "garbage"} => Lost(e) = e
<1>1. CASE e # None /\ e.state = "unsynced"
  <2>1. Lost(e) = [e EXCEPT !.state = "partial"]
    BY <1>1 DEF Lost
  <2>2. IsRecord([e EXCEPT !.state = "partial"])
    BY <1>1 DEF IsRecord
  <2>3. QED BY <1>1, <2>1, <2>2
<1>2. CASE ~(e # None /\ e.state = "unsynced")
  BY <1>2 DEF Lost
<1>3. QED BY <1>1, <1>2

\* A check that is killed, while its files stay or lose what was not synchronized.
LEMMA Dies ==
    ASSUME LocalInv, NEW c \in Active, NEW j, NEW t,
           j = job[c] \/ (Working(c) /\ j = [job[c] EXCEPT !.phase = "dead"]),
           Working(c) => j.phase = "dead",
           t = temp[c] \/ (t = Lost(temp[c]) /\ (Working(c) \/ job[c].phase \in {"idle", "done", "dead"}))
    PROVE  j.policy = job[c].policy /\ LocalOK(scenario, c, j, t, handle[c])
<1>0. /\ JobOK(scenario, c, job[c]) /\ DOMAIN job[c] = JobFields
      /\ TempOK(scenario, c, job[c], temp[c]) /\ HandleOK(scenario, job[c], handle[c])
      /\ JobType(job[c]) /\ scenario \in Scenarios
  BY Here
<1>1. t = None \/ IsRecord(t)
  BY <1>0, LosesNothingKnown DEF TempOK
<1>2. CASE Working(c)
  <2> DEFINE r == [job[c] EXCEPT !.phase = "dead"]
  <2>1. j = r
    BY <1>0, <1>2 DEF Working
  <2>2. SameBut(job[c], r, {"phase"}) /\ r.phase = "dead"
    BY <1>0, Fields DEF SameBut
  <2> HIDE DEF r
  <2>3. SameBut(job[c], r, {"phase", "cache", "doc", "seen", "held", "now", "outcome", "approvals"})
    BY <2>2 DEF SameBut
  <2>4. job[c].outcome = "none" /\ r.outcome = "none" /\ r.policy = job[c].policy
    BY <1>0, <1>2, <2>2, Fields DEF SameBut, Working, JobType
  <2>5. JobType(r)
    BY <1>0, <2>2, <2>4, Fields, NoVerdict DEF SameBut, JobType, JobPhases
  <2>6. JobOK(scenario, c, r)
    BY <1>0, <2>2, <2>3, <2>4, <2>5, Moved, NoVerdict DEF Early, Storing, Late, Doctoring, Reading
  <2>7. TempOK(scenario, c, r, t) /\ HandleOK(scenario, r, handle[c])
    BY <1>0, <1>1, <2>2 DEF TempOK, HandleOK
  <2>8. QED BY <2>1, <2>4, <2>6, <2>7 DEF LocalOK
<1>3. CASE ~Working(c)
  <2>1. j = job[c]
    BY <1>3
  <2>2. TempOK(scenario, c, j, t)
    <3>1. CASE t = temp[c]
      BY <1>0, <2>1, <3>1
    <3>2. CASE t = Lost(temp[c]) /\ job[c].phase \in {"idle", "done", "dead"}
      <4>1. temp[c] = None => t = None
        BY <3>2, LosesNothingKnown
      <4>2. QED BY <1>0, <1>1, <2>1, <3>2, <4>1 DEF TempOK
    <3>3. QED BY <1>3, <3>1, <3>2
  <2>3. QED BY <1>0, <2>1, <2>2 DEF LocalOK
<1>4. QED BY <1>2, <1>3

LEMMA KillKeeps ==
    ASSUME LocalInv, NEW c \in Active, Kill(c)
    PROVE  LocalInv' /\ DefaultStep
<1> DEFINE cs == IF scenario.scan THEN Active ELSE {c}
<1>0. Die(cs) /\ UNCHANGED <<temp, handle, scenario>>
  BY DEF Kill, disk
<1> HIDE DEF cs
<1>1. DOMAIN job' = Callers /\ DOMAIN temp' = Callers
  BY <1>0 DEF Die, LocalInv
<1>2. ASSUME NEW d \in Active
      PROVE  job'[d].policy = job[d].policy /\ LocalOK(scenario, d, job'[d], temp'[d], handle[d])
  <2>1. d \in Callers /\ DOMAIN job[d] = JobFields
    BY Here
  <2>2. job'[d] = IF d \in cs /\ Working(d) THEN [job[d] EXCEPT !.phase = "dead"] ELSE job[d]
    BY <1>0, <2>1 DEF Die
  <2>3. CASE d \in cs /\ Working(d)
    <3>1. job'[d] = [job[d] EXCEPT !.phase = "dead"] /\ job'[d].phase = "dead"
      BY <2>1, <2>2, <2>3, Fields
    <3>2. QED BY <1>0, <2>3, <3>1, Dies
  <2>4. CASE ~(d \in cs /\ Working(d))
    BY <1>0, <2>2, <2>4, Here DEF LocalOK
  <2>5. QED BY <2>3, <2>4
<1>3. QED BY <1>0, <1>1, <1>2, ManySteps

LEMMA PowerFailsKeeps ==
    ASSUME LocalInv, PowerFails
    PROVE  LocalInv' /\ DefaultStep
<1>0. Die(Active) /\ UNCHANGED <<handle, scenario>> /\ temp' = [c \in Callers |-> Lost(temp[c])]
  BY DEF PowerFails
<1>1. DOMAIN job' = Callers /\ DOMAIN temp' = Callers
  BY <1>0 DEF Die
<1>2. ASSUME NEW d \in Active
      PROVE  job'[d].policy = job[d].policy /\ LocalOK(scenario, d, job'[d], temp'[d], handle[d])
  <2>1. d \in Callers /\ DOMAIN job[d] = JobFields /\ job[d].phase \in JobPhases
    BY Here DEF JobType
  <2>2. /\ job'[d] = IF Working(d) THEN [job[d] EXCEPT !.phase = "dead"] ELSE job[d]
        /\ temp'[d] = Lost(temp[d])
    BY <1>0, <2>1 DEF Die
  <2>3. CASE Working(d)
    <3>1. job'[d] = [job[d] EXCEPT !.phase = "dead"] /\ job'[d].phase = "dead"
      BY <2>1, <2>2, <2>3, Fields
    <3>2. QED BY <2>2, <2>3, <3>1, Dies
  <2>4. CASE ~Working(d)
    <3>1. job'[d] = job[d] /\ job[d].phase \in {"idle", "done", "dead"}
      BY <2>2, <2>4 DEF Working
    <3>2. QED BY <2>2, <2>4, <3>1, Dies
  <2>5. QED BY <2>3, <2>4
<1>3. QED BY <1>0, <1>1, <1>2, ManySteps

-----------------------------------------------------------------------------
(* The requests.                                                           *)

GoodCall(k) == k \in Calls /\ (k.phase = "pausing" => k.attempt < MaxRetries)
CallsInv == call \in [Callers -> Calls] /\ PausingInv
RequestKept(c) ==
    /\ CallsInv'
    /\ \A d \in Callers \ {c} : call'[d] = call[d]

\* The records of requests.
LEMMA NoCallIsTyped == NoCall \in Calls
BY HttpAssumption DEF Calls, NoCall, CallPhases, Methods

LEMMA CallFinishes ==
    ASSUME NEW n \in Calls, NEW o \in HttpErrors \cup {"none", "json", "cancelled"},
           NEW k, k = [n EXCEPT !.phase = "done", !.outcome = o]
    PROVE  k \in Calls /\ k.phase = "done"
BY DEF Calls, CallPhases

LEMMA CallMoves ==
    ASSUME NEW n \in Calls, NEW p \in CallPhases, NEW k, k = [n EXCEPT !.phase = p]
    PROVE  k \in Calls /\ k.phase = p /\ k.attempt = n.attempt
BY DEF Calls

LEMMA CallCloses ==
    ASSUME NEW n \in Calls, NEW e \in HttpErrors, NEW k, k = [n EXCEPT !.phase = "closing", !.error = e]
    PROVE  k \in Calls /\ k.phase = "closing"
BY DEF Calls, CallPhases

LEMMA CallStops ==
    ASSUME NEW n \in Calls, NEW x \in {"parent", "timeout"}, NEW k, k = [n EXCEPT !.cause = x]
    PROVE  k \in Calls /\ k.phase = n.phase /\ k.attempt = n.attempt
BY DEF Calls

LEMMA CallHops ==
    ASSUME NEW n \in Calls, n.hops # MaxRedirects, NEW k, k = [n EXCEPT !.hops = @ + 1]
    PROVE  k \in Calls /\ k.phase = n.phase /\ k.attempt = n.attempt
<1>1. n.hops + 1 \in 0..MaxRedirects
  BY HttpAssumption DEF Calls
<1>2. QED BY <1>1 DEF Calls

\* A request moves to a record of the right kind.
LEMMA CallSteps ==
    ASSUME CallsInv, NEW c \in Callers, NEW k, GoodCall(k), call' = [call EXCEPT ![c] = k]
    PROVE  RequestKept(c)
BY DEF CallsInv, PausingInv, GoodCall, RequestKept

LEMMA CallIsTyped ==
    ASSUME CallsInv, NEW c \in Callers
    PROVE  /\ call[c] \in Calls /\ GoodCall(call[c])
           /\ call[c].attempt \in 0..MaxRetries /\ call[c].hops \in 0..MaxRedirects
           /\ call[c].method \in Methods /\ call[c].error \in HttpErrors \cup {"none"}
BY DEF CallsInv, PausingInv, GoodCall, Calls

LEMMA FinishKeeps ==
    ASSUME CallsInv, NEW c \in Callers, NEW o \in HttpErrors \cup {"none", "json", "cancelled"}, Finish(c, o)
    PROVE  RequestKept(c) /\ call'[c].phase = "done"
<1> DEFINE k == [NoCall EXCEPT !.phase = "done", !.outcome = o]
<1>1. k \in Calls /\ k.phase = "done"
  BY NoCallIsTyped, CallFinishes
<1>2. call' = [call EXCEPT ![c] = k]
  BY DEF Finish
<1> HIDE DEF k
<1>3. GoodCall(k) /\ call'[c] = k
  BY <1>1, <1>2 DEF GoodCall, CallsInv
<1>4. QED BY <1>1, <1>2, <1>3, CallSteps

LEMMA AttemptKeeps ==
    ASSUME CallsInv, NEW c \in Callers, NEW m \in Methods, NEW n \in 0..MaxRetries, Attempt(c, m, n)
    PROVE  RequestKept(c)
<1> DEFINE x == IF c \in aborted THEN "parent" ELSE "none"
           k == [NoCall EXCEPT !.phase = "waiting", !.method = m, !.attempt = n, !.cause = x]
<1>1. k \in Calls /\ k.phase = "waiting"
  <2>1. x \in {"none", "parent", "timeout"}
    OBVIOUS
  <2>2. k = [NoCall EXCEPT !.phase = "waiting", !.method = m, !.attempt = n, !.cause = x]
    OBVIOUS
  <2> HIDE DEF x, k
  <2>3. QED BY <2>1, <2>2, NoCallIsTyped DEF Calls, CallPhases
<1>2. call' = [call EXCEPT ![c] = k]
  BY DEF Attempt
<1> HIDE DEF k
<1>3. GoodCall(k)
  BY <1>1 DEF GoodCall
<1>4. QED BY <1>2, <1>3, CallSteps

LEMMA ThrownKeeps ==
    ASSUME CallsInv, NEW c \in Callers, NEW e \in HttpErrors \cup {"none"}, Thrown(c, e)
    PROVE  RequestKept(c) /\ call'[c].phase \in {"done", "pausing"}
<1>1. CASE c \in aborted /\ e # "timeout"
  BY <1>1, FinishKeeps DEF Thrown
<1>2. CASE ~(c \in aborted /\ e # "timeout") /\ (call[c].attempt = MaxRetries \/ e \notin Retryable)
  BY <1>2, FinishKeeps DEF Thrown
<1>3. CASE ~(c \in aborted /\ e # "timeout") /\ ~(call[c].attempt = MaxRetries \/ e \notin Retryable)
  <2> DEFINE k == [call[c] EXCEPT !.phase = "pausing"]
  <2>1. call' = [call EXCEPT ![c] = k]
    BY <1>3 DEF Thrown
  <2>2. k \in Calls /\ k.phase = "pausing" /\ k.attempt = call[c].attempt
    BY CallIsTyped, CallMoves DEF CallPhases
  <2> HIDE DEF k
  <2>3. GoodCall(k) /\ call'[c] = k
    BY <1>3, <2>1, <2>2, CallIsTyped, HttpAssumption DEF GoodCall, CallsInv
  <2>4. QED BY <2>1, <2>2, <2>3, CallSteps
<1>4. QED BY <1>1, <1>2, <1>3

LEMMA SettleKeeps ==
    ASSUME CallsInv, NEW c \in Callers, NEW e \in HttpErrors \cup {"none"}, Settle(c, e)
    PROVE  RequestKept(c) /\ call'[c].phase \in {"done", "pausing"}
<1>1. Finish(c, "cancelled") \/ Thrown(c, "timeout") \/ Thrown(c, e)
  BY DEF Settle
<1>2. "timeout" \in HttpErrors
  BY DEF HttpErrors
<1>3. QED BY <1>1, <1>2, FinishKeeps, ThrownKeeps

LEMMA CloseKeeps ==
    ASSUME CallsInv, NEW c \in Callers, NEW e \in HttpErrors, Close(c, e)
    PROVE  RequestKept(c) /\ call'[c].phase = "closing"
<1> DEFINE k == [call[c] EXCEPT !.phase = "closing", !.error = e]
<1>1. call' = [call EXCEPT ![c] = k]
  BY DEF Close
<1>2. k \in Calls /\ k.phase = "closing"
  BY CallIsTyped, CallCloses
<1> HIDE DEF k
<1>3. GoodCall(k) /\ call'[c] = k
  BY <1>1, <1>2 DEF GoodCall, CallsInv
<1>4. QED BY <1>1, <1>2, <1>3, CallSteps

\* A field other than the attempt changes, while the request goes on.
LEMMA GoesOn ==
    ASSUME CallsInv, NEW c \in Callers, NEW k \in Calls, call' = [call EXCEPT ![c] = k],
           k.phase = "pausing" => call[c].phase = "pausing", k.attempt = call[c].attempt
    PROVE  RequestKept(c) /\ call'[c] = k
<1>1. GoodCall(k) /\ call'[c] = k
  BY CallIsTyped DEF GoodCall, CallsInv
<1>2. QED BY <1>1, CallSteps

\* The steps of the client: an aborted one asks for nothing more.
LEMMA ClientKeeps ==
    ASSUME CallsInv, NEW c \in Callers, ClientStep(c)
    PROVE  /\ RequestKept(c) /\ UNCHANGED <<aborted, faults>>
           /\ c \in aborted /\ call'[c].phase = "waiting" => call[c].phase = "waiting"
<1>0. "network_error" \in HttpErrors /\ UNCHANGED <<aborted, faults>>
  BY DEF HttpErrors, ClientStep, Rejected, Closed, PauseEnds, TimerFires
<1>1. CASE Rejected(c)
  BY <1>0, <1>1, SettleKeeps DEF Rejected
<1>2. CASE Closed(c)
  BY <1>0, <1>2, CallIsTyped, SettleKeeps DEF Closed
<1>3. CASE PauseEnds(c) /\ c \in aborted
  BY <1>0, <1>3, FinishKeeps DEF PauseEnds, PauseRejected
<1>4. CASE PauseEnds(c) /\ c \notin aborted
  <2>1. Attempt(c, call[c].method, call[c].attempt + 1) /\ call[c].phase = "pausing"
    BY <1>4 DEF PauseEnds, PauseRejected
  <2>2. call[c].attempt + 1 \in 0..MaxRetries
    BY <2>1, CallIsTyped, HttpAssumption DEF GoodCall
  <2>3. QED BY <1>0, <1>4, <2>1, <2>2, CallIsTyped, AttemptKeeps
<1>5. CASE TimerFires(c)
  <2> DEFINE k == [call[c] EXCEPT !.cause = "timeout"]
  <2>1. call' = [call EXCEPT ![c] = k]
    BY <1>5 DEF TimerFires
  <2>2. k \in Calls /\ k.phase = call[c].phase /\ k.attempt = call[c].attempt
    BY CallIsTyped, CallStops
  <2> HIDE DEF k
  <2>3. RequestKept(c) /\ call'[c] = k
    BY <2>1, <2>2, GoesOn
  <2>4. QED BY <1>0, <2>2, <2>3
<1>6. QED BY <1>1, <1>2, <1>3, <1>4, <1>5 DEF ClientStep

\* Those of the network.
LEMMA NetworkKeeps ==
    ASSUME CallsInv, NEW c \in Callers, NetworkStep(c), faults \in Nat
    PROVE  /\ RequestKept(c) /\ UNCHANGED aborted /\ faults' \in Nat
           /\ call'[c].phase = "waiting" => call[c].phase = "waiting"
<1>0. UNCHANGED aborted /\ faults' \in Nat
  BY DEF NetworkStep, GoodHeaders, GoodBody, BadStatus, Redirect, Unreachable, BadBody, Fault
<1>1. CASE GoodHeaders(c)
  <2> DEFINE k == [call[c] EXCEPT !.phase = "body"]
  <2>1. call' = [call EXCEPT ![c] = k]
    BY <1>1 DEF GoodHeaders
  <2>2. k \in Calls /\ k.phase = "body" /\ k.attempt = call[c].attempt
    BY CallIsTyped, CallMoves DEF CallPhases
  <2> HIDE DEF k
  <2>3. RequestKept(c) /\ call'[c] = k
    BY <2>1, <2>2, GoesOn
  <2>4. QED BY <1>0, <2>2, <2>3
<1>2. CASE GoodBody(c)
  BY <1>0, <1>2, FinishKeeps DEF GoodBody
<1>3. CASE BadStatus(c)
  <2>1. PICK e \in HttpErrors : Close(c, e)
    BY <1>3 DEF BadStatus, HttpErrors
  <2>2. RequestKept(c) /\ call'[c].phase = "closing"
    BY <2>1, CloseKeeps
  <2>3. QED BY <1>0, <2>2
<1>4. CASE Redirect(c)
  <2>0. call[c].phase = "waiting"
    BY <1>4 DEF Redirect, Pending
  <2>1. ASSUME NEW e \in HttpErrors, Close(c, e)
        PROVE  RequestKept(c)
    BY <2>1, CloseKeeps
  <2>2. ASSUME call[c].hops # MaxRedirects, call' = [call EXCEPT ![c].hops = @ + 1]
        PROVE  RequestKept(c)
    <3> DEFINE k == [call[c] EXCEPT !.hops = @ + 1]
    <3>1. call' = [call EXCEPT ![c] = k]
      BY <2>2
    <3>2. k \in Calls /\ k.phase = call[c].phase /\ k.attempt = call[c].attempt
      BY <2>2, CallIsTyped, CallHops
    <3> HIDE DEF k
    <3>3. QED BY <3>1, <3>2, GoesOn
  <2>3. RequestKept(c)
    BY <1>4, <2>1, <2>2 DEF Redirect, HttpErrors
  <2>4. QED BY <1>0, <2>0, <2>3
<1>5. CASE Unreachable(c)
  <2>1. "network_error" \in HttpErrors
    BY DEF HttpErrors
  <2>2. QED BY <1>0, <1>5, <2>1, ThrownKeeps DEF Unreachable
<1>6. CASE BadBody(c)
  <2>1. "invalid_response" \in HttpErrors
    BY DEF HttpErrors
  <2>2. QED BY <1>0, <1>6, <2>1, ThrownKeeps, CloseKeeps DEF BadBody
<1>7. QED BY <1>1, <1>2, <1>3, <1>4, <1>5, <1>6 DEF NetworkStep

\* A request is made: an aborted one ends at once.
LEMMA AskKeeps ==
    ASSUME CallsInv, NEW c \in Callers, NEW m \in Methods, Ask(c, m)
    PROVE  RequestKept(c) /\ (c \in aborted => call'[c].phase = "done")
<1>1. CASE c \in aborted
  BY <1>1, FinishKeeps DEF Ask
<1>2. CASE c \notin aborted
  <2>1. 0 \in 0..MaxRetries
    BY HttpAssumption
  <2>2. QED BY <1>2, <2>1, AttemptKeeps DEF Ask
<1>3. QED BY <1>1, <1>2

\* The signals: they change no phase.
LEMMA AbortKeeps ==
    ASSUME CallsInv, NEW cs \in SUBSET Callers, Abort(cs), aborted \subseteq Callers
    PROVE  /\ CallsInv' /\ aborted' \subseteq Callers /\ UNCHANGED faults
           /\ \A c \in Callers : call'[c].phase = call[c].phase
<1>1. aborted' \subseteq Callers /\ UNCHANGED faults
  BY DEF Abort
<1>2. \A c \in Callers : call'[c] = IF c \in cs /\ Running(c) /\ call[c].cause = "none"
                                   THEN [call[c] EXCEPT !.cause = "parent"] ELSE call[c]
  BY DEF Abort
<1>3. ASSUME NEW c \in Callers
      PROVE  /\ call'[c] \in Calls
             /\ call'[c].phase = call[c].phase /\ call'[c].attempt = call[c].attempt
  <2> DEFINE k == [call[c] EXCEPT !.cause = "parent"]
  <2>1. k \in Calls /\ k.phase = call[c].phase /\ k.attempt = call[c].attempt
    BY CallIsTyped, CallStops
  <2>2. call'[c] = k \/ call'[c] = call[c]
    BY <1>2
  <2> HIDE DEF k
  <2>3. QED BY <2>1, <2>2, CallIsTyped
<1>4. call' \in [Callers -> Calls]
  <2>1. call' = [c \in Callers |-> IF c \in cs /\ Running(c) /\ call[c].cause = "none"
                                   THEN [call[c] EXCEPT !.cause = "parent"] ELSE call[c]]
    BY DEF Abort
  <2>2. call' = [c \in Callers |-> call'[c]]
    BY <2>1
  <2>3. QED BY <1>3, <2>2
<1>5. PausingInv'
  BY <1>3 DEF CallsInv, PausingInv
<1>6. QED BY <1>1, <1>3, <1>4, <1>5 DEF CallsInv

-----------------------------------------------------------------------------
(* Every step keeps the invariant of the checks.                           *)

\* What a step of a check leaves alone.
LEMMA CheckStepFrame ==
    ASSUME NEW c, CheckStep(c)
    PROVE  /\ UNCHANGED <<scenario, clock, moves, crashes, documents, aborted, scan>>
           /\ Lookup(c) \/ Answered(c) \/ UNCHANGED call
           /\ WriteFails(c) \/ UNCHANGED faults
           /\ Rename(c) \/ UNCHANGED entry
<1>1. CASE InspectRoot(c) \/ MakeRoot(c) \/ CreateProbe(c) \/ RemoveProbe(c) \/ Report(c)
  BY <1>1 DEF InspectRoot, MakeRoot, CreateProbe, RemoveProbe, Report, httpVars, world, disk
<1>2. CASE Start(c) \/ Inspect(c) \/ OpenDocument(c) \/ CloseDocument(c)
  BY <1>2 DEF Start, Inspect, OpenDocument, CloseDocument, httpVars, world, disk
<1>3. CASE Lookup(c) \/ Answered(c)
  BY <1>3 DEF Lookup, Answered, httpVars, world, disk
<1>4. CASE Open(c) \/ Parse(c) \/ Evaluate(c)
  BY <1>4 DEF Open, Parse, Evaluate, httpVars, world, disk
<1>5. CASE WriteFails(c)
  BY <1>5 DEF WriteFails, Fault, world, disk
<1>6. CASE Create(c) \/ Fill(c) \/ Sync(c) \/ Rename(c) \/ Written(c) \/ Discard(c)
  BY <1>6 DEF Create, Fill, Sync, Rename, Written, Discard, Store, httpVars, world, disk
<1>7. QED BY <1>1, <1>2, <1>3, <1>4, <1>5, <1>6 DEF CheckStep

\* The invariant of the requests, by its parts.
LEMMA HttpParts ==
    HttpInv <=> (/\ aborted \subseteq Callers /\ faults \in Nat /\ CallsInv
                 /\ aborted # {} => scenario.abortable)
BY DEF HttpInv, HttpTypeOK, CallsInv

\* What a step of a check does to the requests.
LEMMA CheckCalls ==
    ASSUME CheckInv, NEW c \in Active, CheckStep(c)
    PROVE  /\ CallsInv' /\ faults' \in Nat
           /\ \A d \in Callers \ {c} : call'[d] = call[d]
           /\ c \in aborted /\ call'[c].phase = "waiting" => call[c].phase = "waiting"
<1>0. c \in Callers /\ CallsInv /\ faults \in Nat
  BY ActiveIsCaller, HttpParts DEF CheckInv
<1>1. faults' \in Nat
  BY <1>0, CheckStepFrame DEF WriteFails, Fault
<1>2. CASE Lookup(c)
  <2>1. UNCHANGED call \/ \E m \in Methods : Ask(c, m)
    BY <1>2 DEF Lookup, httpVars, Methods
  <2>2. CASE UNCHANGED call
    BY <1>0, <1>1, <2>2 DEF CallsInv, PausingInv
  <2>3. ASSUME NEW m \in Methods, Ask(c, m)
        PROVE  RequestKept(c) /\ (c \in aborted => call'[c].phase = "done")
    BY <1>0, <2>3, AskKeeps
  <2>4. QED BY <1>1, <2>1, <2>2, <2>3 DEF RequestKept
<1>3. CASE Answered(c)
  <2>1. call' = [call EXCEPT ![c] = NoCall]
    BY <1>3 DEF Answered
  <2>2. GoodCall(NoCall) /\ NoCall.phase = "idle"
    BY NoCallIsTyped DEF GoodCall, NoCall
  <2>3. call'[c] = NoCall
    BY <1>0, <2>1 DEF CallsInv
  <2>4. RequestKept(c)
    BY <1>0, <2>1, <2>2, CallSteps
  <2>5. QED BY <1>1, <2>2, <2>3, <2>4 DEF RequestKept
<1>4. CASE UNCHANGED call
  BY <1>0, <1>1, <1>4 DEF CallsInv, PausingInv
<1>5. QED BY <1>2, <1>3, <1>4, CheckStepFrame

LEMMA EntriesRest ==
    ASSUME EntryInv, UNCHANGED <<scenario, entry>>
    PROVE  EntryInv'
BY DEF EntryInv, Keys

\* An entry is replaced by one that is whole and synchronized.
LEMMA RenameKeepsEntries ==
    ASSUME LocalInv, EntryInv, NEW c \in Active, Rename(c)
    PROVE  EntryInv'
<1> DEFINE t == temp[c]
           k == Key(c)
<1>0. job[c].phase = "rename" /\ UNCHANGED scenario /\ entry' = [entry EXCEPT ![k] = t]
  BY DEF Rename, At
<1>1. job[c].phase \in Storing
  BY <1>0 DEF Storing
<1>2. k \in Keys /\ (k = NpmKey => job[c].at = "npm")
  BY <1>1, EvidenceInHand, KeyIsKnown
<1>3. IsRecord(t) /\ t.state = "synced" /\ (job[c].at = "npm" => t.payload \in NpmData(scenario))
  BY <1>0, Here DEF TempOK
<1>4. EntryOK(scenario, k, t)
  BY <1>2, <1>3 DEF EntryOK
<1> HIDE DEF t, k
<1>5. Keys' = Keys
  BY <1>0 DEF Keys
<1>6. DOMAIN entry' = Keys' /\ \A x \in Keys' : EntryOK(scenario', x, entry'[x])
  BY <1>0, <1>2, <1>4, <1>5 DEF EntryInv
<1>7. QED BY <1>6 DEF EntryInv

LEMMA PowerFailsKeepsEntries ==
    ASSUME EntryInv, PowerFails
    PROVE  EntryInv'
<1>0. UNCHANGED scenario /\ entry' = [k \in Keys |-> Lost(entry[k])]
  BY DEF PowerFails
<1>1. Keys' = Keys
  BY <1>0 DEF Keys
<1>2. ASSUME NEW k \in Keys
      PROVE  Lost(entry[k]) = entry[k]
  <2>1. EntryOK(scenario, k, entry[k])
    BY DEF EntryInv
  <2>2. QED BY <2>1, LosesNothingKnown DEF EntryOK
<1>3. DOMAIN entry' = Keys' /\ \A k \in Keys' : EntryOK(scenario', k, entry'[k])
  BY <1>0, <1>1, <1>2 DEF EntryInv
<1>4. QED BY <1>3 DEF EntryInv

LEMMA DocumentsRest ==
    ASSUME DocumentInv, DefaultStep, UNCHANGED <<scenario, documents>>
    PROVE  DocumentInv'
<1>1. Active' = Active
  BY DEF Active
<1>2. ASSUME NEW c \in Active, job'[c].policy = "default"
      PROVE  documents["policy"].gone
  <2>1. CASE job[c].policy = "default"
    BY <2>1 DEF DocumentInv
  <2>2. CASE documents["policy"].content = "absent"
    BY <2>2 DEF DocumentInv, IsDocument
  <2>3. QED BY <1>2, <2>1, <2>2 DEF DefaultStep
<1>3. QED BY <1>1, <1>2 DEF DocumentInv, IsDocument

LEMMA EditKeepsDocuments ==
    ASSUME DocumentInv, UNCHANGED <<scenario, job>>, NEW d \in {"policy", "approvals"},
           NEW content \in {"good", "bad", "link", "absent"}, Edit(d, content)
    PROVE  DocumentInv'
<1> DEFINE x == documents[d]
           n == [ino |-> x.ino + 1, content |-> content, gone |-> x.gone \/ content = "absent"]
<1>1. documents' = [documents EXCEPT ![d] = n]
  BY DEF Edit
<1>2. IsDocument(x) /\ DOMAIN documents = {"policy", "approvals"}
  BY DEF DocumentInv
<1>3. (x.gone \/ content = "absent") \in BOOLEAN /\ x.ino + 1 \in Int
  BY <1>2 DEF IsDocument
<1>4. n.ino = x.ino + 1 /\ n.content = content /\ n.gone = (x.gone \/ content = "absent")
         /\ DOMAIN n = {"ino", "content", "gone"}
  OBVIOUS
<1> HIDE DEF n
<1>5. IsDocument(n) /\ (x.gone => n.gone)
  BY <1>3, <1>4 DEF IsDocument
<1>6. Active' = Active
  BY DEF Active
<1>7. documents'[d] = n /\ \A o \in {"policy", "approvals"} \ {d} : documents'[o] = documents[o]
  BY <1>1, <1>2
<1>8. documents["policy"].gone => documents'["policy"].gone
  BY <1>5, <1>7
<1>9. DOMAIN documents' = {"policy", "approvals"}
         /\ \A o \in {"policy", "approvals"} :
               DOMAIN documents'[o] = {"ino", "content", "gone"} /\ IsDocument(documents'[o])
  BY <1>1, <1>2, <1>4, <1>5, <1>7 DEF DocumentInv
<1>10. QED BY <1>6, <1>8, <1>9 DEF DocumentInv, IsDocument

LEMMA HttpRests ==
    ASSUME HttpInv, UNCHANGED <<httpVars, scenario>>
    PROVE  HttpInv'
BY DEF HttpInv, HttpTypeOK, PausingInv, httpVars

\* The parts make the whole.
LEMMA CheckInvStep ==
    ASSUME LocalInv', DefaultStep, EntryInv', DocumentInv', HttpInv', clock' \in 0..MaxClock
    PROVE  CheckInv'
BY DEF CheckInv

LEMMA CheckStepInv ==
    ASSUME CheckInv, NEW c \in Active, CheckStep(c)
    PROVE  CheckInv'
<1>0. LocalInv /\ EntryInv /\ DocumentInv /\ HttpInv /\ clock \in 0..MaxClock
  BY DEF CheckInv
<1>1. LocalInv' /\ DefaultStep
  BY CheckStepKeeps
<1>2. UNCHANGED <<scenario, clock, documents, aborted>> /\ (Rename(c) \/ UNCHANGED entry)
  BY CheckStepFrame
<1>3. EntryInv'
  BY <1>0, <1>2, EntriesRest, RenameKeepsEntries
<1>4. DocumentInv'
  BY <1>0, <1>1, <1>2, DocumentsRest
<1>5. HttpInv'
  <2>1. aborted \subseteq Callers /\ (aborted # {} => scenario.abortable)
    BY <1>0, HttpParts
  <2>2. CallsInv' /\ faults' \in Nat
    BY CheckCalls
  <2>3. HttpTypeOK' /\ PausingInv' /\ (aborted' # {} => scenario'.abortable)
    BY <1>2, <2>1, <2>2 DEF CallsInv, HttpTypeOK
  <2>4. QED BY <2>3 DEF HttpInv
<1>6. QED BY <1>0, <1>1, <1>2, <1>3, <1>4, <1>5, CheckInvStep

\* A step that leaves the checks and their files alone.
LEMMA Around ==
    ASSUME CheckInv, UNCHANGED <<scenario, job, temp, handle, entry>>, HttpInv',
           DocumentInv' \/ UNCHANGED documents, clock' \in 0..MaxClock
    PROVE  CheckInv'
<1>0. LocalInv /\ EntryInv /\ DocumentInv
  BY DEF CheckInv
<1>1. LocalInv' /\ DefaultStep
  BY <1>0, ChecksRest
<1>2. EntryInv'
  BY <1>0, EntriesRest
<1>3. DocumentInv'
  BY <1>0, <1>1, DocumentsRest
<1>4. QED BY <1>1, <1>2, <1>3, CheckInvStep

LEMMA AbandonInv ==
    ASSUME CheckInv, NEW c \in Active, Abandon(c)
    PROVE  CheckInv'
<1>0. LocalInv /\ EntryInv /\ DocumentInv /\ HttpInv /\ clock \in 0..MaxClock
  BY DEF CheckInv
<1> DEFINE cs == IF scenario.scan THEN Active ELSE {c}
<1>1. /\ scenario.abortable /\ Abort(cs)
      /\ UNCHANGED <<scenario, job, temp, handle, entry, documents, clock>>
  BY DEF Abandon, world, disk
<1>2. cs \in SUBSET Callers
  BY <1>0, ActiveIsCaller
<1>3. aborted \subseteq Callers /\ faults \in Nat /\ CallsInv
  BY <1>0, HttpParts
<1> HIDE DEF cs
<1>4. CallsInv' /\ aborted' \subseteq Callers /\ UNCHANGED faults
  BY <1>1, <1>2, <1>3, AbortKeeps
<1>5. HttpInv'
  <2>1. HttpTypeOK' /\ PausingInv' /\ (aborted' # {} => scenario'.abortable)
    BY <1>1, <1>3, <1>4 DEF CallsInv, HttpTypeOK
  <2>2. QED BY <2>1 DEF HttpInv
<1>6. QED BY <1>0, <1>1, <1>5, Around

\* A request goes on while its check waits.
LEMMA RequestInv ==
    ASSUME CheckInv, NEW c \in Active, ClientStep(c) \/ NetworkStep(c),
           UNCHANGED <<scenario, world, disk, handle, job, scan>>
    PROVE  CheckInv'
<1>0. LocalInv /\ EntryInv /\ DocumentInv /\ HttpInv /\ clock \in 0..MaxClock
  BY DEF CheckInv
<1>1. aborted \subseteq Callers /\ faults \in Nat /\ CallsInv /\ (aborted # {} => scenario.abortable)
  BY <1>0, HttpParts
<1>2. c \in Callers
  BY <1>0, ActiveIsCaller
<1>3. RequestKept(c) /\ UNCHANGED aborted /\ faults' \in Nat
  BY <1>1, <1>2, ClientKeeps, NetworkKeeps
<1>4. UNCHANGED <<scenario, job, temp, handle, entry, documents, clock>>
  BY DEF world, disk
<1>5. HttpInv'
  <2>1. HttpTypeOK' /\ PausingInv' /\ (aborted' # {} => scenario'.abortable)
    BY <1>1, <1>3, <1>4 DEF CallsInv, HttpTypeOK, RequestKept
  <2>2. QED BY <2>1 DEF HttpInv
<1>6. QED BY <1>0, <1>4, <1>5, Around

\* Checks are killed.
LEMMA KillInv ==
    ASSUME CheckInv, (\E c \in Active : Kill(c)) \/ PowerFails
    PROVE  CheckInv'
<1>0. LocalInv /\ EntryInv /\ DocumentInv /\ HttpInv /\ clock \in 0..MaxClock
  BY DEF CheckInv
<1>1. UNCHANGED <<httpVars, scenario, documents, clock>> /\ (UNCHANGED entry \/ PowerFails)
  BY DEF Kill, PowerFails, disk
<1>2. LocalInv' /\ DefaultStep
  BY <1>0, KillKeeps, PowerFailsKeeps
<1>3. EntryInv'
  BY <1>0, <1>1, EntriesRest, PowerFailsKeepsEntries
<1>4. DocumentInv' /\ HttpInv'
  BY <1>0, <1>1, <1>2, DocumentsRest, HttpRests
<1>5. QED BY <1>0, <1>1, <1>2, <1>3, <1>4, CheckInvStep

\* The documents, the cache directory and the clock change.
LEMMA WorldInv ==
    ASSUME CheckInv,
           \/ \E d \in {"policy", "approvals"}, content \in {"good", "bad", "link", "absent"} :
                 Edit(d, content)
           \/ \E state \in {"directory", "missing", "link", "unreadable"} : ChangeRoot(state)
           \/ ScanEnds \/ SetClock
    PROVE  CheckInv'
<1>0. LocalInv /\ EntryInv /\ DocumentInv /\ HttpInv /\ clock \in 0..MaxClock
  BY DEF CheckInv
<1>1. UNCHANGED <<httpVars, scenario, job, temp, handle, entry>>
  BY DEF Edit, ChangeRoot, ScanEnds, SetClock, disk, world
<1>2. HttpInv'
  BY <1>0, <1>1, HttpRests
<1>3. clock' \in 0..MaxClock
  BY <1>0 DEF Edit, ChangeRoot, ScanEnds, SetClock, world
<1>4. DocumentInv' \/ UNCHANGED documents
  <2>1. ASSUME NEW d \in {"policy", "approvals"}, NEW content \in {"good", "bad", "link", "absent"},
               Edit(d, content)
        PROVE  DocumentInv'
    BY <1>0, <1>1, <2>1, EditKeepsDocuments
  <2>2. QED BY <2>1 DEF ChangeRoot, ScanEnds, SetClock, world
<1>5. QED BY <1>1, <1>2, <1>3, <1>4, Around

\* Every step of checks, requests and world.
LEMMA NextKeeps ==
    ASSUME CheckInv, Next
    PROVE  CheckInv'
<1>1. ASSUME NEW c \in Active, CheckStep(c) PROVE CheckInv'
  BY <1>1, CheckStepInv
<1>2. ASSUME NEW c \in Active, Abandon(c) PROVE CheckInv'
  BY <1>2, AbandonInv
<1>3. ASSUME NEW c \in Active, RequestStep(c) PROVE CheckInv'
  BY <1>3, RequestInv DEF RequestStep
<1>4. ASSUME NEW c \in Active, NetworkStep(c), UNCHANGED <<scenario, world, disk, handle, job, scan>>
      PROVE  CheckInv'
  BY <1>4, RequestInv
<1>5. QED BY <1>1, <1>2, <1>3, <1>4, KillInv, WorldInv DEF Next

LEMMA Rests ==
    ASSUME CheckInv, UNCHANGED vars
    PROVE  CheckInv'
<1>1. UNCHANGED <<httpVars, scenario, job, temp, handle, entry, documents, clock>>
  BY DEF vars, world, disk
<1>2. HttpInv'
  BY <1>1, HttpRests DEF CheckInv
<1>3. clock' \in 0..MaxClock
  BY <1>1 DEF CheckInv
<1>4. QED BY <1>1, <1>2, <1>3, Around

-----------------------------------------------------------------------------
(* How the checks begin.                                                   *)

\* A check that begins, or waits for its scan.
LEMMA JobBegins ==
    ASSUME NEW s \in Scenarios, NEW c \in s.active, NEW p \in {"idle", "start"},
           NEW d \in {"policy", "approvals"}, NEW j, j = [NoJob EXCEPT !.phase = p, !.doc = d]
    PROVE  LocalOK(s, c, j, None, None)
<1>0. IsScenario(s)
  BY ScenarioIsTyped
<1>2. DOMAIN j = JobFields /\ j.phase = p /\ j.doc = d
         /\ \A f \in JobFields \ {"phase", "doc"} : j[f] = NoJob[f]
  BY Fields DEF JobFields, NoJob
<1>3. /\ j.npm = Absent /\ j.osv = Absent /\ j.at = "npm" /\ j.npmFrom = "none" /\ j.osvFrom = "none"
      /\ j.page = 1 /\ j.records = {} /\ j.policy = "given" /\ j.approvals = "given"
      /\ j.cache = "none" /\ j.outcome = "none"
  BY <1>2, Fields DEF NoJob
<1>4. JobType(j)
  <2>1. IsFiniteSet({}) /\ Cardinality({}) = 0
    BY FS_EmptySet
  <2>2. QED BY <1>0, <1>2, <1>3, <2>1, BoundsAssumption DEF JobType, JobPhases, Outcomes
<1>5. PageOK(s, j)
  <2>1. 1 \in DOMAIN s.advisories
    BY <1>0 DEF IsScenario
  <2>2. KnownUpTo(s, 0) = {}
    BY DEF KnownUpTo
  <2>3. QED BY <1>3, <2>1, <2>2 DEF PageOK
<1>6. EarlyOK(j) /\ NpmOK(s, j) /\ OsvOK(s, j) /\ AtOK(s, j) /\ StoreOK(s, j) /\ SpecOK(s, j)
  BY <1>0, <1>2, <1>3 DEF EarlyOK, NpmOK, OsvOK, AtOK, StoreOK, SpecOK, Storing, Late
<1>7. DocOK(s, c, j) /\ ToolOK(s, c, j) /\ VerdictOK(s, j)
  BY <1>0, <1>2, <1>3, NoVerdict DEF DocOK, ToolOK, VerdictOK, Storing, Late, Doctoring
<1>8. TempOK(s, c, j, None) /\ HandleOK(s, j, None)
  BY <1>0, <1>2 DEF TempOK, HandleOK
<1>9. QED BY <1>4, <1>5, <1>6, <1>7, <1>8 DEF LocalOK, JobOK

LEMMA CheckInvInit ==
    ASSUME Init
    PROVE  CheckInv
<1>0. scenario \in Scenarios /\ IsScenario(scenario)
  BY ScenarioIsTyped DEF Init
<1>1. LocalInv
  <2>1. DOMAIN job = Callers /\ DOMAIN temp = Callers /\ DOMAIN handle = Callers
    BY DEF Init
  <2>2. ASSUME NEW c \in Active
        PROVE  LocalOK(scenario, c, job[c], temp[c], handle[c])
    <3>1. c \in Callers /\ c \in scenario.active
      BY <1>0 DEF IsScenario, Active
    <3> DEFINE p == IF scenario.scan THEN "idle" ELSE "start"
               d == IF scenario.tool[c] = "approvals_verify" THEN "approvals" ELSE "policy"
    <3>2. temp[c] = None /\ handle[c] = None /\ job[c] = [NoJob EXCEPT !.phase = p, !.doc = d]
      BY <3>1 DEF Init
    <3>3. p \in {"idle", "start"} /\ d \in {"policy", "approvals"}
      OBVIOUS
    <3> HIDE DEF p, d
    <3> DEFINE j == job[c]
    <3>4. j = [NoJob EXCEPT !.phase = p, !.doc = d]
      BY <3>2
    <3> HIDE DEF j
    <3>5. LocalOK(scenario, c, j, None, None)
      BY <1>0, <3>1, <3>3, <3>4, JobBegins
    <3>6. QED BY <3>2, <3>5 DEF j
  <2>3. QED BY <1>0, <2>1, <2>2 DEF LocalInv
<1>2. EntryInv
  <2>1. DOMAIN entry = Keys
    BY DEF Init
  <2>2. ASSUME NEW k \in Keys
        PROVE  EntryOK(scenario, k, entry[k])
    <3>1. CASE k \in DOMAIN scenario.cache
      <4>1. entry[k] = scenario.cache[k] /\ IsPublished(entry[k])
        BY <1>0, <3>1 DEF Init, IsScenario
      <4>2. k = NpmKey /\ entry[k].state = "synced" => entry[k].payload \in NpmData(scenario)
        BY <3>1, <4>1 DEF NpmData
      <4>3. QED BY <4>1, <4>2 DEF EntryOK, IsRecord, IsPublished, IsEntry
    <3>2. CASE k \notin DOMAIN scenario.cache
      BY <3>2 DEF Init, EntryOK
    <3>3. QED BY <3>1, <3>2
  <2>3. QED BY <2>1, <2>2 DEF EntryInv
<1>3. DocumentInv
  <2>1. ASSUME NEW c \in Active PROVE job[c].policy # "default"
    <3>1. c \in Callers
      BY <1>0 DEF IsScenario, Active
    <3> DEFINE p == IF scenario.scan THEN "idle" ELSE "start"
               d == IF scenario.tool[c] = "approvals_verify" THEN "approvals" ELSE "policy"
    <3>2. job[c] = [NoJob EXCEPT !.phase = p, !.doc = d]
      BY <3>1 DEF Init
    <3> HIDE DEF p, d
    <3>3. QED BY <3>2 DEF NoJob
  <2>2. documents = scenario.documents
    BY DEF Init
  <2>3. QED BY <1>0, <2>1, <2>2 DEF DocumentInv, IsScenario
<1>4. HttpInv
  <2>1. aborted = {} /\ faults \in Nat /\ call = [c \in Callers |-> NoCall]
    BY <1>0 DEF Init, HttpInit, IsScenario
  <2>2. CallsInv
    BY <2>1, NoCallIsTyped DEF CallsInv, PausingInv, NoCall
  <2>3. QED BY <2>1, <2>2, HttpParts
<1>5. clock \in 0..MaxClock
  BY <1>0 DEF Init, IsScenario
<1>6. QED BY <1>1, <1>2, <1>3, <1>4, <1>5 DEF CheckInv

-----------------------------------------------------------------------------
(* What a step of a check does to it, apart from the invariant: it does    *)
(* not become idle, and learns nothing once its caller has aborted.        *)

Learns(c, r) ==
    c \in aborted => /\ r.npm = job[c].npm /\ r.osv = job[c].osv
                     /\ r.outcome \in {job[c].outcome, "cancelled"}
Effect(c) ==
    /\ \A d \in Callers \ {c} : job'[d] = job[d]
    /\ job'[c].phase # "idle" /\ Learns(c, job'[c])

\* The lemmas that follow are about the kinds of steps, then about the actions.
LEMMA HasEffect ==
    ASSUME LocalInv, NEW c \in Active, NEW r, job' = [job EXCEPT ![c] = r],
           r.phase # "idle", Learns(c, r)
    PROVE  Effect(c)
BY Here DEF LocalInv, Effect

LEMMA EndHasEffect ==
    ASSUME LocalInv, NEW c \in Active, NEW o, End(c, o), o = "cancelled" \/ c \notin aborted
    PROVE  Effect(c)
<1> DEFINE r == [job[c] EXCEPT !.phase = "done", !.outcome = o]
<1>1. job' = [job EXCEPT ![c] = r]
  BY DEF End
<1>2. DOMAIN job[c] = JobFields
  BY Here
<1>3. SameBut(job[c], r, {"phase", "outcome"}) /\ r.phase = "done" /\ r.outcome = o
  BY <1>2, Fields DEF SameBut
<1> HIDE DEF r
<1>4. Learns(c, r) /\ r.phase # "idle"
  BY <1>3, Fields DEF SameBut, Learns
<1>5. QED BY <1>1, <1>4, HasEffect

LEMMA GoHasEffect ==
    ASSUME LocalInv, NEW c \in Active, NEW p, p # "idle", Go(c, p)
    PROVE  Effect(c)
<1> DEFINE r == [job[c] EXCEPT !.phase = p]
<1>1. job' = [job EXCEPT ![c] = r]
  BY DEF Go
<1>2. DOMAIN job[c] = JobFields
  BY Here
<1>3. SameBut(job[c], r, {"phase"}) /\ r.phase = p
  BY <1>2, Fields DEF SameBut
<1> HIDE DEF r
<1>4. Learns(c, r) /\ r.phase # "idle"
  BY <1>3, Fields DEF SameBut, Learns
<1>5. QED BY <1>1, <1>4, HasEffect

LEMMA ProbedHasEffect ==
    ASSUME LocalInv, NEW c \in Active, NEW state, NEW p, p # "idle",
           job' = [job EXCEPT ![c].cache = state, ![c].phase = p]
    PROVE  Effect(c)
<1> DEFINE r == [job[c] EXCEPT !.cache = state, !.phase = p]
<1>1. job' = [job EXCEPT ![c] = r]
  OBVIOUS
<1>2. DOMAIN job[c] = JobFields
  BY Here
<1>3. SameBut(job[c], r, {"phase", "cache"}) /\ r.phase = p
  BY <1>2, Fields DEF SameBut
<1> HIDE DEF r
<1>4. Learns(c, r) /\ r.phase # "idle"
  BY <1>3, Fields DEF SameBut, Learns
<1>5. QED BY <1>1, <1>4, HasEffect

LEMMA OnwardHasEffect ==
    ASSUME LocalInv, NEW c \in Active, c \notin aborted, NEW e, DOMAIN e = JobFields,
           job' = [job EXCEPT ![c] = Onward(c, e)]
    PROVE  Effect(c)
<1>1. Onward(c, e).phase # "idle"
  <2> DEFINE p == AfterNpm(c, e.npm)
             a == IF p = "lookup" THEN "osv" ELSE "npm"
  <2>1. p # "idle"
    BY DEF AfterNpm
  <2>2. Onward(c, e) = IF e.at = "osv" THEN [e EXCEPT !.phase = "evaluate"]
                       ELSE [e EXCEPT !.phase = p, !.at = a]
    BY DEF Onward
  <2> HIDE DEF p, a
  <2>3. [e EXCEPT !.phase = "evaluate"].phase = "evaluate" /\ [e EXCEPT !.phase = p, !.at = a].phase = p
    BY Fields
  <2>4. QED BY <2>1, <2>2, <2>3
<1>2. Learns(c, Onward(c, e))
  BY DEF Learns
<1>3. QED BY <1>1, <1>2, HasEffect

LEMMA EvidenceHasFields ==
    ASSUME LocalInv, NEW c \in Active, NEW result, NEW from
    PROVE  DOMAIN Evidence(c, result, from) = JobFields
BY Here DEF Evidence

LEMMA TakeHasEffect ==
    ASSUME LocalInv, NEW c \in Active, c \notin aborted, NEW result, Take(c, result)
    PROVE  Effect(c)
<1> DEFINE e == Evidence(c, result, "live")
<1>0. DOMAIN e = JobFields
  BY EvidenceHasFields
<1>1. job' = [job EXCEPT ![c] = [e EXCEPT !.phase = "create"]] \/ job' = [job EXCEPT ![c] = Onward(c, e)]
  BY DEF Take
<1> HIDE DEF e
<1>2. CASE job' = [job EXCEPT ![c] = Onward(c, e)]
  BY <1>0, <1>2, OnwardHasEffect
<1>3. CASE job' = [job EXCEPT ![c] = [e EXCEPT !.phase = "create"]]
  <2>1. [e EXCEPT !.phase = "create"].phase = "create"
    BY <1>0, Fields
  <2>2. Learns(c, [e EXCEPT !.phase = "create"])
    BY DEF Learns
  <2>3. QED BY <1>3, <2>1, <2>2, HasEffect
<1>4. QED BY <1>1, <1>2, <1>3

LEMMA DoctorHasEffect ==
    ASSUME CheckInv, NEW c \in Active,
           InspectRoot(c) \/ MakeRoot(c) \/ CreateProbe(c) \/ RemoveProbe(c) \/ Report(c)
    PROVE  Effect(c)
<1>0. LocalInv /\ HttpInv
  BY DEF CheckInv
<1>1. CASE Report(c)
  <2>1. job[c].phase = "report" /\ \E o \in {"ready", "attention"} : End(c, o)
    BY <1>1 DEF Report, At
  <2>2. c \notin aborted
    BY <1>0, <2>1, NotAborted, Here DEF JobOK, ToolOK, Doctoring
  <2>3. QED BY <1>0, <2>1, <2>2, EndHasEffect
<1>2. CASE InspectRoot(c) \/ MakeRoot(c) \/ CreateProbe(c) \/ RemoveProbe(c)
  <2>1. \/ \E p \in {"mkdir", "probe"} : Go(c, p)
        \/ \E state \in {"writable", "unwritable", "unsafe", job[c].cache}, p \in {"inspect", "unprobe"} :
              job' = [job EXCEPT ![c].cache = state, ![c].phase = p]
    <3>1. CASE InspectRoot(c) \/ MakeRoot(c)
      BY <3>1 DEF InspectRoot, MakeRoot, Probed
    <3>2. CASE CreateProbe(c) \/ RemoveProbe(c)
      BY <3>2 DEF CreateProbe, RemoveProbe, Probed
    <3>3. QED BY <1>2, <3>1, <3>2
  <2>2. ASSUME NEW p \in {"mkdir", "probe"}, Go(c, p) PROVE Effect(c)
    BY <1>0, <2>2, GoHasEffect
  <2>3. ASSUME NEW state, NEW p \in {"inspect", "unprobe"},
               job' = [job EXCEPT ![c].cache = state, ![c].phase = p]
        PROVE  Effect(c)
    BY <1>0, <2>3, ProbedHasEffect
  <2>4. QED BY <2>1, <2>2, <2>3
<1>3. QED BY <1>1, <1>2

\* What the other check reads.
LEMMA ReaderHasEffect ==
    ASSUME CheckInv, NEW c \in Active, Start(c) \/ Inspect(c) \/ OpenDocument(c) \/ CloseDocument(c)
    PROVE  Effect(c)
<1>0. LocalInv
  BY DEF CheckInv
<1>1. CASE c \in aborted
  <2>1. End(c, "cancelled")
    BY <1>1 DEF Start, Inspect, OpenDocument, CloseDocument, Unless
  <2>2. QED BY <1>0, <2>1, EndHasEffect
<1>2. CASE c \notin aborted
  <2>1. ASSUME NEW r, job' = [job EXCEPT ![c] = r], r.phase # "idle"
        PROVE  Effect(c)
    BY <1>0, <1>2, <2>1, HasEffect DEF Learns
  <2>2. ASSUME NEW o, End(c, o) PROVE Effect(c)
    BY <1>0, <1>2, <2>2, EndHasEffect
  <2>3. DOMAIN job[c] = JobFields
    BY <1>0, Here
  <2>4. ASSUME NEW from, NEW last \in {"lookup", "evaluate", "report"}, Loaded(c, from, last)
        PROVE  Effect(c)
    <3> DEFINE p == [job[c] EXCEPT !.policy = from, !.doc = "approvals", !.phase = "inspect"]
               q == [job[c] EXCEPT !.approvals = from, !.phase = last]
    <3>1. job' = [job EXCEPT ![c] = p] \/ job' = [job EXCEPT ![c] = q]
      BY <2>4 DEF Loaded
    <3>2. p.phase # "idle" /\ q.phase # "idle"
      BY <2>3, <2>4, Fields
    <3> HIDE DEF p, q
    <3>3. QED BY <2>1, <3>1, <3>2
  <2>5. ASSUME NEW state, TakesDocument(c, state) PROVE Effect(c)
    <3>1. Evidential \in {"lookup", "evaluate"}
      BY DEF Evidential
    <3>2. \/ \E o \in {"valid", "invalid"} : End(c, o)
          \/ Loaded(c, state, Evidential) \/ Loaded(c, state, "report")
      BY <2>5 DEF TakesDocument, CheckTakes, ValidatorTakes
    <3>3. QED BY <2>2, <2>4, <3>1, <3>2
  <2>6. CASE Start(c)
    <3> DEFINE p == FirstPhase(c)
               r == [job[c] EXCEPT !.now = clock, !.phase = p]
    <3>1. End(c, "invalid") \/ job' = [job EXCEPT ![c] = r]
      BY <1>2, <2>6 DEF Start, Unless
    <3>2. p # "idle"
      BY DEF FirstPhase, Evidential
    <3> HIDE DEF p
    <3>3. r.phase # "idle"
      BY <2>3, <3>2, Fields
    <3> HIDE DEF r
    <3>4. QED BY <2>1, <2>2, <3>1, <3>3
  <2>7. CASE Inspect(c)
    <3> DEFINE r == [job[c] EXCEPT !.seen = Document(c).ino, !.phase = "document"]
    <3>1. TakesDocument(c, "default") \/ TakesDocument(c, "invalid") \/ job' = [job EXCEPT ![c] = r]
      BY <1>2, <2>7 DEF Inspect, Unless
    <3>2. r.phase # "idle"
      BY <2>3, Fields
    <3> HIDE DEF r
    <3>3. QED BY <2>1, <2>5, <3>1, <3>2
  <2>8. CASE OpenDocument(c)
    <3> DEFINE r == [job[c] EXCEPT !.held = Document(c).content, !.phase = "reading"]
    <3>1. TakesDocument(c, "default") \/ TakesDocument(c, "invalid") \/ job' = [job EXCEPT ![c] = r]
      BY <1>2, <2>8 DEF OpenDocument, Unless
    <3>2. r.phase # "idle"
      BY <2>3, Fields
    <3> HIDE DEF r
    <3>3. QED BY <2>1, <2>5, <3>1, <3>2
  <2>9. CASE CloseDocument(c)
    <3>1. \E state : TakesDocument(c, state)
      BY <1>2, <2>9 DEF CloseDocument, Unless
    <3>2. QED BY <2>5, <3>1
  <2>10. QED BY <2>6, <2>7, <2>8, <2>9
<1>3. QED BY <1>1, <1>2

LEMMA ProviderHasEffect ==
    ASSUME CheckInv, NEW c \in Active, Lookup(c) \/ Answered(c) \/ Open(c) \/ Parse(c)
    PROVE  Effect(c)
<1>0. LocalInv
  BY DEF CheckInv
<1>1. CASE Lookup(c)
  <2>1. (c \in aborted /\ End(c, "cancelled")) \/ Go(c, "open") \/ Go(c, "asked")
    BY <1>1 DEF Lookup, Unless
  <2>2. QED BY <1>0, <2>1, EndHasEffect, GoHasEffect
<1>2. CASE c \in aborted /\ ~Lookup(c)
  <2>1. End(c, "cancelled")
    BY <1>2 DEF Answered, Open, Parse, Unless
  <2>2. QED BY <1>0, <2>1, EndHasEffect
<1>3. CASE c \notin aborted /\ Answered(c)
  <2>1. \/ \E result : Take(c, result)
        \/ Page(c)
    BY <1>3 DEF Answered, Unless
  <2>2. ASSUME NEW result, Take(c, result) PROVE Effect(c)
    BY <1>0, <1>3, <2>2, TakeHasEffect
  <2>3. CASE Page(c)
    <3> DEFINE records == job[c].records \cup RecordsOn(scenario.advisories[job[c].page])
               r == [job[c] EXCEPT !.page = @ + 1, !.records = records, !.phase = "lookup"]
    <3>1. \/ \E result : Take(c, result)
          \/ job' = [job EXCEPT ![c] = r]
      BY <2>3 DEF Page
    <3>2. r.phase = "lookup"
      BY <1>0, Here, Fields
    <3> HIDE DEF r
    <3>3. job' = [job EXCEPT ![c] = r] => Effect(c)
      BY <1>0, <1>3, <3>2, HasEffect DEF Learns
    <3>4. QED BY <2>2, <3>1, <3>3
  <2>4. QED BY <2>1, <2>2, <2>3
<1>4. CASE c \notin aborted /\ (Open(c) \/ Parse(c))
  <2>1. \/ Go(c, "parse")
        \/ \E result, from : job' = [job EXCEPT ![c] = Onward(c, Evidence(c, result, from))]
    BY <1>4 DEF Open, Parse, Unless, Lacking
  <2>2. ASSUME NEW result, NEW from, job' = [job EXCEPT ![c] = Onward(c, Evidence(c, result, from))]
        PROVE  Effect(c)
    BY <1>0, <1>4, <2>2, EvidenceHasFields, OnwardHasEffect
  <2>3. QED BY <1>0, <2>1, <2>2, GoHasEffect
<1>5. QED BY <1>1, <1>2, <1>3, <1>4

LEMMA WriterHasEffect ==
    ASSUME CheckInv, NEW c \in Active,
           \/ WriteFails(c) \/ Create(c) \/ Fill(c) \/ Sync(c) \/ Rename(c) \/ Written(c) \/ Discard(c)
           \/ Evaluate(c)
    PROVE  Effect(c)
<1>0. LocalInv /\ DOMAIN job[c] = JobFields
  BY Here DEF CheckInv
<1>1. CASE WriteFails(c) \/ Create(c) \/ Fill(c) \/ Sync(c) \/ Rename(c)
  <2>1. \E p \in {"discard", "fill", "sync", "rename", "published"} : Go(c, p)
    BY <1>1 DEF WriteFails, Create, Fill, Sync, Rename, Store
  <2>2. QED BY <1>0, <2>1, GoHasEffect
<1>2. CASE c \in aborted /\ (Written(c) \/ Discard(c) \/ Evaluate(c))
  <2>1. End(c, "cancelled")
    BY <1>2 DEF Written, Discard, Evaluate, Unless
  <2>2. QED BY <1>0, <2>1, EndHasEffect
<1>3. CASE c \notin aborted /\ (Written(c) \/ Discard(c))
  <2>1. job' = [job EXCEPT ![c] = Onward(c, job[c])]
    BY <1>3 DEF Written, Discard, Unless
  <2>2. QED BY <1>0, <1>3, <2>1, OnwardHasEffect
<1>4. CASE c \notin aborted /\ Evaluate(c)
  <2> DEFINE a == AppliedTo(c)
             r == [job[c] EXCEPT !.phase = "done", !.outcome = a.verdict, !.approved = a.approved]
  <2>1. job' = [job EXCEPT ![c] = r]
    BY <1>4 DEF Evaluate, Unless, AppliedTo, EvaluationOfCheck
  <2> HIDE DEF a
  <2>2. r.phase = "done"
    BY <1>0, Fields
  <2> HIDE DEF r
  <2>3. QED BY <1>0, <1>4, <2>1, <2>2, HasEffect DEF Learns
<1>5. QED BY <1>1, <1>2, <1>3, <1>4

LEMMA CheckStepHasEffect ==
    ASSUME CheckInv, NEW c \in Active, CheckStep(c)
    PROVE  Effect(c) /\ job[c].phase \notin {"idle", "done", "dead"}
<1>1. Effect(c)
  BY DoctorHasEffect, ReaderHasEffect, ProviderHasEffect, WriterHasEffect DEF CheckStep
<1>2. job[c].phase \notin {"idle", "done", "dead"}
  BY DEF CheckStep, At, InspectRoot, MakeRoot, CreateProbe, RemoveProbe, Report, Start, Inspect,
         OpenDocument, CloseDocument, Lookup, Answered, Open, Parse, WriteFails, Create, Fill, Sync,
         Rename, Written, Discard, Evaluate
<1>3. QED BY <1>1, <1>2

-----------------------------------------------------------------------------
(* The scan.                                                               *)

CommandFields == {"phase", "base", "stopped", "show", "current", "updated", "next", "present",
                  "changes", "outcome"}
Beginning == {"start", "collect"}

ScanInv ==
    /\ DOMAIN command = CommandFields
    /\ scan \in {"inventory", "none", "cancelled", "failed"} \cup Verdicts
    /\ ~IsScan => scan = "none"
    /\ IsScan =>
         /\ command.phase \in Beginning \cup {"checks", "done"}
         /\ command.phase \in Beginning =>
               scan = "inventory" /\ \A c \in Active : job[c].phase \in {"idle", "dead"}
         /\ command.phase = "checks" => scan # "inventory"
         /\ command.phase = "done" => scan \in {"cancelled", "failed"}
         /\ scan \in Verdicts =>
               \A c \in Active : /\ job[c].phase \in {"idle", "done"}
                                 /\ Admits(scan) => job[c].phase = "idle" \/ Admits(job[c].outcome)

\* A command is a scan, a diff or neither.
LEMMA CommandStepsApart == ASSUME scenario \in Scenarios PROVE ~(IsScan /\ IsDiff)
BY ProjectAssumption DEF IsScan, IsDiff

\* The results of a scan that are not verdicts.
LEMMA ScanWords ==
    /\ Verdicts \cap {"inventory", "none", "cancelled", "failed"} = {}
    /\ ~Admits("inventory") /\ ~Admits("none") /\ ~Admits("cancelled") /\ ~Admits("failed")
    /\ \A v : Admits(v) => v \in Verdicts
BY DEF Verdicts, Admits

\* What a step of the checks, or around them, does to each.
JobsDie ==
    /\ \A c \in Active : \/ job'[c] = job[c]
                         \/ Working(c) /\ job'[c].phase = "dead" /\ job'[c].outcome = "none"
                                       /\ job'[c].npm = job[c].npm /\ job'[c].osv = job[c].osv

\* Those that are killed learn nothing.
LEMMA DieIsDying ==
    ASSUME LocalInv, NEW cs, Die(cs)
    PROVE  JobsDie
<1>1. ASSUME NEW c \in Active
      PROVE  \/ job'[c] = job[c]
             \/ Working(c) /\ job'[c].phase = "dead" /\ job'[c].outcome = "none"
                           /\ job'[c].npm = job[c].npm /\ job'[c].osv = job[c].osv
  <2>1. c \in Callers /\ DOMAIN job[c] = JobFields /\ (job[c].phase # "done" => job[c].outcome = "none")
    BY Here DEF JobType
  <2> DEFINE r == [job[c] EXCEPT !.phase = "dead"]
  <2>2. job'[c] = IF c \in cs /\ Working(c) THEN r ELSE job[c]
    BY <2>1 DEF Die
  <2>3. r.phase = "dead" /\ r.outcome = job[c].outcome /\ r.npm = job[c].npm /\ r.osv = job[c].osv
    BY <2>1, Fields
  <2> HIDE DEF r
  <2>4. QED BY <2>1, <2>2, <2>3 DEF Working
<1>2. QED BY <1>1 DEF JobsDie

JobsChange ==
    /\ UNCHANGED scenario
    /\ ScanEnds \/ UNCHANGED scan
    /\ JobsDie \/ \E c \in Active : CheckStep(c)

\* What any step does to the checks.
LEMMA JobsMove ==
    ASSUME CheckInv, Next
    PROVE  JobsChange
<1>0. LocalInv
  BY DEF CheckInv
<1>1. ASSUME NEW c \in Active, CheckStep(c) PROVE UNCHANGED <<scenario, scan>>
  BY <1>1, CheckStepFrame
<1>2. ASSUME NEW c \in Active,
             \/ RequestStep(c) \/ Abandon(c)
             \/ NetworkStep(c) /\ UNCHANGED <<scenario, world, disk, handle, job, scan>>
      PROVE  UNCHANGED <<scenario, scan, job>>
  BY <1>2 DEF RequestStep, Abandon
<1>3. ASSUME NEW c \in Active, Kill(c) PROVE UNCHANGED <<scenario, scan>> /\ JobsDie
  BY <1>0, <1>3, DieIsDying DEF Kill
<1>4. CASE PowerFails
  BY <1>0, <1>4, DieIsDying DEF PowerFails, JobsChange
<1>5. ASSUME \/ \E d \in {"policy", "approvals"}, content \in {"good", "bad", "link", "absent"} :
                   Edit(d, content)
             \/ \E state \in {"directory", "missing", "link", "unreadable"} : ChangeRoot(state)
             \/ ScanEnds \/ SetClock
      PROVE  UNCHANGED <<scenario, job>> /\ (ScanEnds \/ UNCHANGED scan)
  BY <1>5 DEF Edit, ChangeRoot, ScanEnds, SetClock
<1>6. UNCHANGED job => JobsDie
  BY DEF JobsDie
<1>7. CASE \E c \in Active : CheckStep(c)
  BY <1>1, <1>7 DEF JobsChange
<1>8. CASE \E c \in Active :
               RequestStep(c) \/ Abandon(c)
               \/ (NetworkStep(c) /\ UNCHANGED <<scenario, world, disk, handle, job, scan>>)
  BY <1>2, <1>6, <1>8 DEF JobsChange
<1>9. CASE \E c \in Active : Kill(c)
  BY <1>3, <1>9 DEF JobsChange
<1>10. CASE (\E d \in {"policy", "approvals"}, content \in {"good", "bad", "link", "absent"} :
                Edit(d, content))
            \/ (\E state \in {"directory", "missing", "link", "unreadable"} : ChangeRoot(state))
            \/ ScanEnds \/ SetClock
  BY <1>5, <1>6, <1>10 DEF JobsChange
<1>11. (\E c \in Active : CheckStep(c) \/ RequestStep(c) \/ Abandon(c) \/ Kill(c)
                \/ (NetworkStep(c) /\ UNCHANGED <<scenario, world, disk, handle, job, scan>>))
       \/ (\E d \in {"policy", "approvals"}, content \in {"good", "bad", "link", "absent"} :
                Edit(d, content))
       \/ (\E state \in {"directory", "missing", "link", "unreadable"} : ChangeRoot(state))
       \/ ScanEnds \/ SetClock \/ PowerFails
  BY DEF Next
<1>12. QED BY <1>4, <1>7, <1>8, <1>9, <1>10, <1>11

\* A scan has the verdict of its checks.
LEMMA ScanEndsKeeps ==
    ASSUME CheckInv, ScanInv, ScanEnds, UNCHANGED command
    PROVE  ScanInv'
<1> DEFINE outcomes == {job[c].outcome : c \in Active} \ {"none"}
<1>0. /\ IsScan /\ scan = "none" /\ UNCHANGED <<scenario, job, command>>
      /\ \A c \in Active : job[c].phase \in {"idle", "done"}
      /\ scan' = IF Active \cap aborted # {} \/ "cancelled" \in outcomes THEN "cancelled"
                 ELSE IF "invalid" \in outcomes THEN "failed"
                 ELSE CombineVerdicts(outcomes)
  BY DEF ScanEnds, IsScan
<1>1. command.phase = "checks"
  BY <1>0, ScanWords DEF ScanInv
<1>2. \A c \in Active : job[c].outcome \in {"none", "cancelled", "invalid"} \cup Verdicts
                        /\ (job[c].phase = "done" => job[c].outcome # "none")
  <2>1. LocalInv
    BY DEF CheckInv
  <2>2. QED BY <1>0, <2>1, Here DEF JobOK, ToolOK, JobType, IsScenario, IsScan
<1>3. outcomes \subseteq {"cancelled", "invalid"} \cup Verdicts
  BY <1>2
<1>4. \A c \in Active : job[c].phase = "done" => job[c].outcome \in outcomes
  BY <1>2
<1> HIDE DEF outcomes
<1>5. scan' \in {"cancelled", "failed"} \/ (outcomes \in SUBSET Verdicts /\ scan' = CombineVerdicts(outcomes))
  BY <1>0, <1>3
<1>6. CASE scan' \in {"cancelled", "failed"}
  <2>1. scan' \notin Verdicts /\ ~Admits(scan')
    BY <1>6, ScanWords
  <2>2. QED BY <1>0, <1>1, <1>6, <2>1 DEF ScanInv, IsScan, Active, Beginning
<1>7. CASE outcomes \in SUBSET Verdicts /\ scan' = CombineVerdicts(outcomes)
  <2>1. scan' \in Verdicts
    BY <1>7, CombineIsHighest
  <2>2. Admits(scan') => \A c \in Active : job[c].phase = "idle" \/ Admits(job[c].outcome)
    <3>1. ASSUME Admits(scan') PROVE outcomes \subseteq {"allow", "warn"}
      BY <1>7, <3>1, AdmittingVerdicts
    <3>2. QED BY <1>0, <1>4, <3>1 DEF Admits
  <2>3. scan' # "inventory"
    BY <2>1, ScanWords
  <2>4. QED BY <1>0, <1>1, <2>1, <2>2, <2>3 DEF ScanInv, IsScan, Active, Beginning
<1>8. QED BY <1>5, <1>6, <1>7

LEMMA ScanInvNext ==
    ASSUME CheckInv, ScanInv, Next, UNCHANGED command
    PROVE  ScanInv'
<1>0. UNCHANGED scenario /\ IsScan' = IsScan /\ Active' = Active
  BY JobsMove DEF JobsChange, IsScan, Active
<1>1. CASE ScanEnds
  BY <1>1, ScanEndsKeeps
<1>2. CASE ~ScanEnds
  <2>1. UNCHANGED scan
    BY <1>2, JobsMove DEF JobsChange
  <2>2. ASSUME IsScan, command.phase \in Beginning
        PROVE  \A c \in Active : job'[c].phase \in {"idle", "dead"}
    <3>1. \A c \in Active : job[c].phase \in {"idle", "dead"}
      BY <2>2 DEF ScanInv
    <3>2. QED BY <3>1, JobsMove, CheckStepHasEffect DEF JobsChange, JobsDie
  <2>3. ASSUME IsScan, scan \in Verdicts
        PROVE  \A c \in Active : job'[c] = job[c]
    <3>1. \A c \in Active : job[c].phase \in {"idle", "done"}
      BY <2>3 DEF ScanInv
    <3>2. \A c \in Active : ~Working(c)
      BY <2>3, <3>1, ScanWords DEF Working
    <3>3. QED BY <3>1, <3>2, JobsMove, CheckStepHasEffect DEF JobsChange, JobsDie
  <2>4. QED BY <1>0, <2>1, <2>2, <2>3 DEF ScanInv
<1>3. QED BY <1>1, <1>2

LEMMA Unmoved ==
    ASSUME UNCHANGED vars
    PROVE  UNCHANGED <<scenario, job, scan, aborted, IsScan, IsDiff, Active>>
BY DEF vars, httpVars, IsScan, IsDiff, Active

LEMMA ScanGoes ==
    ASSUME ScanInv, UNCHANGED vars, DOMAIN command' = CommandFields,
           IsScan => command'.phase = command.phase \/ {command.phase, command'.phase} \subseteq Beginning
    PROVE  ScanInv'
<1>1. UNCHANGED <<job, scan, IsScan, Active>>
  BY Unmoved
<1>2. command.phase \in Beginning => command.phase \notin {"checks", "done"}
  BY DEF Beginning
<1>3. QED BY <1>1, <1>2 DEF ScanInv, Beginning

\* The command ends.
LEMMA Concludes ==
    ASSUME DOMAIN command = CommandFields, NEW o, Conclude(o)
    PROVE  /\ DOMAIN command' = CommandFields /\ command'.phase = "done" /\ command'.outcome = o
           /\ \A f \in CommandFields \ {"phase", "outcome"} : command'[f] = command[f]
           /\ UNCHANGED project
BY DEF Conclude, Becomes, CommandFields

\* A scan may end before its checks begin.
LEMMA ScanFinishKeeps ==
    ASSUME CheckInv, ScanInv, NEW o, FinishScan(o), o \in {"cancelled", "failed"} \/ ~IsScan
    PROVE  CheckInv' /\ ScanInv'
<1>1. DOMAIN command' = CommandFields /\ command'.phase = "done"
  BY Concludes DEF ScanInv, FinishScan
<1>2. CASE IsScan
  <2>1. scan' = o /\ UNCHANGED <<httpVars, scenario, world, disk, handle, job>>
    BY <1>2 DEF FinishScan
  <2>2. UNCHANGED <<scenario, job, temp, handle, entry, documents, clock>>
    BY <2>1 DEF world, disk
  <2>3. HttpInv' /\ clock' \in 0..MaxClock
    BY <2>1, <2>2, HttpRests DEF CheckInv
  <2>4. CheckInv'
    BY <2>2, <2>3, Around
  <2>5. scan' \in {"cancelled", "failed"} /\ scan' \notin Verdicts
    BY <1>2, <2>1, ScanWords
  <2>6. UNCHANGED IsScan
    BY <2>2 DEF IsScan
  <2>7. ScanInv'
    BY <1>1, <1>2, <2>5, <2>6 DEF ScanInv, Beginning
  <2>8. QED BY <2>4, <2>7
<1>3. CASE ~IsScan
  <2>1. UNCHANGED vars
    BY <1>3 DEF FinishScan
  <2>2. QED BY <1>1, <1>3, <2>1, Rests, ScanGoes
<1>4. QED BY <1>2, <1>3

\* A step of the command, before the checks.
LEMMA GoesKeeps ==
    ASSUME CheckInv, ScanInv, NEW new, Goes(new), DOMAIN new = CommandFields,
           IsScan => new.phase = command.phase \/ {command.phase, new.phase} \subseteq Beginning
    PROVE  CheckInv' /\ ScanInv'
BY Rests, ScanGoes DEF Goes, Becomes

\* The checks of the scan begin.
JoinedScan(chosen) ==
    /\ job' = [c \in Callers |-> IF c \in chosen THEN [job[c] EXCEPT !.phase = "start"] ELSE job[c]]
    /\ scan' = "none" /\ Becomes([command EXCEPT !.phase = "checks"])
    /\ UNCHANGED <<httpVars, scenario, world, disk, handle>>

\* The checks begin, those that were chosen.
LEMMA ChecksBegin ==
    ASSUME CheckInv, ScanInv, IsScan, Alive, command.phase \in Beginning,
           NEW chosen \in SUBSET Active, JoinedScan(chosen)
    PROVE  CheckInv' /\ ScanInv' /\ \A c \in Active : (job'[c].phase = "idle") = (c \notin chosen)
<1>0. LocalInv /\ EntryInv /\ DocumentInv /\ HttpInv /\ clock \in 0..MaxClock
  BY DEF CheckInv
<1>1. \A c \in Active : job[c].phase = "idle"
  BY DEF ScanInv, Alive
<1>2. UNCHANGED <<scenario, temp, handle, entry, documents, clock, httpVars>>
  BY DEF JoinedScan, world, disk
<1>3. ASSUME NEW c \in Active
      PROVE  /\ job'[c].policy = job[c].policy
             /\ LocalOK(scenario, c, job'[c], temp[c], handle[c])
             /\ (job'[c].phase = "idle") = (c \notin chosen)
  <2> DEFINE r == [job[c] EXCEPT !.phase = "start"]
  <2>0. c \in Callers /\ LocalOK(scenario, c, job[c], temp[c], handle[c]) /\ scenario \in Scenarios
           /\ JobOK(scenario, c, job[c]) /\ DOMAIN job[c] = JobFields /\ JobType(job[c])
    BY <1>0, Here
  <2>1. job'[c] = IF c \in chosen THEN r ELSE job[c]
    BY <2>0 DEF JoinedScan
  <2>2. SameBut(job[c], r, {"phase"}) /\ r.phase = "start"
    BY <2>0, Fields DEF SameBut
  <2> HIDE DEF r
  <2>3. SameBut(job[c], r, {"phase", "cache", "doc", "seen", "held", "now", "outcome", "approvals"})
    BY <2>2 DEF SameBut
  <2>4. job[c].outcome = "none" /\ r.outcome = "none" /\ r.policy = job[c].policy
    BY <1>1, <2>0, <2>2, Fields DEF SameBut, JobType
  <2>5. JobType(r)
    BY <2>0, <2>2, <2>4, Fields, NoVerdict DEF SameBut, JobType, JobPhases
  <2>6. JobOK(scenario, c, r)
    BY <1>1, <2>0, <2>2, <2>3, <2>4, <2>5, Moved, NoVerdict DEF Early, Storing, Late, Doctoring, Reading
  <2>7. TempOK(scenario, c, r, temp[c]) /\ HandleOK(scenario, r, handle[c])
    BY <1>1, <2>0, <2>2, <2>4 DEF LocalOK, TempOK, HandleOK, Reading
  <2>8. CASE c \in chosen
    BY <2>1, <2>2, <2>4, <2>6, <2>7, <2>8 DEF LocalOK
  <2>9. CASE c \notin chosen
    BY <1>1, <2>0, <2>1, <2>9
  <2>10. QED BY <2>8, <2>9
<1>4. LocalInv' /\ DefaultStep
  <2>1. DOMAIN job' = Callers /\ DOMAIN temp' = Callers
    BY <1>0, <1>2 DEF JoinedScan, LocalInv
  <2>2. QED BY <1>0, <1>2, <1>3, <2>1, ManySteps
<1>5. EntryInv' /\ DocumentInv' /\ HttpInv'
  BY <1>0, <1>2, <1>4, EntriesRest, DocumentsRest, HttpRests
<1>6. CheckInv'
  BY <1>0, <1>2, <1>4, <1>5, CheckInvStep
<1>7. DOMAIN command' = CommandFields /\ command'.phase = "checks"
  BY DEF JoinedScan, Becomes, ScanInv, CommandFields
<1>8. scan' = "none" /\ UNCHANGED IsScan
  BY <1>2 DEF JoinedScan, IsScan
<1>9. ScanInv'
  BY <1>7, <1>8, ScanWords DEF ScanInv, Beginning
<1>10. QED BY <1>3, <1>6, <1>9

\* The steps of the command that leave the checks alone.
LEMMA BeginKeeps ==
    ASSUME CheckInv, ScanInv, Begin
    PROVE  CheckInv' /\ ScanInv'
<1> DEFINE p == IF IsScan THEN "collect" ELSE "root"
           new == [command EXCEPT !.phase = p]
<1>1. command.phase = "start" /\ (FinishScan("cancelled") \/ Goes(new))
  BY DEF Begin, In, UnlessStopped
<1>2. IsScan => p = "collect"
  OBVIOUS
<1> HIDE DEF p
<1>3. DOMAIN new = CommandFields /\ new.phase = p
  BY DEF ScanInv, CommandFields
<1> HIDE DEF new
<1>4. QED BY <1>1, <1>2, <1>3, GoesKeeps, ScanFinishKeeps DEF Beginning

\* A step before the checks that changes something else than the phase.
LEMMA FieldGoes ==
    ASSUME CheckInv, ScanInv, NEW new, Goes(new), DOMAIN new = CommandFields,
           new.phase = command.phase
    PROVE  CheckInv' /\ ScanInv'
BY GoesKeeps

LEMMA DiffGoes ==
    ASSUME CheckInv, ScanInv, NEW new, Goes(new), DOMAIN new = CommandFields, ~IsScan
    PROVE  CheckInv' /\ ScanInv'
BY GoesKeeps

LEMMA DiffStepKeeps ==
    ASSUME CheckInv, ScanInv, FindRoot \/ PinBase \/ Show \/ ListUpdates \/ LookForLock \/ Answer
    PROVE  CheckInv' /\ ScanInv'
<1>0. scenario \in Scenarios /\ DOMAIN command = CommandFields
  BY DEF CheckInv, LocalInv, ScanInv
<1>1. ~IsScan
  <2>1. IsDiff \/ command.phase \notin Beginning \cup {"checks", "done"}
    BY DEF FindRoot, PinBase, Show, ListUpdates, LookForLock, Answer, In, Beginning
  <2>2. QED BY <1>0, <2>1, CommandStepsApart DEF ScanInv
<1>2. \/ \E o : FinishScan(o)
      \/ \E new : Goes(new) /\ DOMAIN new = CommandFields
  <2>1. CASE FindRoot
    <3>1. (\E o : FinishScan(o)) \/ Goes([command EXCEPT !.phase = "commit"])
      BY <2>1 DEF FindRoot, UnlessStopped
    <3>2. QED BY <1>0, <3>1
  <2>2. CASE PinBase
    <3>1. (\E o : FinishScan(o)) \/ Goes([command EXCEPT !.phase = "collect", !.base = ref])
      BY <2>2 DEF PinBase, UnlessStopped
    <3>2. DOMAIN [command EXCEPT !.phase = "collect", !.base = ref] = CommandFields
      BY <1>0
    <3>3. QED BY <3>1, <3>2
  <2>3. CASE Show
    <3>1. \E x : Goes([command EXCEPT !.show = x])
      BY <2>3 DEF Show
    <3>2. QED BY <1>0, <3>1
  <2>4. CASE ListUpdates
    <3>1. \E x : Goes([command EXCEPT !.updated = x])
      BY <2>4 DEF ListUpdates
    <3>2. QED BY <1>0, <3>1
  <2>5. CASE LookForLock
    <3>1. \/ \E o : FinishScan(o)
          \/ \E x, y : Goes([command EXCEPT !.next = x, !.present = y])
      BY <2>5 DEF LookForLock, UnlessStopped
    <3>2. \A x, y : DOMAIN [command EXCEPT !.next = x, !.present = y] = CommandFields
      BY <1>0
    <3>3. QED BY <3>1, <3>2
  <2>6. CASE Answer
    BY <2>6 DEF Answer, UnlessStopped
  <2>7. QED BY <2>1, <2>2, <2>3, <2>4, <2>5, <2>6
<1>3. QED BY <1>1, <1>2, ScanFinishKeeps, DiffGoes

LEMMA ManifestStepKeeps ==
    ASSUME CheckInv, ScanInv, FindManifest \/ ReadManifest
    PROVE  CheckInv' /\ ScanInv'
<1>1. \E x : Goes([command EXCEPT !.current = x])
  BY DEF FindManifest, ReadManifest
<1>2. PICK x : Goes([command EXCEPT !.current = x])
  BY <1>1
<1> DEFINE new == [command EXCEPT !.current = x]
<1>3. DOMAIN new = CommandFields /\ new.phase = command.phase
  BY DEF ScanInv, CommandFields
<1>4. Goes(new)
  BY <1>2
<1> HIDE DEF new
<1>5. QED BY <1>3, <1>4, FieldGoes

\* What becomes of the command once its tasks have settled.
LEMMA JoinedCases ==
    ASSUME Joined
    PROVE  /\ In("collect")
           /\ \/ FinishScan("cancelled") \/ FinishScan("failed")
              \/ /\ IsDiff /\ States \cap {"pending", "found", "cancelled", "failed"} = {}
                 /\ Goes([command EXCEPT !.phase = "locks",
                                         !.changes = Changes(command.show.value, command.current.value)])
              \/ /\ ~IsDiff
                 /\ \E chosen \in SUBSET Active :
                       /\ Cardinality(chosen) = Cardinality(command.current.value)
                       /\ JoinedScan(chosen)
<1>1. CASE Stopped
  BY <1>1 DEF Joined, UnlessStopped
<1>2. CASE ~Stopped /\ (\/ "cancelled" \in States \/ "failed" \in States)
  BY <1>2 DEF Joined, UnlessStopped
<1>3. CASE ~Stopped /\ "cancelled" \notin States /\ "failed" \notin States /\ IsDiff
  BY <1>3 DEF Joined, UnlessStopped
<1>4. CASE ~Stopped /\ "cancelled" \notin States /\ "failed" \notin States /\ ~IsDiff
  BY <1>4 DEF Joined, UnlessStopped, JoinedScan
<1>5. QED BY <1>1, <1>2, <1>3, <1>4

LEMMA JoinedKeeps ==
    ASSUME CheckInv, ScanInv, Joined
    PROVE  CheckInv' /\ ScanInv'
<1>0. scenario \in Scenarios /\ DOMAIN command = CommandFields /\ In("collect")
  BY JoinedCases DEF CheckInv, LocalInv, ScanInv
<1>1. CASE FinishScan("cancelled") \/ FinishScan("failed")
  BY <1>1, ScanFinishKeeps
<1>2. CASE /\ IsDiff
           /\ Goes([command EXCEPT !.phase = "locks",
                                   !.changes = Changes(command.show.value, command.current.value)])
  <2> DEFINE x == Changes(command.show.value, command.current.value)
             new == [command EXCEPT !.phase = "locks", !.changes = x]
  <2>1. Goes(new) /\ ~IsScan
    BY <1>0, <1>2, CommandStepsApart
  <2> HIDE DEF x
  <2>2. DOMAIN new = CommandFields
    BY <1>0
  <2> HIDE DEF new
  <2>3. QED BY <2>1, <2>2, DiffGoes
<1>3. CASE /\ ~IsDiff
           /\ \E chosen \in SUBSET Active :
                 /\ Cardinality(chosen) = Cardinality(command.current.value)
                 /\ JoinedScan(chosen)
  <2>1. IsScan /\ Alive /\ command.phase \in Beginning
    BY <1>0, <1>3 DEF In, Beginning
  <2>2. QED BY <1>3, <2>1, ChecksBegin
<1>4. QED BY <1>1, <1>2, <1>3, JoinedCases

LEMMA CommandStepKeeps ==
    ASSUME CheckInv, ScanInv, CommandStep
    PROVE  CheckInv' /\ ScanInv'
BY BeginKeeps, DiffStepKeeps, ManifestStepKeeps, JoinedKeeps DEF CommandStep

\* What the user does: it is no concern of the checks.
UserStep == EditManifest \/ EditLock \/ EditIndex \/ Commit \/ MoveRef \/ AbandonDiff

LEMMA UserKeeps ==
    ASSUME CheckInv, ScanInv, UserStep
    PROVE  CheckInv' /\ ScanInv'
<1>1. UNCHANGED vars
  BY DEF UserStep, EditManifest, EditLock, EditIndex, Commit, MoveRef, AbandonDiff, Acts
<1>2. UNCHANGED command \/ command' = [command EXCEPT !.stopped = TRUE]
  BY DEF UserStep, EditManifest, EditLock, EditIndex, Commit, MoveRef, AbandonDiff, Acts
<1>3. DOMAIN command' = CommandFields /\ command'.phase = command.phase
  BY <1>2 DEF ScanInv, CommandFields
<1>4. QED BY <1>1, <1>3, Rests, ScanGoes

LEMMA ScanInvInit ==
    ASSUME DependencyInit
    PROVE  CheckInv /\ ScanInv
<1>1. CheckInv
  BY CheckInvInit DEF DependencyInit
<1>2. scan = IF IsScan THEN "inventory" ELSE "none"
  BY DEF DependencyInit, Init, IsScan
<1>3. command = NoCommand
  BY DEF DependencyInit
<1>4. DOMAIN command = CommandFields /\ command.phase = "start"
  BY <1>3 DEF NoCommand, CommandFields
<1>5. IsScan => \A c \in Active : job[c].phase = "idle"
  <2>1. ASSUME IsScan, NEW c \in Active PROVE job[c].phase = "idle"
    <3>1. c \in Callers
      BY <1>1, ActiveIsCaller DEF CheckInv
    <3> DEFINE d == IF scenario.tool[c] = "approvals_verify" THEN "approvals" ELSE "policy"
    <3>2. job[c] = [NoJob EXCEPT !.phase = "idle", !.doc = d]
      BY <2>1, <3>1 DEF DependencyInit, Init, IsScan
    <3> HIDE DEF d
    <3>3. QED BY <3>2 DEF NoJob
  <2>2. QED BY <2>1
<1>6. ScanInv
  BY <1>2, <1>4, <1>5, ScanWords DEF ScanInv, Beginning
<1>7. QED BY <1>1, <1>6

LEMMA ScanInvStep ==
    ASSUME CheckInv, ScanInv, [DependencyNext]_allVars
    PROVE  CheckInv' /\ ScanInv'
<1>1. CASE Next /\ UNCHANGED <<project, command>>
  BY <1>1, NextKeeps, ScanInvNext
<1>2. CASE CommandStep
  BY <1>2, CommandStepKeeps
<1>3. CASE UserStep
  BY <1>3, UserKeeps
<1>4. CASE UNCHANGED allVars
  <2>1. UNCHANGED vars /\ UNCHANGED command
    BY <1>4 DEF allVars
  <2>2. DOMAIN command' = CommandFields
    BY <2>1 DEF ScanInv
  <2>3. QED BY <2>1, <2>2, Rests, ScanGoes
<1>5. QED BY <1>1, <1>2, <1>3, <1>4 DEF DependencyNext, UserStep

-----------------------------------------------------------------------------
(* What follows from the invariant.                                        *)

LEMMA CacheFollows ==
    ASSUME CheckInv
    PROVE  CacheStaysWhole
<1>1. EntriesWhole
  BY DEF CheckInv, EntryInv, EntryOK, EntriesWhole
<1>2. NoTemporaryStays
  <2>1. LocalInv
    BY DEF CheckInv
  <2>2. ASSUME NEW c \in Active, job[c].phase = "done"
        PROVE  temp[c] = None \/ job[c].outcome = "attention"
    BY <2>1, <2>2, Here DEF TempOK, Reading
  <2>3. QED BY <2>2 DEF NoTemporaryStays
<1>3. QED BY <1>1, <1>2 DEF CacheStaysWhole

LEMMA MaliceFollows ==
    ASSUME CheckInv
    PROVE  MaliceIsNeverLifted
<1>0. LocalInv
  BY DEF CheckInv
<1>1. ASSUME NEW c \in Active, job[c].outcome \in Verdicts, Config(c).npm,
             FoundMalicious(c) \/ job[c].npm = Failed("not_found")
      PROVE  job[c].outcome \in {"block", "error"}
  <2>1. MaliceOK(scenario, job[c])
    BY <1>0, <1>1, Here DEF JobOK, VerdictOK
  <2>2. PolicyOf(scenario, job[c]).npm
    BY <1>1, ConfigIsPolicy
  <2>3. QED BY <1>1, <2>1, <2>2 DEF MaliceOK, FoundMalicious
<1>2. QED BY <1>1 DEF MaliceIsNeverLifted

LEMMA AdmissionFollows ==
    ASSUME CheckInv, ScanInv
    PROVE  AdmissionIsWellFounded
<1>0. LocalInv
  BY DEF CheckInv
<1>1. \A c : Config(c) = PolicyOf(scenario, job[c])
  BY ConfigIsPolicy
<1>2. ASSUME NEW c \in Active, Admitted(c)
      PROVE  /\ job[c].outcome \in Verdicts /\ AdmissionOK(scenario, job[c])
             /\ Admits(job[c].outcome)
  BY <1>0, <1>2, Here, ScanWords DEF Admitted, JobOK, VerdictOK
<1>3. PolicyIsObeyed
  <2>1. ASSUME NEW c \in Active, Admitted(c)
        PROVE  /\ job[c].policy = "default" => "policy" \notin scenario.required /\ documents.policy.gone
               /\ job[c].approved => job[c].approvals # "default"
               /\ scenario.strict => Strict(Config(c))
    <3>1. scenario.tool[c] # "doctor"
      BY <1>0, <1>2, <2>1, Here, NoVerdict DEF JobOK, ToolOK
    <3>2. job[c].policy = "default" => "policy" \notin scenario.required
      BY <1>0, <3>1, Here DEF JobOK, DocOK
    <3>3. job[c].policy = "default" => documents["policy"].gone
      BY DEF CheckInv, DocumentInv
    <3>4. job[c].approved => job[c].approvals # "default"
      BY <1>2, <2>1 DEF AdmissionOK
    <3>5. scenario.strict => Strict(Config(c))
      BY <1>0, <1>1, Here, PolicyIsLegal
    <3>6. QED BY <3>2, <3>3, <3>4, <3>5
  <2>2. QED BY <2>1 DEF PolicyIsObeyed
<1>4. ASSUME scenario.registrySpec, NEW c \in Active, Admitted(c)
      PROVE  /\ ~job[c].approved \/ Strict(Config(c))
                  => Live(c) /\ (Config(c).osv => Malicious(Advisories) = {})
             /\ ~job[c].approved /\ Config(c).osv /\ Config(c).action["PG011"] \in {"review", "block"}
                  => Vulnerabilities(Config(c), Advisories) = {}
  <2>1. AdmissionOK(scenario, job[c]) /\ Admits(job[c].outcome)
    BY <1>2, <1>4
  <2>2. Advisories = AdvisoriesOf(scenario)
    BY DEF Advisories, AdvisoriesOf
  <2>3. QED BY <1>1, <1>4, <2>1, <2>2 DEF AdmissionOK, Live
<1>5. ASSUME Admits(scan)
      PROVE  \A c \in Active : job[c].phase = "idle" \/ Admitted(c)
  <2>1. scan \in Verdicts /\ IsScan
    BY <1>5, ScanWords DEF ScanInv
  <2>2. QED BY <1>5, <2>1 DEF ScanInv, Admitted
<1>6. QED BY <1>3, <1>4, <1>5 DEF AdmissionIsWellFounded

\* Whatever happens, a check that is in a phase has the fields that the phase
\* needs, the cache and the documents are as their writers leave them, and a
\* scan has the checks that its phase and its result say.
THEOREM ScanIsInductive == DependencySpec => [](CheckInv /\ ScanInv)
BY ScanInvInit, ScanInvStep, PTL DEF DependencySpec

\* Nobody reads half an entry, whatever dies and when: an entry has its name
\* only once it is whole and synchronized, and a check that ends leaves no
\* temporary file (atomicWriteCacheEnvelope), unless the doctor reports it.
THEOREM CacheIsWhole == DependencySpec => []CacheStaysWhole
<1>1. CheckInv /\ ScanInv => CacheStaysWhole
  BY CacheFollows
<1>2. QED BY <1>1, ScanIsInductive, PTL

\* As long as the npm registry is enabled, no approval, no cache and no order of
\* the documents lifts the verdict on a package that does not exist or of which
\* an advisory says that it is malicious.  Without that the code has no such
\* verdict: a policy that disables the registry gets one approvable finding.
THEOREM MaliceIsFinal == DependencySpec => []MaliceIsNeverLifted
<1>1. CheckInv /\ ScanInv => MaliceIsNeverLifted
  BY MaliceFollows
<1>2. QED BY <1>1, ScanIsInductive, PTL

\* A check that admits a package rests on live evidence, without an advisory
\* that its own configuration stands against, or on an approval that was read;
\* a scan admits only if every one of its checks does.
THEOREM AdmissionIsFounded == DependencySpec => []AdmissionIsWellFounded
<1>1. CheckInv /\ ScanInv => AdmissionIsWellFounded
  BY AdmissionFollows
<1>2. QED BY <1>1, ScanIsInductive, PTL

-----------------------------------------------------------------------------
(* An abort stops the check.                                               *)

\* Only checks are aborted, so that the invariant says what they are.
AbortInv == aborted \subseteq Active

Stopping ==
    \A c \in aborted :
       /\ call'[c].phase = "waiting" => call[c].phase = "waiting"
       /\ job'[c].npm = job[c].npm /\ job'[c].osv = job[c].osv
       /\ job'[c].outcome \in {job[c].outcome, "cancelled"}

\* A step of a check: another check's evidence is no concern of it.
LEMMA CheckStepStops ==
    ASSUME CheckInv, AbortInv, NEW c \in Active, CheckStep(c)
    PROVE  Stopping /\ AbortInv'
<1>1. Effect(c) /\ UNCHANGED <<scenario, aborted>>
  BY CheckStepHasEffect, CheckStepFrame
<1>2. c \in Callers /\ aborted \subseteq Callers
  BY ActiveIsCaller DEF CheckInv, AbortInv
<1>3. ASSUME NEW d \in aborted
      PROVE  call'[d].phase = "waiting" => call[d].phase = "waiting"
  BY <1>2, <1>3, CheckCalls
<1>4. ASSUME NEW d \in aborted
      PROVE  /\ job'[d].npm = job[d].npm /\ job'[d].osv = job[d].osv
             /\ job'[d].outcome \in {job[d].outcome, "cancelled"}
  BY <1>1, <1>2, <1>4 DEF Effect, Learns
<1>5. AbortInv'
  BY <1>1 DEF AbortInv, Active
<1>6. QED BY <1>3, <1>4, <1>5 DEF Stopping

LEMMA RestStops ==
    ASSUME UNCHANGED <<job, call>>
    PROVE  Stopping
BY DEF Stopping

\* A step of a request.
LEMMA RequestStops ==
    ASSUME CheckInv, AbortInv, NEW c \in Active, ClientStep(c) \/ NetworkStep(c),
           UNCHANGED <<scenario, job>>
    PROVE  Stopping /\ AbortInv'
<1>1. aborted \subseteq Callers /\ faults \in Nat /\ CallsInv /\ c \in Callers
  BY HttpParts, ActiveIsCaller DEF CheckInv
<1>2. /\ RequestKept(c) /\ UNCHANGED aborted
      /\ c \in aborted /\ call'[c].phase = "waiting" => call[c].phase = "waiting"
  BY <1>1, ClientKeeps, NetworkKeeps
<1>3. ASSUME NEW d \in aborted
      PROVE  call'[d].phase = "waiting" => call[d].phase = "waiting"
  BY <1>1, <1>2, <1>3 DEF RequestKept
<1>4. AbortInv'
  BY <1>2 DEF AbortInv, Active
<1>5. QED BY <1>3, <1>4 DEF Stopping

\* The abort itself.
LEMMA AbandonStops ==
    ASSUME CheckInv, AbortInv, NEW c \in Active, Abandon(c)
    PROVE  Stopping /\ AbortInv'
<1> DEFINE cs == IF scenario.scan THEN Active ELSE {c}
<1>1. Abort(cs) /\ UNCHANGED <<scenario, job>> /\ cs \subseteq Active
  BY DEF Abandon
<1>2. aborted \subseteq Callers /\ CallsInv /\ cs \in SUBSET Callers
  BY <1>1, HttpParts, ActiveIsCaller DEF CheckInv
<1> HIDE DEF cs
<1>3. \A d \in Callers : call'[d].phase = call[d].phase
  BY <1>1, <1>2, AbortKeeps
<1>4. AbortInv'
  BY <1>1 DEF AbortInv, Active, Abort
<1>5. QED BY <1>1, <1>2, <1>3, <1>4 DEF Stopping

\* A check that is killed.
LEMMA DyingStops ==
    ASSUME CheckInv, AbortInv, JobsDie, UNCHANGED <<scenario, call, aborted>>
    PROVE  Stopping /\ AbortInv'
<1>0. LocalInv
  BY DEF CheckInv
<1>1. ASSUME NEW c \in aborted
      PROVE  /\ job'[c].npm = job[c].npm /\ job'[c].osv = job[c].osv
             /\ job'[c].outcome \in {job[c].outcome, "cancelled"}
  <2>1. c \in Active
    BY DEF AbortInv
  <2>2. job[c].phase # "done" => job[c].outcome = "none"
    BY <1>0, <2>1, Here DEF JobOK, JobType
  <2>3. QED BY <2>1, <2>2 DEF JobsDie, Working
<1>2. AbortInv'
  BY DEF AbortInv, Active
<1>3. QED BY <1>1, <1>2 DEF Stopping

LEMMA NextStops ==
    ASSUME CheckInv, AbortInv, Next
    PROVE  Stopping /\ AbortInv'
<1>0. LocalInv
  BY DEF CheckInv
<1>1. ASSUME NEW c \in Active, CheckStep(c) PROVE Stopping /\ AbortInv'
  BY <1>1, CheckStepStops
<1>2. ASSUME NEW c \in Active,
             RequestStep(c)
             \/ (NetworkStep(c) /\ UNCHANGED <<scenario, world, disk, handle, job, scan>>)
      PROVE  Stopping /\ AbortInv'
  BY <1>2, RequestStops DEF RequestStep
<1>3. ASSUME NEW c \in Active, Abandon(c) PROVE Stopping /\ AbortInv'
  BY <1>3, AbandonStops
<1>4. ASSUME (\E c \in Active : Kill(c)) \/ PowerFails PROVE Stopping /\ AbortInv'
  <2>1. JobsDie
    BY <1>0, <1>4, DieIsDying DEF Kill, PowerFails
  <2>2. UNCHANGED <<scenario, call, aborted>>
    BY <1>4 DEF Kill, PowerFails, httpVars
  <2>3. QED BY <2>1, <2>2, DyingStops
<1>5. ASSUME \/ \E d \in {"policy", "approvals"}, content \in {"good", "bad", "link", "absent"} :
                   Edit(d, content)
             \/ \E state \in {"directory", "missing", "link", "unreadable"} : ChangeRoot(state)
             \/ ScanEnds \/ SetClock
      PROVE  Stopping /\ AbortInv'
  <2>1. UNCHANGED <<scenario, job, call, aborted>>
    BY <1>5 DEF Edit, ChangeRoot, ScanEnds, SetClock, httpVars
  <2>2. QED BY <2>1, RestStops DEF AbortInv, Active
<1>6. QED BY <1>1, <1>2, <1>3, <1>4, <1>5 DEF Next

LEMMA FinishRests ==
    ASSUME NEW o, FinishScan(o)
    PROVE  UNCHANGED <<scenario, job, call, aborted>>
BY DEF FinishScan, vars, httpVars

LEMMA GoesRests ==
    ASSUME NEW new, Goes(new)
    PROVE  UNCHANGED <<scenario, job, call, aborted>>
BY DEF Goes, vars, httpVars

\* The command begins checks, and does nothing else to them.
LEMMA CommandStops ==
    ASSUME CheckInv, AbortInv, CommandStep
    PROVE  Stopping /\ AbortInv'
<1>1. \/ \E o : FinishScan(o)
      \/ \E new : Goes(new)
      \/ \E o : Conclude(o) /\ UNCHANGED vars
      \/ \E chosen \in SUBSET Active : JoinedScan(chosen)
  <2>1. CASE Joined
    BY <2>1, JoinedCases
  <2>2. CASE Begin \/ FindRoot \/ PinBase \/ FindManifest \/ ReadManifest
    BY <2>2 DEF Begin, FindRoot, PinBase, FindManifest, ReadManifest, UnlessStopped
  <2>3. CASE Show \/ ListUpdates \/ LookForLock \/ Answer
    BY <2>3 DEF Show, ListUpdates, LookForLock, Answer, UnlessStopped, FinishScan
  <2>4. QED BY <2>1, <2>2, <2>3 DEF CommandStep
<1>2. CASE \E chosen \in SUBSET Active : JoinedScan(chosen)
  <2>1. PICK chosen \in SUBSET Active : JoinedScan(chosen)
    BY <1>2
  <2>2. UNCHANGED <<scenario, call, aborted>>
    BY <2>1 DEF JoinedScan, httpVars
  <2>3. ASSUME NEW c \in aborted
        PROVE  /\ job'[c].npm = job[c].npm /\ job'[c].osv = job[c].osv
               /\ job'[c].outcome = job[c].outcome
    <3> DEFINE r == [job[c] EXCEPT !.phase = "start"]
    <3>1. DOMAIN job[c] = JobFields /\ c \in Callers
      BY Here, ActiveIsCaller DEF CheckInv, AbortInv
    <3>2. job'[c] = r \/ job'[c] = job[c]
      BY <2>1, <3>1 DEF JoinedScan
    <3>3. SameBut(job[c], r, {"phase"})
      BY <3>1, Fields DEF SameBut
    <3> HIDE DEF r
    <3>4. QED BY <3>2, <3>3, Fields DEF SameBut
  <2>4. QED BY <2>2, <2>3 DEF Stopping, AbortInv, Active
<1>3. CASE \E o : Conclude(o) /\ UNCHANGED vars
  BY <1>3, RestStops DEF vars, httpVars, AbortInv, Active
<1>4. CASE (\E o : FinishScan(o)) \/ (\E new : Goes(new))
  <2>1. UNCHANGED <<scenario, job, call, aborted>>
    BY <1>4, FinishRests, GoesRests
  <2>2. QED BY <2>1, RestStops DEF AbortInv, Active
<1>5. QED BY <1>1, <1>2, <1>3, <1>4

LEMMA StepStops ==
    ASSUME CheckInv, AbortInv, [DependencyNext]_allVars
    PROVE  Stopping /\ AbortInv'
<1>1. CASE Next /\ UNCHANGED <<project, command>>
  BY <1>1, NextStops
<1>2. CASE CommandStep
  BY <1>2, CommandStops
<1>3. CASE UserStep \/ UNCHANGED allVars
  <2>1. UNCHANGED vars
    BY <1>3 DEF UserStep, EditManifest, EditLock, EditIndex, Commit, MoveRef, AbandonDiff, Acts, allVars
  <2>2. UNCHANGED <<scenario, job, call, aborted>>
    BY <2>1 DEF vars, httpVars
  <2>3. QED BY <2>2, RestStops DEF AbortInv, Active
<1>4. QED BY <1>1, <1>2, <1>3 DEF DependencyNext, UserStep

\* Once its caller has aborted, a check asks for nothing more, learns nothing
\* more of its package, and has no outcome but "cancelled", if any is left to it.
THEOREM AbortStops == DependencySpec => AbortStopsTheCheck
<1>1. DependencyInit => AbortInv
  BY DEF DependencyInit, Init, HttpInit, AbortInv
<1>2. CheckInv /\ AbortInv /\ [DependencyNext]_allVars => AbortInv'
  BY StepStops
<1>3. DependencySpec => []AbortInv
  BY <1>1, <1>2, ScanIsInductive, PTL DEF DependencySpec
<1>4. CheckInv /\ AbortInv /\ [DependencyNext]_allVars => [Stopping]_vars
  BY StepStops
<1>5. [Stopping]_vars <=> [\A c \in aborted :
          /\ call'[c].phase = "waiting" => call[c].phase = "waiting"
          /\ job'[c].npm = job[c].npm /\ job'[c].osv = job[c].osv
          /\ job'[c].outcome \in {job[c].outcome, "cancelled"}]_vars
  BY DEF Stopping
<1>6. QED BY <1>3, <1>4, <1>5, ScanIsInductive, PTL DEF DependencySpec, AbortStopsTheCheck

-----------------------------------------------------------------------------
(* The changes of a manifest.                                              *)

Items == [name : STRING, section : Nat, spec : STRING]

\* choosePrevious finds something among any candidates.
LEMMA LeastSection ==
    ASSUME NEW S \in SUBSET Items, S # {}
    PROVE  \E b \in S : \A o \in S : b.section <= o.section
<1> DEFINE D == {b.section : b \in S}
<1>1. D \subseteq Nat /\ D # {}
  BY DEF Items
<1>2. IsWellFoundedOn(OpToRel(<, Nat), Nat)
  BY NatLessThanWellFounded
<1>3. PICK n \in D : \A m \in D : <<m, n>> \notin OpToRel(<, Nat)
  BY <1>1, <1>2, WFMin
<1>4. \A m \in D : ~(m < n)
  BY <1>1, <1>3 DEF OpToRel
<1>5. PICK b \in S : b.section = n
  OBVIOUS
<1>6. ASSUME NEW o \in S PROVE n <= o.section
  BY <1>1, <1>4
<1>7. QED BY <1>5, <1>6

LEMMA PreviousIsCandidate ==
    ASSUME NEW base \in SUBSET Items, NEW i, Candidates(base, i) # {}
    PROVE  Previous(base, i) \in Candidates(base, i)
<1>1. Candidates(base, i) \in SUBSET Items
  BY DEF Candidates
<1>2. \E b \in Candidates(base, i) : \A o \in Candidates(base, i) : b.section <= o.section
  BY <1>1, LeastSection
<1>3. QED BY <1>2 DEF Previous

\* What groupByName and choosePrevious leave for an item.
LEMMA CandidatesAre ==
    ASSUME NEW base, NEW i
    PROVE  /\ Candidates(base, i) \subseteq {b \in base : b.name = i.name}
           /\ Candidates(base, i) = {} <=> {b \in base : b.name = i.name} = {}
           /\ \A b \in base : b.name = i.name /\ b.section = i.section =>
                 \A o \in Candidates(base, i) : o.section = i.section
BY DEF Candidates

\* What compareDirectDependencies makes of an item, of any two manifests: one
\* that is in both is no change, any other is, and of the right kind.
LEMMA KindIsRight ==
    ASSUME NEW base \in SUBSET Items, NEW i \in Items,
           \A x, y \in base : x.name = y.name /\ x.section = y.section => x = y
    PROVE  LET named == {b \in base : b.name = i.name}
               kind == ChangeKind(base, i)
           IN /\ kind = "none" <=> i \in base
              /\ kind = "added" <=> named = {}
              /\ kind = "section_changed" =>
                    /\ \E b \in named : b.spec = i.spec
                    /\ \A b \in named : b.section # i.section
<1> DEFINE named == {b \in base : b.name = i.name}
           before == Previous(base, i)
<1>1. CASE named = {}
  <2>1. ChangeKind(base, i) = "added"
    BY <1>1, CandidatesAre DEF ChangeKind
  <2>2. i \notin base
    BY <1>1
  <2>3. QED BY <1>1, <2>1, <2>2
<1>2. CASE named # {}
  <2>1. Candidates(base, i) # {}
    BY <1>2, CandidatesAre
  <2>2. before \in Candidates(base, i) /\ before \in named
    BY <2>1, PreviousIsCandidate, CandidatesAre
  <2>3. ChangeKind(base, i) = IF before.spec # i.spec THEN "version_changed"
                              ELSE IF before.section # i.section THEN "section_changed" ELSE "none"
    BY <2>1 DEF ChangeKind
  <2>4. \A b \in named : b.section = i.section => before.section = i.section
    BY <2>2, CandidatesAre
  <2> HIDE DEF before
  <2>5. ASSUME i \in base PROVE before = i
    <3>1. before.section = i.section /\ before.name = i.name
      BY <2>2, <2>4, <2>5
    <3>2. QED BY <2>2, <2>5, <3>1
  <2>6. ASSUME before.spec = i.spec, before.section = i.section PROVE i \in base
    <3>1. before.name = i.name /\ before \in Items
      BY <2>2
    <3>2. before = i
      BY <2>6, <3>1 DEF Items
    <3>3. QED BY <2>2, <3>2
  <2>7. ChangeKind(base, i) = "none" <=> i \in base
    BY <2>3, <2>5, <2>6
  <2>8. ChangeKind(base, i) # "added"
    BY <2>3
  <2>9. ASSUME ChangeKind(base, i) = "section_changed"
        PROVE  before.spec = i.spec /\ \A b \in named : b.section # i.section
    BY <2>3, <2>4, <2>9
  <2>10. QED BY <1>2, <2>2, <2>7, <2>8, <2>9
<1>3. QED BY <1>1, <1>2

\* So the changes are what the manifest adds to the other.
LEMMA ChangesAreTheDifference ==
    ASSUME NEW base \in SUBSET Items, NEW current \in SUBSET Items,
           \A x, y \in base : x.name = y.name /\ x.section = y.section => x = y
    PROVE  /\ {c.item : c \in Changes(base, current)} = current \ base
           /\ \A c \in Changes(base, current) :
                 LET named == {b \in base : b.name = c.item.name}
                 IN /\ (c.kind = "added") = (named = {})
                    /\ c.kind = "section_changed" =>
                         /\ \E b \in named : b.spec = c.item.spec
                         /\ \A b \in named : b.section # c.item.section
<1>1. \A c \in Changes(base, current) :
         c.item \in current /\ c.kind = ChangeKind(base, c.item) /\ c.kind # "none"
  BY DEF Changes
<1>2. \A i \in current : ChangeKind(base, i) # "none" =>
         \E c \in Changes(base, current) : c.item = i
  <2>1. ASSUME NEW i \in current, ChangeKind(base, i) # "none"
        PROVE  \E c \in Changes(base, current) : c.item = i
    <3> DEFINE k == ChangeKind(base, i)
               c == [item |-> i, kind |-> ChangeKind(base, i)]
    <3>1. c \in Changes(base, current)
      BY <2>1 DEF Changes
    <3>2. QED BY <3>1
  <2>2. QED BY <2>1
<1>3. \A i \in current : ChangeKind(base, i) = "none" <=> i \in base
  BY KindIsRight
<1>4. {c.item : c \in Changes(base, current)} = current \ base
  BY <1>1, <1>2, <1>3
<1>5. ASSUME NEW c \in Changes(base, current)
      PROVE  LET named == {b \in base : b.name = c.item.name}
             IN /\ (c.kind = "added") = (named = {})
                /\ c.kind = "section_changed" =>
                     /\ \E b \in named : b.spec = c.item.spec
                     /\ \A b \in named : b.section # c.item.section
  <2>1. c.item \in Items /\ c.kind = ChangeKind(base, c.item)
    BY <1>1
  <2>2. QED BY <2>1, KindIsRight
<1>6. QED BY <1>4, <1>5

-----------------------------------------------------------------------------
(* The command.                                                            *)

Phases == {"start", "root", "commit", "collect", "locks", "checks", "done"}
CommandOutcomes == {"none", "cancelled", "failed", "allow", "review"}
IsTask(t) == DOMAIN t = {"state", "value"} /\ t.state \in TaskStates
Answers == {"allow", "review"}

\* A command m, with n commits.
CommandOK(m, n) ==
    /\ DOMAIN m = CommandFields
    /\ m.phase \in Phases /\ m.base \in 0..n /\ m.next \in 1..(Len(Locks) + 1)
    /\ IsTask(m.show) /\ IsTask(m.current) /\ IsTask(m.updated)
    /\ m.present \subseteq LockNames
    /\ m.outcome \in CommandOutcomes
    /\ (m.phase = "done") = (m.outcome # "none")

\* What the tasks of a diff have read.
ShowOK(m, cs) ==
    m.show.state = "ok" => m.base \in DOMAIN cs /\ m.show.value = cs[m.base].manifest.items
CurrentOK(m) == m.current.state = "ok" => m.current.value \in SUBSET Items
UpdatedOK(m, cs, w) ==
    m.updated.state = "ok" =>
       /\ m.base \in DOMAIN cs /\ m.updated.value \subseteq LockNames
       /\ \A l \in LockNames \ w.touched : l \in m.updated.value <=> Differs(l, cs[m.base], w)
PresentOK(m, w) ==
    /\ \A l \in m.present : \E i \in 1..(m.next - 1) : l = Locks[i]
    /\ \A i \in 1..(m.next - 1) :
          Locks[i] \notin w.touched => (Locks[i] \in m.present <=> Regular(w.lock[Locks[i]]))

\* The tasks are done when the lockfiles are looked for, and these when it answers.
TasksDone(m) ==
    /\ m.show.state = "ok" /\ m.current.state = "ok" /\ m.updated.state = "ok"
    /\ m.changes = Changes(m.show.value, m.current.value)
AnswerOf(m) ==
    IF m.changes # {} /\ m.updated.value \cap m.present = {} THEN "review" ELSE "allow"
DiffOK(m, cs, w) ==
    /\ m.phase \in {"start", "root", "commit"} =>
          m.show.state = "pending" /\ m.updated.state = "pending"
    /\ m.phase \in {"collect", "locks"} => m.base \in DOMAIN cs
    /\ ShowOK(m, cs) /\ CurrentOK(m) /\ UpdatedOK(m, cs, w) /\ PresentOK(m, w)
    /\ m.phase = "locks" => TasksDone(m)
    /\ m.outcome \in Answers =>
          TasksDone(m) /\ m.next > Len(Locks) /\ m.outcome = AnswerOf(m)

ProjectInv ==
    /\ commits \in Seq(Contents) /\ ref \in DOMAIN commits /\ edits \in Nat
    /\ work \in WorkTrees
DiffInv == IsDiff => DiffOK(command, commits, work)
CommandInv == ProjectInv /\ CommandOK(command, Len(commits)) /\ DiffInv

LEMMA CommandNames ==
    CommandFields = {"phase", "base", "stopped", "show", "current", "updated", "next", "present",
                     "changes", "outcome"}
BY DEF CommandFields

\* The record r is m, apart from the fields fs.
CommandBut(m, r, fs) ==
    DOMAIN r = CommandFields /\ \A f \in CommandFields \ fs : r[f] = m[f]

\* The command concludes without an answer.
LEMMA EndIsOK ==
    ASSUME NEW m, NEW cs, NEW w, NEW n, CommandOK(m, n), NEW r,
           CommandBut(m, r, {"phase", "outcome"}),
           r.phase = "done", r.outcome \in {"cancelled", "failed"}
    PROVE  CommandOK(r, n) /\ (DiffOK(m, cs, w) => DiffOK(r, cs, w))
<1>1. /\ r.base = m.base /\ r.next = m.next /\ r.show = m.show /\ r.current = m.current
      /\ r.updated = m.updated /\ r.present = m.present
  BY CommandNames DEF CommandBut
<1>2. CommandOK(r, n)
  BY <1>1 DEF CommandOK, CommandBut, Phases, CommandOutcomes
<1>3. ASSUME DiffOK(m, cs, w) PROVE DiffOK(r, cs, w)
  <2>1. ShowOK(r, cs) /\ CurrentOK(r) /\ UpdatedOK(r, cs, w) /\ PresentOK(r, w)
    BY <1>1, <1>3 DEF DiffOK, ShowOK, CurrentOK, UpdatedOK, PresentOK
  <2>2. QED BY <2>1 DEF DiffOK, Answers
<1>4. QED BY <1>2, <1>3

\* The world of a diff: new commits come after those there are, and what was
\* not touched is as it was.
LEMMA WorldKeepsDiff ==
    ASSUME NEW m, NEW cs, NEW w, DiffOK(m, cs, w), NEW r, NEW ds, NEW v,
           CommandBut(m, r, {"stopped"}),
           DOMAIN cs \subseteq DOMAIN ds, \A n \in DOMAIN cs : ds[n] = cs[n],
           w.touched \subseteq v.touched,
           \A l \in LockNames \ v.touched : v.lock[l] = w.lock[l] /\ (l \in v.index <=> l \in w.index),
           m.next - 1 <= Len(Locks), m.next \in Nat
    PROVE  DiffOK(r, ds, v)
<1>1. /\ r.phase = m.phase /\ r.base = m.base /\ r.next = m.next /\ r.show = m.show
      /\ r.current = m.current /\ r.updated = m.updated /\ r.present = m.present
      /\ r.changes = m.changes /\ r.outcome = m.outcome
  BY CommandNames DEF CommandBut
<1>2. ShowOK(r, ds) /\ CurrentOK(r)
  BY <1>1 DEF DiffOK, ShowOK, CurrentOK
<1>3. UpdatedOK(r, ds, v)
  BY <1>1 DEF DiffOK, UpdatedOK, Differs
<1>4. \A i \in 1..(m.next - 1) : Locks[i] \in LockNames
  BY ProjectAssumption DEF LockNames, ToSet
<1>5. PresentOK(r, v)
  BY <1>1, <1>4 DEF DiffOK, PresentOK
<1>6. QED BY <1>1, <1>2, <1>3, <1>5 DEF DiffOK, TasksDone, AnswerOf

LEMMA CommandIs ==
    ASSUME CommandInv
    PROVE  /\ ProjectInv /\ CommandOK(command, Len(commits)) /\ DOMAIN command = CommandFields
           /\ commits \in Seq(Contents) /\ Len(commits) \in Nat /\ DOMAIN commits = 1..Len(commits)
           /\ ref \in 1..Len(commits) /\ work \in WorkTrees
           /\ IsDiff => DiffOK(command, commits, work)
BY DEF CommandInv, ProjectInv, DiffInv, CommandOK

\* The command moves: what is left to show is about the new record.
LEMMA CommandMoves ==
    ASSUME CommandInv, NEW new, Becomes(new), UNCHANGED scenario,
           CommandOK(new, Len(commits)), IsDiff => DiffOK(new, commits, work)
    PROVE  CommandInv'
<1>1. command' = new /\ UNCHANGED <<ref, commits, work, edits>> /\ UNCHANGED IsDiff
  BY DEF Becomes, project, IsDiff
<1>2. QED BY <1>1, CommandIs DEF CommandInv, ProjectInv, DiffInv

LEMMA GoesOnTo ==
    ASSUME NEW new, Goes(new)
    PROVE  Becomes(new) /\ UNCHANGED scenario
BY DEF Goes, vars

\* A failure or a cancellation ends any command.
LEMMA ScanFinishes ==
    ASSUME CommandInv, NEW o \in {"cancelled", "failed"}, FinishScan(o)
    PROVE  CommandInv'
<1> DEFINE r == [command EXCEPT !.phase = "done", !.outcome = o]
<1>1. Becomes(r) /\ UNCHANGED scenario
  BY DEF FinishScan, Conclude, vars
<1>2. CommandBut(command, r, {"phase", "outcome"}) /\ r.phase = "done" /\ r.outcome = o
  BY CommandIs, CommandNames DEF CommandBut
<1> HIDE DEF r
<1>3. CommandOK(r, Len(commits)) /\ (IsDiff => DiffOK(r, commits, work))
  BY <1>2, CommandIs, EndIsOK
<1>4. QED BY <1>1, <1>3, CommandMoves

\* A phase of the beginning follows another.
LEMMA PhaseGoes ==
    ASSUME CommandInv, NEW p \in {"root", "commit", "collect"},
           Goes([command EXCEPT !.phase = p]),
           IsDiff => p # "collect" /\ command.phase \in {"start", "root"}, command.phase # "done"
    PROVE  CommandInv'
<1> DEFINE r == [command EXCEPT !.phase = p]
<1>1. CommandBut(command, r, {"phase"}) /\ r.phase = p
  BY CommandIs, CommandNames DEF CommandBut
<1>2. Goes(r)
  OBVIOUS
<1> HIDE DEF r
<1>3. /\ r.base = command.base /\ r.next = command.next /\ r.show = command.show
      /\ r.current = command.current /\ r.updated = command.updated /\ r.present = command.present
      /\ r.outcome = command.outcome
  BY <1>1, CommandNames DEF CommandBut
<1>4. CommandOK(r, Len(commits)) /\ r.outcome = "none"
  BY <1>1, <1>3, CommandIs DEF CommandOK, CommandBut, Phases
<1>5. ASSUME IsDiff PROVE DiffOK(r, commits, work)
  <2>1. DiffOK(command, commits, work)
    BY <1>5, CommandIs
  <2>2. ShowOK(r, commits) /\ CurrentOK(r) /\ UpdatedOK(r, commits, work) /\ PresentOK(r, work)
    BY <1>3, <2>1 DEF DiffOK, ShowOK, CurrentOK, UpdatedOK, PresentOK
  <2>3. QED BY <1>1, <1>3, <1>4, <1>5, <2>1, <2>2 DEF DiffOK, Answers
<1>6. QED BY <1>2, <1>4, <1>5, GoesOnTo, CommandMoves

LEMMA BeginIsOK ==
    ASSUME CommandInv, scenario \in Scenarios, Begin \/ FindRoot
    PROVE  CommandInv'
<1>1. CASE Begin
  <2>1. command.phase = "start" /\ (IsScan \/ IsDiff)
        /\ (FinishScan("cancelled") \/ Goes([command EXCEPT !.phase = IF IsScan THEN "collect" ELSE "root"]))
    BY <1>1 DEF Begin, In, UnlessStopped
  <2>2. CASE IsScan
    BY <2>1, <2>2, CommandStepsApart, PhaseGoes, ScanFinishes
  <2>3. CASE ~IsScan
    BY <2>1, <2>3, PhaseGoes, ScanFinishes
  <2>4. QED BY <2>2, <2>3
<1>2. CASE FindRoot
  <2>1. command.phase = "root"
        /\ (FinishScan("cancelled") \/ FinishScan("failed") \/ Goes([command EXCEPT !.phase = "commit"]))
    BY <1>2 DEF FindRoot, In, UnlessStopped
  <2>2. QED BY <2>1, PhaseGoes, ScanFinishes
<1>3. QED BY <1>1, <1>2

LEMMA PinBaseIsOK ==
    ASSUME CommandInv, PinBase
    PROVE  CommandInv'
<1> DEFINE r == [command EXCEPT !.phase = "collect", !.base = ref]
<1>1. command.phase = "commit" /\ (FinishScan("cancelled") \/ FinishScan("failed") \/ Goes(r))
  BY DEF PinBase, In, UnlessStopped
<1>2. CommandBut(command, r, {"phase", "base"}) /\ r.phase = "collect" /\ r.base = ref
  BY CommandIs, CommandNames DEF CommandBut
<1> HIDE DEF r
<1>3. /\ r.next = command.next /\ r.show = command.show
      /\ r.current = command.current /\ r.updated = command.updated /\ r.present = command.present
      /\ r.outcome = command.outcome
  BY <1>2, CommandNames DEF CommandBut
<1>4. CommandOK(r, Len(commits)) /\ r.outcome = "none"
  BY <1>1, <1>2, <1>3, CommandIs DEF CommandOK, CommandBut, Phases
<1>5. ASSUME IsDiff PROVE DiffOK(r, commits, work)
  <2>1. DiffOK(command, commits, work)
    BY <1>5, CommandIs
  <2>2. r.show.state = "pending" /\ r.updated.state = "pending"
    BY <1>1, <1>3, <2>1 DEF DiffOK
  <2>3. ShowOK(r, commits) /\ CurrentOK(r) /\ UpdatedOK(r, commits, work) /\ PresentOK(r, work)
    BY <1>3, <2>1, <2>2 DEF DiffOK, ShowOK, CurrentOK, UpdatedOK, PresentOK
  <2>4. QED BY <1>2, <1>4, <2>2, <2>3, CommandIs DEF DiffOK, Answers
<1>6. QED BY <1>1, <1>4, <1>5, GoesOnTo, CommandMoves, ScanFinishes

\* A task settles.
LEMMA SettledIs ==
    ASSUME NEW state \in {"ok", "failed", "found"}, NEW value
    PROVE  /\ IsTask(Settled(state, value))
           /\ Settled(state, value).state \in {state, "cancelled"}
           /\ Settled(state, value).value = value
BY DEF Settled, IsTask, TaskStates

\* The three tasks, in any order.
LEMMA ShowSettles ==
    ASSUME CommandInv, In("collect"), IsDiff, NEW t, IsTask(t),
           Goes([command EXCEPT !.show = t]),
           t.state = "ok" => t.value = Base.manifest.items
    PROVE  CommandInv'
<1> DEFINE r == [command EXCEPT !.show = t]
<1>1. CommandBut(command, r, {"show"}) /\ r.show = t /\ Goes(r) /\ command.phase = "collect"
  BY CommandIs, CommandNames DEF CommandBut, In
<1> HIDE DEF r
<1>2. /\ r.base = command.base /\ r.next = command.next /\ r.phase = command.phase
      /\ r.current = command.current /\ r.updated = command.updated /\ r.present = command.present
      /\ r.outcome = command.outcome
  BY <1>1, CommandNames DEF CommandBut
<1>3. CommandOK(r, Len(commits)) /\ r.outcome = "none"
  BY <1>1, <1>2, CommandIs DEF CommandOK, CommandBut
<1>4. DiffOK(r, commits, work)
  <2>1. DiffOK(command, commits, work)
    BY CommandIs
  <2>2. ShowOK(r, commits)
    BY <1>1, <1>2, <2>1 DEF DiffOK, ShowOK, Base
  <2>3. CurrentOK(r) /\ UpdatedOK(r, commits, work) /\ PresentOK(r, work)
    BY <1>2, <2>1 DEF DiffOK, CurrentOK, UpdatedOK, PresentOK
  <2>4. QED BY <1>1, <1>2, <1>3, <2>1, <2>2, <2>3 DEF DiffOK, Answers
<1>5. QED BY <1>1, <1>3, <1>4, GoesOnTo, CommandMoves

LEMMA ShowIsOK ==
    ASSUME CommandInv, Show
    PROVE  CommandInv'
<1>1. /\ In("collect") /\ IsDiff
      /\ \/ Goes([command EXCEPT !.show = Settled("failed", {})])
         \/ Goes([command EXCEPT !.show = Settled("ok", Base.manifest.items)])
  BY DEF Show
<1>2. QED BY <1>1, SettledIs, ShowSettles

LEMMA CurrentSettles ==
    ASSUME CommandInv, In("collect"), NEW t, IsTask(t),
           Goes([command EXCEPT !.current = t]),
           t.state = "ok" => t.value \in SUBSET Items
    PROVE  CommandInv'
<1> DEFINE r == [command EXCEPT !.current = t]
<1>1. CommandBut(command, r, {"current"}) /\ r.current = t /\ Goes(r) /\ command.phase = "collect"
  BY CommandIs, CommandNames DEF CommandBut, In
<1> HIDE DEF r
<1>2. /\ r.base = command.base /\ r.next = command.next /\ r.phase = command.phase
      /\ r.show = command.show /\ r.updated = command.updated /\ r.present = command.present
      /\ r.outcome = command.outcome
  BY <1>1, CommandNames DEF CommandBut
<1>3. CommandOK(r, Len(commits)) /\ r.outcome = "none"
  BY <1>1, <1>2, CommandIs DEF CommandOK, CommandBut
<1>4. ASSUME IsDiff PROVE DiffOK(r, commits, work)
  <2>1. DiffOK(command, commits, work)
    BY <1>4, CommandIs
  <2>2. CurrentOK(r)
    BY <1>1 DEF CurrentOK
  <2>3. ShowOK(r, commits) /\ UpdatedOK(r, commits, work) /\ PresentOK(r, work)
    BY <1>2, <2>1 DEF DiffOK, ShowOK, UpdatedOK, PresentOK
  <2>4. QED BY <1>1, <1>2, <1>3, <2>1, <2>2, <2>3 DEF DiffOK, Answers
<1>5. QED BY <1>1, <1>3, <1>4, GoesOnTo, CommandMoves

LEMMA ManifestIsOK ==
    ASSUME CommandInv, FindManifest \/ ReadManifest
    PROVE  CommandInv'
<1>1. work.manifest.items \in SUBSET Items
  BY CommandIs DEF WorkTrees, Manifests, Items
<1>2. CASE FindManifest
  <2>1. /\ In("collect")
        /\ \/ Goes([command EXCEPT !.current = Settled("failed", {})])
           \/ Goes([command EXCEPT !.current = Settled("found", {})])
    BY <1>2 DEF FindManifest
  <2>2. QED BY <2>1, SettledIs, CurrentSettles
<1>3. CASE ReadManifest
  <2>1. /\ In("collect")
        /\ \/ Goes([command EXCEPT !.current = Settled("failed", {})])
           \/ Goes([command EXCEPT !.current = Settled("ok", work.manifest.items)])
    BY <1>3 DEF ReadManifest
  <2>2. QED BY <1>1, <2>1, SettledIs, CurrentSettles
<1>4. QED BY <1>2, <1>3

LEMMA UpdatedSettles ==
    ASSUME CommandInv, In("collect"), IsDiff, NEW t, IsTask(t),
           Goes([command EXCEPT !.updated = t]),
           t.state = "ok" =>
              /\ t.value \subseteq LockNames
              /\ \A l \in LockNames : l \in t.value <=> Differs(l, Base, work)
    PROVE  CommandInv'
<1> DEFINE r == [command EXCEPT !.updated = t]
<1>1. CommandBut(command, r, {"updated"}) /\ r.updated = t /\ Goes(r) /\ command.phase = "collect"
  BY CommandIs, CommandNames DEF CommandBut, In
<1> HIDE DEF r
<1>2. /\ r.base = command.base /\ r.next = command.next /\ r.phase = command.phase
      /\ r.show = command.show /\ r.current = command.current /\ r.present = command.present
      /\ r.outcome = command.outcome
  BY <1>1, CommandNames DEF CommandBut
<1>3. CommandOK(r, Len(commits)) /\ r.outcome = "none"
  BY <1>1, <1>2, CommandIs DEF CommandOK, CommandBut
<1>4. DiffOK(r, commits, work)
  <2>1. DiffOK(command, commits, work)
    BY CommandIs
  <2>2. UpdatedOK(r, commits, work)
    BY <1>1, <1>2, <2>1 DEF DiffOK, UpdatedOK, Base
  <2>3. ShowOK(r, commits) /\ CurrentOK(r) /\ PresentOK(r, work)
    BY <1>2, <2>1 DEF DiffOK, ShowOK, CurrentOK, PresentOK
  <2>4. QED BY <1>1, <1>2, <1>3, <2>1, <2>2, <2>3 DEF DiffOK, Answers
<1>5. QED BY <1>1, <1>3, <1>4, GoesOnTo, CommandMoves

LEMMA ListUpdatesIsOK ==
    ASSUME CommandInv, ListUpdates
    PROVE  CommandInv'
<1> DEFINE differ == {l \in LockNames : Differs(l, Base, work)}
<1>1. /\ In("collect") /\ IsDiff
      /\ \/ Goes([command EXCEPT !.updated = Settled("failed", {})])
         \/ Goes([command EXCEPT !.updated = Settled("ok", differ)])
  BY DEF ListUpdates
<1>2. differ \subseteq LockNames /\ \A l \in LockNames : l \in differ <=> Differs(l, Base, work)
  OBVIOUS
<1> HIDE DEF differ
<1>3. QED BY <1>1, <1>2, SettledIs, UpdatedSettles

\* The tasks of a diff have all succeeded.
LEMMA DiffJoins ==
    ASSUME CommandInv, In("collect"), IsDiff, ~IsScan,
           States \cap {"pending", "found", "cancelled", "failed"} = {},
           Goes([command EXCEPT !.phase = "locks",
                                !.changes = Changes(command.show.value, command.current.value)])
    PROVE  CommandInv'
<1> DEFINE x == Changes(command.show.value, command.current.value)
           r == [command EXCEPT !.phase = "locks", !.changes = x]
<1>0. Goes(r) /\ command.phase = "collect"
  BY DEF In
<1> HIDE DEF x
<1>1. CommandBut(command, r, {"phase", "changes"}) /\ r.phase = "locks" /\ r.changes = x
  BY CommandIs, CommandNames DEF CommandBut
<1> HIDE DEF r
<1>2. /\ r.base = command.base /\ r.next = command.next /\ r.show = command.show
      /\ r.current = command.current /\ r.updated = command.updated /\ r.present = command.present
      /\ r.outcome = command.outcome
  BY <1>1, CommandNames DEF CommandBut
<1>3. CommandOK(r, Len(commits)) /\ r.outcome = "none"
  BY <1>0, <1>1, <1>2, CommandIs DEF CommandOK, CommandBut, Phases
<1>4. command.show.state = "ok" /\ command.current.state = "ok" /\ command.updated.state = "ok"
  <2>1. {command.show.state, command.current.state, command.updated.state} \subseteq TaskStates
    BY CommandIs DEF CommandOK, IsTask
  <2>2. QED BY <2>1 DEF States, TaskStates
<1>5. DiffOK(r, commits, work)
  <2>1. DiffOK(command, commits, work)
    BY CommandIs
  <2>2. ShowOK(r, commits) /\ CurrentOK(r) /\ UpdatedOK(r, commits, work) /\ PresentOK(r, work)
    BY <1>2, <2>1 DEF DiffOK, ShowOK, CurrentOK, UpdatedOK, PresentOK
  <2>3. TasksDone(r)
    BY <1>1, <1>2, <1>4 DEF TasksDone, x
  <2>4. QED BY <1>0, <1>1, <1>2, <1>3, <2>1, <2>2, <2>3 DEF DiffOK, Answers
<1>6. QED BY <1>0, <1>3, <1>5, GoesOnTo, CommandMoves

\* A lockfile is looked for.
LEMMA LookIsOK ==
    ASSUME CommandInv, ~IsScan, LookForLock
    PROVE  CommandInv'
<1> DEFINE l == Locks[command.next]
           p == command.present \cup {x \in {l} : Regular(work.lock[x])}
           r == [command EXCEPT !.next = @ + 1, !.present = p]
<1>0. /\ command.phase = "locks" /\ command.next <= Len(Locks) /\ IsDiff
      /\ FinishScan("cancelled") \/ Goes(r)
  BY DEF LookForLock, In, UnlessStopped
<1>1. CommandBut(command, r, {"next", "present"}) /\ r.next = command.next + 1 /\ r.present = p
  BY CommandIs, CommandNames DEF CommandBut
<1>2. p \subseteq command.present \cup {l}
      /\ (l \in p <=> l \in command.present \/ Regular(work.lock[l]))
      /\ \A k : k # l => (k \in p <=> k \in command.present)
  OBVIOUS
<1>3. command.next \in 1..(Len(Locks) + 1) /\ command.next \in 1..Len(Locks)
      /\ command.next \in Nat /\ Len(Locks) \in Nat /\ l \in LockNames
  BY <1>0, CommandIs, ProjectAssumption DEF CommandOK, LockNames, ToSet
<1> HIDE DEF r, p
<1>4. /\ r.base = command.base /\ r.phase = command.phase /\ r.show = command.show
      /\ r.current = command.current /\ r.updated = command.updated
      /\ r.outcome = command.outcome /\ r.changes = command.changes
  BY <1>1, CommandNames DEF CommandBut
<1>5. CommandOK(r, Len(commits)) /\ r.outcome = "none"
  <2>1. r.next \in 1..(Len(Locks) + 1)
    BY <1>1, <1>3
  <2>2. r.present \subseteq LockNames
    BY <1>1, <1>2, <1>3, CommandIs DEF CommandOK
  <2>3. QED BY <1>0, <1>1, <1>4, <2>1, <2>2, CommandIs DEF CommandOK, CommandBut
<1>6. DiffOK(r, commits, work)
  <2>1. DiffOK(command, commits, work)
    BY <1>0, CommandIs
  <2>2. ShowOK(r, commits) /\ CurrentOK(r) /\ UpdatedOK(r, commits, work)
    BY <1>4, <2>1 DEF DiffOK, ShowOK, CurrentOK, UpdatedOK
  <2>3. TasksDone(r)
    BY <1>0, <1>4, <2>1 DEF DiffOK, TasksDone
  <2>4. PresentOK(command, work)
    BY <2>1 DEF DiffOK
  <2>5. r.next - 1 = command.next
    BY <1>1, <1>3
  <2>6. ASSUME NEW k \in r.present PROVE \E i \in 1..(r.next - 1) : k = Locks[i]
    <3>1. CASE k = l
      BY <1>3, <2>5, <3>1
    <3>2. CASE k # l
      <4>1. k \in command.present
        BY <1>1, <1>2, <2>6, <3>2
      <4>2. PICK i \in 1..(command.next - 1) : k = Locks[i]
        BY <2>4, <4>1 DEF PresentOK
      <4>3. QED BY <1>3, <2>5, <4>2
    <3>3. QED BY <3>1, <3>2
  <2>7. ASSUME NEW i \in 1..(r.next - 1), Locks[i] \notin work.touched
        PROVE  Locks[i] \in r.present <=> Regular(work.lock[Locks[i]])
    <3>1. i \in 1..(command.next - 1) \/ Locks[i] = l
      BY <1>3, <2>5
    <3>2. CASE Locks[i] # l
      BY <1>1, <1>2, <2>4, <2>7, <3>1, <3>2 DEF PresentOK
    <3>3. CASE Locks[i] = l
      <4>1. l \in command.present => Regular(work.lock[l])
        <5>1. ASSUME l \in command.present PROVE Regular(work.lock[l])
          <6>1. PICK j \in 1..(command.next - 1) : l = Locks[j]
            BY <2>4, <5>1 DEF PresentOK
          <6>2. Locks[j] \notin work.touched
            BY <2>7, <3>3, <6>1
          <6>3. QED BY <2>4, <5>1, <6>1, <6>2 DEF PresentOK
        <5>2. QED BY <5>1
      <4>2. QED BY <1>1, <1>2, <3>3, <4>1
    <3>4. QED BY <3>2, <3>3
  <2>8. PresentOK(r, work)
    BY <2>6, <2>7 DEF PresentOK
  <2>9. QED BY <1>0, <1>4, <1>5, <2>1, <2>2, <2>3, <2>8 DEF DiffOK, Answers
<1>7. QED BY <1>0, <1>5, <1>6, GoesOnTo, CommandMoves, ScanFinishes

\* The diff answers.
LEMMA AnswerIsOK ==
    ASSUME CommandInv, ~IsScan, Answer
    PROVE  CommandInv'
<1> DEFINE o == AnswerOf(command)
           r == [command EXCEPT !.phase = "done", !.outcome = o]
<1>0. /\ command.phase = "locks" /\ command.next > Len(Locks) /\ IsDiff
      /\ FinishScan("cancelled") \/ (Becomes(r) /\ UNCHANGED scenario)
  BY DEF Answer, In, UnlessStopped, FinishScan, Conclude, Usable, AnswerOf, vars
<1>1. o \in Answers
  BY DEF AnswerOf, Answers
<1>2. o = AnswerOf(command)
  OBVIOUS
<1> HIDE DEF o
<1>3. CommandBut(command, r, {"phase", "outcome"}) /\ r.phase = "done" /\ r.outcome = o
  BY CommandIs, CommandNames DEF CommandBut
<1> HIDE DEF r
<1>4. /\ r.base = command.base /\ r.next = command.next /\ r.show = command.show
      /\ r.current = command.current /\ r.updated = command.updated /\ r.present = command.present
      /\ r.changes = command.changes
  BY <1>3, CommandNames DEF CommandBut
<1>5. CommandOK(r, Len(commits))
  BY <1>1, <1>3, <1>4, CommandIs DEF CommandOK, CommandBut, Phases, CommandOutcomes, Answers
<1>6. DiffOK(r, commits, work)
  <2>1. DiffOK(command, commits, work)
    BY <1>0, CommandIs
  <2>2. ShowOK(r, commits) /\ CurrentOK(r) /\ UpdatedOK(r, commits, work) /\ PresentOK(r, work)
    BY <1>4, <2>1 DEF DiffOK, ShowOK, CurrentOK, UpdatedOK, PresentOK
  <2>3. TasksDone(r)
    BY <1>0, <1>4, <2>1 DEF DiffOK, TasksDone
  <2>4. r.outcome = AnswerOf(r)
    BY <1>2, <1>3, <1>4 DEF AnswerOf
  <2>5. QED BY <1>0, <1>3, <1>4, <2>2, <2>3, <2>4 DEF DiffOK
<1>7. QED BY <1>0, <1>5, <1>6, CommandMoves, ScanFinishes

\* A scan begins its checks.
LEMMA ScanJoins ==
    ASSUME CommandInv, ~IsDiff, In("collect"), NEW chosen, JoinedScan(chosen)
    PROVE  CommandInv'
<1> DEFINE r == [command EXCEPT !.phase = "checks"]
<1>0. command.phase = "collect" /\ Becomes(r) /\ UNCHANGED scenario
  BY DEF In, JoinedScan
<1>1. CommandBut(command, r, {"phase"}) /\ r.phase = "checks"
  BY CommandIs, CommandNames DEF CommandBut
<1> HIDE DEF r
<1>2. /\ r.base = command.base /\ r.next = command.next /\ r.show = command.show
      /\ r.current = command.current /\ r.updated = command.updated /\ r.present = command.present
      /\ r.outcome = command.outcome
  BY <1>1, CommandNames DEF CommandBut
<1>3. CommandOK(r, Len(commits))
  BY <1>0, <1>1, <1>2, CommandIs DEF CommandOK, CommandBut, Phases
<1>4. QED BY <1>0, <1>3, CommandMoves

LEMMA CommandStepIsOK ==
    ASSUME CheckInv, ScanInv, CommandInv, CommandStep
    PROVE  CommandInv'
<1>0. scenario \in Scenarios
  BY DEF CheckInv, LocalInv
<1>1. CASE Begin \/ FindRoot
  BY <1>0, <1>1, BeginIsOK
<1>2. CASE PinBase \/ Show \/ FindManifest \/ ReadManifest \/ ListUpdates
  BY <1>2, PinBaseIsOK, ShowIsOK, ManifestIsOK, ListUpdatesIsOK
<1>3. CASE Joined
  <2>1. In("collect")
    BY <1>3, JoinedCases
  <2>2. CASE FinishScan("cancelled") \/ FinishScan("failed")
    BY <2>2, ScanFinishes
  <2>3. CASE /\ IsDiff /\ States \cap {"pending", "found", "cancelled", "failed"} = {}
             /\ Goes([command EXCEPT !.phase = "locks",
                                     !.changes = Changes(command.show.value, command.current.value)])
    BY <1>0, <2>1, <2>3, CommandStepsApart, DiffJoins
  <2>4. CASE ~IsDiff /\ \E chosen \in SUBSET Active : JoinedScan(chosen)
    BY <2>1, <2>4, ScanJoins
  <2>5. QED BY <1>3, <2>2, <2>3, <2>4, JoinedCases
<1>4. CASE LookForLock \/ Answer
  <2>1. command.phase = "locks"
    BY <1>4 DEF LookForLock, Answer, In
  <2>2. ~IsScan
    BY <2>1 DEF ScanInv, Beginning
  <2>3. QED BY <1>4, <2>2, LookIsOK, AnswerIsOK
<1>5. QED BY <1>1, <1>2, <1>3, <1>4 DEF CommandStep

\* What the user does: a working tree, commits and a ref of the right kind, and
\* nothing that the command relies on has changed.
Kept ==
    /\ commits' \in Seq(Contents) /\ ref' \in DOMAIN commits' /\ work' \in WorkTrees
    /\ Len(commits) <= Len(commits') /\ \A n \in DOMAIN commits : commits'[n] = commits[n]
    /\ work.touched \subseteq work'.touched
    /\ \A l \in LockNames \ work'.touched :
          work'.lock[l] = work.lock[l] /\ (l \in work'.index <=> l \in work.index)

\* What the user works with.
LEMMA ProjectIs ==
    ASSUME scenario \in Scenarios
    PROVE  /\ scenario.project.manifests \subseteq Manifests
           /\ scenario.project.contents \subseteq LockContents
           /\ scenario.project.stages \subseteq LockNames
           /\ IsProject(scenario.project)
BY ProjectAssumption DEF IsProject

\* Edits touch the manifest, which is read once, or mark the lockfile as touched,
\* and so does what is staged;
LEMMA EditsKeep ==
    ASSUME CommandInv, scenario \in Scenarios, EditManifest \/ EditLock \/ EditIndex
    PROVE  Kept
<1>0. UNCHANGED <<ref, commits>> /\ work \in WorkTrees
  BY CommandIs DEF EditManifest, EditLock, EditIndex
<1>1. CASE EditManifest
  <2>1. PICK m \in Manifests : work' = [work EXCEPT !.manifest = m]
    BY <1>1, ProjectIs DEF EditManifest
  <2>2. work' \in WorkTrees /\ work'.touched = work.touched /\ work'.index = work.index
        /\ work'.lock = work.lock
    BY <1>0, <2>1 DEF WorkTrees
  <2>3. QED BY <1>0, <2>2, CommandIs DEF Kept
<1>2. CASE EditLock
  <2>1. PICK l \in LockNames, x \in LockContents :
           work' = [work EXCEPT !.lock[l] = x, !.touched = @ \cup {l}]
    BY <1>2, ProjectIs DEF EditLock
  <2>2. /\ work' \in WorkTrees /\ work'.touched = work.touched \cup {l} /\ work'.index = work.index
        /\ \A k \in LockNames \ {l} : work'.lock[k] = work.lock[k]
    BY <1>0, <2>1 DEF WorkTrees
  <2>3. QED BY <1>0, <2>2, CommandIs DEF Kept
<1>3. CASE EditIndex
  <2>1. PICK l \in LockNames :
           work' = [work EXCEPT !.index = IF l \in @ THEN @ \ {l} ELSE @ \cup {l},
                                !.touched = @ \cup {l}]
    BY <1>3, ProjectIs DEF EditIndex
  <2>2. /\ work' \in WorkTrees /\ work'.touched = work.touched \cup {l} /\ work'.lock = work.lock
        /\ \A k \in LockNames \ {l} : k \in work'.index <=> k \in work.index
    BY <1>0, <2>1 DEF WorkTrees
  <2>3. QED BY <1>0, <2>2, CommandIs DEF Kept
<1>4. QED BY <1>1, <1>2, <1>3

\* a commit comes after those there are;
LEMMA CommitKeeps ==
    ASSUME CommandInv, Commit
    PROVE  Kept
<1> DEFINE b == [manifest |-> work.manifest,
                 lock |-> [l \in LockNames |-> IF l \in work.index THEN work.lock[l] ELSE "none"]]
<1>1. b \in Contents
  <2> DEFINE f == [l \in LockNames |-> IF l \in work.index THEN work.lock[l] ELSE "none"]
  <2>1. work.manifest \in Manifests /\ work.lock \in [LockNames -> LockContents]
    BY CommandIs DEF WorkTrees
  <2>2. f \in [LockNames -> LockContents]
    BY <2>1 DEF LockContents
  <2>3. b = [manifest |-> work.manifest, lock |-> f]
    OBVIOUS
  <2> HIDE DEF f, b
  <2>4. QED BY <2>1, <2>2, <2>3 DEF Contents
<1>2. commits' = Append(commits, b) /\ ref' = Len(commits) + 1 /\ UNCHANGED work
  BY DEF Commit
<1> HIDE DEF b
<1>3. commits' \in Seq(Contents) /\ Len(commits') = Len(commits) + 1
      /\ \A n \in 1..Len(commits) : commits'[n] = commits[n]
  BY <1>1, <1>2, CommandIs
<1>4. ref' \in DOMAIN commits' /\ Len(commits) <= Len(commits')
  BY <1>2, <1>3, CommandIs
<1>5. QED BY <1>2, <1>3, <1>4, CommandIs DEF Kept

\* and the ref is not asked again.
LEMMA MoveKeeps ==
    ASSUME CommandInv, MoveRef \/ AbandonDiff
    PROVE  Kept
<1>1. ref' \in DOMAIN commits /\ UNCHANGED <<commits, work>>
  BY CommandIs DEF MoveRef, AbandonDiff, project
<1>2. QED BY <1>1, CommandIs DEF Kept

LEMMA UserIsOK ==
    ASSUME CommandInv, scenario \in Scenarios, UserStep
    PROVE  CommandInv'
<1>1. Kept
  BY EditsKeep, CommitKeeps, MoveKeeps DEF UserStep
<1>2. UNCHANGED scenario /\ edits' \in Nat
  <2>1. edits \in Nat
    BY DEF CommandInv, ProjectInv
  <2>2. (edits > 0 /\ edits' = edits - 1) \/ UNCHANGED edits
    BY DEF UserStep, EditManifest, EditLock, EditIndex, Commit, MoveRef, AbandonDiff, Acts, project
  <2>3. UNCHANGED scenario
    BY DEF UserStep, EditManifest, EditLock, EditIndex, Commit, MoveRef, AbandonDiff, Acts, vars
  <2>4. QED BY <2>1, <2>2, <2>3
<1>3. CommandBut(command, command', {"stopped"})
  <2>1. UNCHANGED command \/ command' = [command EXCEPT !.stopped = TRUE]
    BY DEF UserStep, EditManifest, EditLock, EditIndex, Commit, MoveRef, AbandonDiff, Acts
  <2>2. QED BY <2>1, CommandIs, CommandNames DEF CommandBut
<1>4. ProjectInv'
  BY <1>1, <1>2 DEF Kept, ProjectInv
<1>5. CommandOK(command', Len(commits'))
  <2>1. Len(commits') \in Nat /\ Len(commits) <= Len(commits') /\ Len(commits) \in Nat
    BY <1>1, CommandIs DEF Kept
  <2>2. command.base \in 0..Len(commits')
    BY <2>1, CommandIs DEF CommandOK
  <2>3. QED BY <1>3, <2>2, CommandIs, CommandNames DEF CommandOK, CommandBut
<1>6. ASSUME IsDiff PROVE DiffOK(command', commits', work')
  <2>1. DiffOK(command, commits, work)
    BY <1>6, CommandIs
  <2>2. command.next \in Nat /\ command.next - 1 <= Len(Locks)
    BY CommandIs, ProjectAssumption DEF CommandOK
  <2>3. DOMAIN commits \subseteq DOMAIN commits'
    BY <1>1, CommandIs DEF Kept
  <2>4. QED BY <1>1, <1>3, <2>1, <2>2, <2>3, WorldKeepsDiff DEF Kept
<1>7. QED BY <1>2, <1>4, <1>5, <1>6 DEF CommandInv, DiffInv, IsDiff

LEMMA CommandRests ==
    ASSUME CommandInv, UNCHANGED <<project, command, scenario>>
    PROVE  CommandInv'
BY DEF CommandInv, ProjectInv, DiffInv, project, IsDiff

LEMMA CommandInvInit ==
    ASSUME DependencyInit, scenario \in Scenarios
    PROVE  CommandInv
<1>1. /\ commits = scenario.project.commits /\ ref = Len(commits)
      /\ work = scenario.project.work /\ edits = scenario.project.edits
  BY DEF DependencyInit
<1>2. ProjectInv
  <2>1. commits \in Seq(Contents) /\ commits # <<>> /\ work \in WorkTrees /\ edits \in Nat
    BY <1>1, ProjectIs DEF IsProject
  <2>2. QED BY <1>1, <2>1 DEF ProjectInv
<1>3. command = NoCommand
  BY DEF DependencyInit
<1>4. /\ DOMAIN command = CommandFields /\ command.phase = "start" /\ command.base = 0
      /\ command.show = Idle /\ command.current = Idle /\ command.updated = Idle
      /\ command.next = 1 /\ command.present = {} /\ command.outcome = "none"
  BY <1>3, CommandNames DEF NoCommand
<1>5. IsTask(Idle) /\ Idle.state = "pending"
  BY DEF Idle, IsTask, TaskStates
<1>6. CommandOK(command, Len(commits))
  <2>1. Len(commits) \in Nat /\ Len(Locks) \in Nat
    BY <1>2, ProjectAssumption DEF ProjectInv
  <2>2. QED BY <1>4, <1>5, <2>1 DEF CommandOK, Phases, CommandOutcomes
<1>7. DiffOK(command, commits, work)
  BY <1>4, <1>5 DEF DiffOK, ShowOK, CurrentOK, UpdatedOK, PresentOK, Answers
<1>8. QED BY <1>2, <1>6, <1>7 DEF CommandInv, DiffInv

LEMMA CommandInvStep ==
    ASSUME CheckInv, ScanInv, CommandInv, [DependencyNext]_allVars
    PROVE  CommandInv'
<1>0. scenario \in Scenarios
  BY DEF CheckInv, LocalInv
<1>1. CASE Next /\ UNCHANGED <<project, command>>
  BY <1>1, JobsMove, CommandRests DEF JobsChange
<1>2. CASE CommandStep
  BY <1>2, CommandStepIsOK
<1>3. CASE UserStep
  BY <1>0, <1>3, UserIsOK
<1>4. CASE UNCHANGED allVars
  BY <1>4, CommandRests DEF allVars, vars
<1>5. QED BY <1>1, <1>2, <1>3, <1>4 DEF DependencyNext, UserStep

-----------------------------------------------------------------------------
(* A scan checks what its manifest names.                                  *)

Begun == {c \in Active : job[c].phase # "idle"}
CoverInv ==
    IsScan /\ command.phase = "checks" /\ Alive => Cardinality(Begun) = Cardinality(command.current.value)

\* Only the join of a scan begins checks.
LEMMA ChecksFollowJoin ==
    ASSUME ScanInv, CommandStep, command'.phase = "checks"
    PROVE  /\ In("collect") /\ ~IsDiff
           /\ \E chosen \in SUBSET Active :
                 Cardinality(chosen) = Cardinality(command.current.value) /\ JoinedScan(chosen)
<1>0. DOMAIN command = CommandFields
  BY DEF ScanInv
<1>1. \A o : ~FinishScan(o)
  BY <1>0, CommandNames DEF FinishScan, Conclude, Becomes
<1>2. ~(Begin \/ FindRoot \/ PinBase)
  <2>1. \A p \in {"collect", "root", "commit"} : ~Goes([command EXCEPT !.phase = p])
    BY <1>0, CommandNames DEF Goes, Becomes
  <2>2. ~Goes([command EXCEPT !.phase = "collect", !.base = ref])
    BY <1>0, CommandNames DEF Goes, Becomes
  <2>3. QED BY <1>1, <2>1, <2>2 DEF Begin, FindRoot, PinBase, UnlessStopped
<1>3. ~(Show \/ FindManifest \/ ReadManifest \/ ListUpdates)
  <2>1. command.phase = "collect" =>
           \A t : /\ ~Goes([command EXCEPT !.show = t]) /\ ~Goes([command EXCEPT !.current = t])
                  /\ ~Goes([command EXCEPT !.updated = t])
    BY <1>0, CommandNames DEF Goes, Becomes
  <2>2. QED BY <2>1 DEF Show, FindManifest, ReadManifest, ListUpdates, In
<1>4. ~(LookForLock \/ Answer)
  <2>1. command.phase = "locks" =>
           \A n, p : ~Goes([command EXCEPT !.next = n, !.present = p])
    BY <1>0, CommandNames DEF Goes, Becomes
  <2>2. QED BY <1>1, <2>1 DEF LookForLock, Answer, In, UnlessStopped
<1>5. Joined
  BY <1>2, <1>3, <1>4 DEF CommandStep
<1>6. \A x : ~Goes([command EXCEPT !.phase = "locks", !.changes = x])
  BY <1>0, CommandNames DEF Goes, Becomes
<1>7. QED BY <1>1, <1>5, <1>6, JoinedCases

\* A check that has begun stays begun.
LEMMA NextCovers ==
    ASSUME CheckInv, CoverInv, Next, UNCHANGED command
    PROVE  CoverInv'
<1>1. JobsChange
  BY JobsMove
<1>2. UNCHANGED scenario /\ UNCHANGED <<IsScan, Active>>
  BY <1>1 DEF JobsChange, IsScan, Active
<1>3. SUFFICES ASSUME IsScan, command.phase = "checks", Alive'
               PROVE  Cardinality(Begun') = Cardinality(command.current.value)
  BY <1>2 DEF CoverInv
<1>4. \A c \in Active : job'[c].phase # "dead"
  BY <1>2, <1>3 DEF Alive
<1>5. CASE JobsDie
  <2>1. \A c \in Active : job'[c] = job[c]
    BY <1>4, <1>5 DEF JobsDie
  <2>2. Begun' = Begun
    BY <1>2, <2>1 DEF Begun
  <2>3. Alive
    BY <1>4, <2>1 DEF Alive
  <2>4. QED BY <1>3, <2>2, <2>3 DEF CoverInv
<1>6. ASSUME NEW c \in Active, CheckStep(c)
      PROVE  Cardinality(Begun') = Cardinality(command.current.value)
  <2>1. Effect(c) /\ job[c].phase \notin {"idle", "done", "dead"} /\ Active \subseteq Callers
    BY <1>6, CheckStepHasEffect, ActiveIsCaller DEF CheckInv
  <2>2. \A d \in Active \ {c} : job'[d] = job[d]
    BY <2>1 DEF Effect
  <2>3. job'[c].phase # "idle" /\ job[c].phase # "idle" /\ job[c].phase # "dead"
    BY <2>1 DEF Effect
  <2>4. Begun' = Begun
    BY <1>2, <2>2, <2>3 DEF Begun
  <2>5. Alive
    BY <1>4, <2>2, <2>3 DEF Alive
  <2>6. QED BY <1>3, <2>4, <2>5 DEF CoverInv
<1>7. QED BY <1>1, <1>5, <1>6 DEF JobsChange

LEMMA CoverInvStep ==
    ASSUME CheckInv, ScanInv, CoverInv, [DependencyNext]_allVars
    PROVE  CoverInv'
<1>1. CASE Next /\ UNCHANGED <<project, command>>
  BY <1>1, NextCovers
<1>2. CASE CommandStep
  <2>1. SUFFICES ASSUME IsScan', command'.phase = "checks"
                 PROVE  Cardinality(Begun') = Cardinality(command'.current.value)
    BY DEF CoverInv
  <2>2. PICK chosen \in SUBSET Active :
           In("collect") /\ ~IsDiff /\ JoinedScan(chosen)
           /\ Cardinality(chosen) = Cardinality(command.current.value)
    BY <1>2, <2>1, ChecksFollowJoin
  <2>3. IsScan /\ Alive /\ command.phase \in Beginning
    BY <2>2 DEF In, Beginning
  <2>4. \A c \in Active : (job'[c].phase = "idle") = (c \notin chosen)
    BY <2>2, <2>3, ChecksBegin
  <2>5. UNCHANGED Active /\ command' = [command EXCEPT !.phase = "checks"]
    BY <2>2 DEF JoinedScan, Becomes, Active
  <2>6. Begun' = chosen
    BY <2>4, <2>5 DEF Begun
  <2>7. command'.current = command.current
    BY <2>5, CommandNames DEF ScanInv
  <2>8. QED BY <2>2, <2>6, <2>7
<1>3. CASE UserStep
  <2>1. command'.phase = command.phase /\ command.phase # "checks"
    <3>1. UNCHANGED command \/ command' = [command EXCEPT !.stopped = TRUE]
      BY <1>3 DEF UserStep, EditManifest, EditLock, EditIndex, Commit, MoveRef, AbandonDiff, Acts
    <3>2. Busy
      BY <1>3 DEF UserStep, EditManifest, EditLock, EditIndex, Commit, MoveRef, AbandonDiff, Acts
    <3>3. QED BY <3>1, <3>2, CommandNames DEF ScanInv, Busy
  <2>2. QED BY <2>1 DEF CoverInv
<1>4. CASE UNCHANGED allVars
  <2>1. UNCHANGED <<scenario, job, command>>
    BY <1>4 DEF allVars, vars
  <2>2. QED BY <2>1 DEF CoverInv, IsScan, Alive, Begun, Active
<1>5. QED BY <1>1, <1>2, <1>3, <1>4 DEF DependencyNext, UserStep

-----------------------------------------------------------------------------
(* What follows.                                                           *)

\* The types,
LEMMA TypesFollow ==
    ASSUME CheckInv, ScanInv, CommandInv
    PROVE  DependencyTypeOK
<1>0. LocalInv /\ EntryInv /\ HttpInv /\ clock \in 0..MaxClock
  BY DEF CheckInv
<1>1. ASSUME NEW c \in Active
      PROVE  /\ JobType(job[c])
             /\ temp[c] = None \/ IsRecord(temp[c])
             /\ handle[c] = None \/ IsRecord(handle[c])
  BY <1>0, <1>1, Here DEF TempOK, HandleOK
<1>2. \A c \in Active : IsEntry(temp[c]) /\ IsEntry(handle[c])
  BY <1>1 DEF IsRecord, IsEntry
<1>3. \A k \in Keys : IsEntry(entry[k])
  BY <1>0 DEF EntryInv, EntryOK, IsRecord, IsEntry
<1>4. TypeOK
  <2>1. HttpTypeOK
    BY <1>0 DEF HttpInv
  <2>2. scan \in {"inventory", "none", "cancelled", "failed"} \cup Verdicts
    BY DEF ScanInv
  <2>3. \A c \in Active :
          /\ job[c].phase \in JobPhases /\ job[c].at \in {"npm", "osv"}
          /\ job[c].page \in 1..MaxPages
          /\ Cardinality(job[c].records) <= MaxRecords
          /\ {job[c].npmFrom, job[c].osvFrom} \subseteq {"none", "live", "cache"}
          /\ {job[c].policy, job[c].approvals} \subseteq {"given", "default", "file", "invalid"}
          /\ job[c].cache \in {"none", "writable", "unwritable", "unsafe"}
          /\ job[c].outcome \in Outcomes
          /\ (job[c].phase = "done") = (job[c].outcome # "none")
    BY <1>1 DEF JobType
  <2>4. QED BY <1>0, <1>2, <1>3, <2>1, <2>2, <2>3 DEF TypeOK
<1>5. ref \in DOMAIN commits /\ edits \in Nat /\ work.touched \subseteq LockNames
      /\ work.index \subseteq LockNames
  BY DEF CommandInv, ProjectInv, WorkTrees
<1>6. CommandOK(command, Len(commits))
  BY DEF CommandInv
<1>7. {command.show.state, command.current.state, command.updated.state} \subseteq TaskStates
  BY <1>6 DEF CommandOK, IsTask
<1>8. QED BY <1>4, <1>5, <1>6, <1>7 DEF DependencyTypeOK, CommandOK, Phases, CommandOutcomes

\* the scan,
LEMMA ScanCoverFollows ==
    ASSUME CheckInv, ScanInv, CoverInv
    PROVE  ScanCoversTheManifest
<1>0. LocalInv
  BY DEF CheckInv
<1>1. SUFFICES ASSUME IsScan, Admits(scan)
               PROVE  Cardinality({c \in Active : Admitted(c)}) = Cardinality(command.current.value)
  BY DEF ScanCoversTheManifest
<1>2. scan \in Verdicts /\ scan \notin {"inventory", "none", "cancelled", "failed"}
  BY <1>1, ScanWords
<1>3. command.phase = "checks"
  BY <1>1, <1>2 DEF ScanInv
<1>4. \A c \in Active : job[c].phase \in {"idle", "done"} /\ (job[c].phase = "idle" \/ Admits(job[c].outcome))
  BY <1>1, <1>2 DEF ScanInv
<1>5. ASSUME NEW c \in Active, job[c].phase = "idle" PROVE ~Admitted(c)
  <2>1. job[c].outcome = "none"
    BY <1>0, <1>5, Here DEF JobType
  <2>2. QED BY <2>1, ScanWords DEF Admitted
<1>6. {c \in Active : Admitted(c)} = Begun
  BY <1>4, <1>5 DEF Begun, Admitted
<1>7. Alive
  BY <1>4 DEF Alive
<1>8. QED BY <1>1, <1>3, <1>6, <1>7 DEF CoverInv

\* and the diff.
LEMMA DiffFollows ==
    ASSUME CommandInv
    PROVE  DiffBindsItsBase
<1> DEFINE base == commits[command.base].manifest.items
           current == command.current.value
<1>0. SUFFICES ASSUME IsDiff, command.outcome \in Answers
               PROVE  /\ ReportsTheChanges(base, current)
                      /\ command.outcome = "allow" /\ command.changes # {}
                           => \E l \in LockNames : l \in work.touched \/ LockedBy(l)
                      /\ command.outcome = "review"
                           => command.changes # {} /\ \A l \in LockNames : LockedBy(l) => l \in work.touched
  BY DEF DiffBindsItsBase, Answers
<1>1. DiffOK(command, commits, work)
  BY <1>0, CommandIs
<1>2. TasksDone(command) /\ command.next > Len(Locks) /\ command.outcome = AnswerOf(command)
  BY <1>0, <1>1 DEF DiffOK
<1>3. command.base \in DOMAIN commits /\ command.show.value = base
  BY <1>1, <1>2 DEF DiffOK, ShowOK, TasksDone
<1>4. current \in SUBSET Items
  BY <1>1, <1>2 DEF DiffOK, CurrentOK, TasksDone
<1>5. base \in SUBSET Items /\ \A x, y \in base : x.name = y.name /\ x.section = y.section => x = y
  <2>1. commits[command.base] \in Contents
    BY <1>3, CommandIs
  <2>2. commits[command.base].manifest \in Manifests
    BY <2>1 DEF Contents
  <2>3. QED BY <2>2 DEF Manifests, Items
<1>6. command.changes = Changes(base, current)
  BY <1>2, <1>3 DEF TasksDone
<1>7. ReportsTheChanges(base, current)
  <2> HIDE DEF base, current
  <2>1. {c.item : c \in command.changes} = current \ base
    BY <1>4, <1>5, <1>6, ChangesAreTheDifference
  <2>2. ASSUME NEW c \in command.changes
        PROVE  LET named == {b \in base : b.name = c.item.name}
               IN /\ (c.kind = "added") = (named = {})
                  /\ c.kind = "section_changed" =>
                       /\ \E b \in named : b.spec = c.item.spec
                       /\ \A b \in named : b.section # c.item.section
    BY <1>4, <1>5, <1>6, ChangesAreTheDifference
  <2>3. QED BY <2>1, <2>2 DEF ReportsTheChanges
<1>8. command.updated.value \subseteq LockNames
      /\ \A l \in LockNames \ work.touched : l \in command.updated.value <=> Differs(l, Base, work)
  BY <1>1, <1>2 DEF DiffOK, UpdatedOK, TasksDone, Base
<1>9. ASSUME NEW l \in LockNames \ work.touched
      PROVE  l \in command.present <=> Regular(work.lock[l])
  <2>1. PICK i \in 1..Len(Locks) : l = Locks[i]
    BY <1>9, ProjectAssumption DEF LockNames, ToSet
  <2>2. i \in 1..(command.next - 1)
    BY <1>2, CommandIs, ProjectAssumption DEF CommandOK
  <2>3. QED BY <1>1, <1>9, <2>1, <2>2 DEF DiffOK, PresentOK
<1>10. \A l \in LockNames \ work.touched :
          LockedBy(l) <=> l \in command.updated.value /\ l \in command.present
  BY <1>8, <1>9 DEF LockedBy
<1>11. ASSUME command.outcome = "allow", command.changes # {}
       PROVE  \E l \in LockNames : l \in work.touched \/ LockedBy(l)
  <2>1. command.updated.value \cap command.present # {}
    BY <1>2, <1>11 DEF AnswerOf
  <2>2. PICK l \in LockNames : l \in command.updated.value /\ l \in command.present
    BY <1>8, <2>1
  <2>3. QED BY <1>10, <2>2
<1>12. ASSUME command.outcome = "review"
       PROVE  command.changes # {} /\ \A l \in LockNames : LockedBy(l) => l \in work.touched
  <2>1. command.changes # {} /\ command.updated.value \cap command.present = {}
    BY <1>2, <1>12 DEF AnswerOf
  <2>2. QED BY <1>10, <2>1
<1>13. QED BY <1>7, <1>11, <1>12

\* A diff and a scan keep, beside what their checks keep, what their tasks have
\* read of the pinned commit and of a working tree that is edited meanwhile.
THEOREM CommandIsInductive == DependencySpec => [](CommandInv /\ CoverInv)
<1>1. DependencyInit => CommandInv /\ CoverInv
  <2>1. ASSUME DependencyInit PROVE CommandInv
    BY <2>1, CommandInvInit, ScanInvInit DEF CheckInv, LocalInv
  <2>2. ASSUME DependencyInit PROVE CoverInv
    BY <2>2 DEF DependencyInit, NoCommand, CoverInv
  <2>3. QED BY <2>1, <2>2
<1>2. CheckInv /\ ScanInv /\ CommandInv /\ CoverInv /\ [DependencyNext]_allVars => CommandInv' /\ CoverInv'
  BY CommandInvStep, CoverInvStep
<1>3. QED BY <1>1, <1>2, ScanIsInductive, PTL DEF DependencySpec

\* Types, of the checks, of the command and of the project.
THEOREM TypeCorrect == DependencySpec => []DependencyTypeOK
<1>1. CheckInv /\ ScanInv /\ CommandInv => DependencyTypeOK
  BY TypesFollow
<1>2. QED BY <1>1, ScanIsInductive, CommandIsInductive, PTL

\* Whatever is edited, staged, committed and renamed meanwhile, and in whatever
\* order the tasks finish: a diff reports the difference of the manifest it read
\* from one commit, allows it only by a lockfile that is there and that git tells
\* from that same commit (one that was taken out of the index, unchanged, is
\* among them), and a scan that admits has admitted as many items as its
\* manifest names.
THEOREM ReportsAreBound == DependencySpec => []ReportsBindTheirProject
<1>1. CheckInv /\ ScanInv /\ CommandInv /\ CoverInv => ReportsBindTheirProject
  BY DiffFollows, ScanCoverFollows DEF ReportsBindTheirProject
<1>2. QED BY <1>1, ScanIsInductive, CommandIsInductive, PTL
=============================================================================
