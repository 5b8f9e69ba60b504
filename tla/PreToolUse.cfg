SPECIFICATION FairSpec
CONSTANTS
    p1 = "lodash"
    p2 = "zod"
    p3 = "semver@^7"
    Packages = {"lodash", "zod", "semver@^7"}
    Ranged = {"semver@^7"}
    MaxOperands = 3
    Commands <- Samples
    Concurrency = 2
    Causes = {"deadline", "cancelled"}
    NoReport = NoReport
CHECK_DEADLOCK FALSE
INVARIANTS
    TypeOK
    RecognizedOnlyWhenAllowed
    AbortNeverAdmits
    ReportsFollowOperands
    VerdictIsExpressible
    NoWorkOutlivesAnswer
PROPERTIES
    NoEvaluationAfterFailure
    HookAnswers
