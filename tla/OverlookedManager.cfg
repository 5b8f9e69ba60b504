SPECIFICATION Spec
CONSTANTS
    p1 = "lodash"
    p2 = "zod"
    p3 = "semver@^7"
    Packages = {"lodash", "zod", "semver@^7"}
    Ranged = {"semver@^7"}
    MaxOperands = 3
    Commands <- Direct
    Concurrency = 2
    Causes = {"deadline", "cancelled"}
    NoReport = NoReport
CHECK_DEADLOCK FALSE
INVARIANT NeutralOnlyWhenAllowed
