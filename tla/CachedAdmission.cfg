SPECIFICATION DependencySpec
CONSTANTS
    a = a
    b = b
    Callers = {a, b}
    MaxRetries = 1
    MaxRedirects = 1
    Absent = Absent
    None = None
    MaxPages = 2
    MaxRecords = 2
    Locks <- LockfileNames
    MaxDependencies = 3
    Defaults <- Default
    Ttl <- TtlOf
    MaxClock = 3
    Scenarios <- Checks
CHECK_DEADLOCK FALSE
INVARIANT CachedIsNeverAdmitted
