SPECIFICATION Spec
CONSTANTS
    i1 = i1
    i2 = i2
    r1 = r1
    r2 = r2
    Commands = {i1, i2, r1, r2}
    Nobody = Nobody
    Kind <- Kinds
    Scenarios <- Races
    FaultSteps <- FaultsBeforeCommit
    EnvNames = {"receipt", "hook", "lock"}
    EnvEdits = {"hook"}
CHECK_DEADLOCK FALSE
INVARIANTS
    TypeOK
    HookKeepsRecord
    RefusalLeavesNothing
    LeftoversStayDiscoverable
    CommitOutlivesCancellation
PROPERTIES
    ForeignFilesStay
    ImplementsLifecycle
    EveryCommandReports
