SPECIFICATION Spec
CONSTANTS
    a = a
    b = b
    Commands = {a, b}
    Nobody = Nobody
    Scenarios <- Races
    FaultSteps <- Failing
    EnvNames = {"policy", "agents", "rule", "cursor", "rules", "lock"}
CHECK_DEADLOCK FALSE
INVARIANTS
    TypeOK
    SuccessStands
    LeftoversAreAccounted
PROPERTIES
    OthersWorkStays
