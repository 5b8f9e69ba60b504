SPECIFICATION FairSpec
CONSTANTS
    c1 = c1
    c2 = c2
    c3 = c3
    Commands = {c1, c2}
    Inodes = {i1, i2, i3}
    NoInode = NoInode
    Nobody = Nobody
    Kind <- KindIR
    FaultSteps <- SomeFaults
    Crashers = {c1}
    EnvKinds = {"delete"}
    EnvNames = {"lock"}
    MaxEnv = 1
CHECK_DEADLOCK FALSE
PROPERTIES
    EveryCommandReports
    LockIsReleased
