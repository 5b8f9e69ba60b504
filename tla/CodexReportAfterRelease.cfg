SPECIFICATION Spec
CONSTANTS
    c1 = c1
    c2 = c2
    c3 = c3
    Commands = {c1, c2}
    Inodes = {i1, i2, i3, i4}
    NoInode = NoInode
    Nobody = Nobody
    Kind <- KindIR
    FaultSteps = {}
    Crashers = {}
    EnvKinds = {}
    EnvNames = {}
    MaxEnv = 0
CHECK_DEADLOCK FALSE
INVARIANTS
    CommittedInstallIsReported
