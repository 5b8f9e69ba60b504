SPECIFICATION Spec
CONSTANTS
    c1 = c1
    c2 = c2
    c3 = c3
    Commands = {c1, c2}
    Inodes = {i1, i2, i3, i4}
    NoInode = NoInode
    Nobody = Nobody
    Kind <- KindIR
    FaultSteps <- FaultsBeforeChange
    Crashers = {c1, c2}
    EnvKinds = {"create"}
    EnvNames = {"receipt", "hook", "config", "lock"}
    MaxEnv = 1
CHECK_DEADLOCK FALSE
SYMMETRY InodeSymmetry
INVARIANTS
    TypeOK
    RefusalChangesNothing
PROPERTIES
    NoForeignLoss
