SPECIFICATION Spec
CONSTANTS
    c1 = c1
    c2 = c2
    c3 = c3
    Commands = {c1, c2, c3}
    Inodes = {i1, i2, i3}
    NoInode = NoInode
    Nobody = Nobody
    Kind <- KindIIR
    FaultSteps = {}
    Crashers = {c1, c2, c3}
    EnvKinds = {}
    EnvNames = {}
    MaxEnv = 0
CHECK_DEADLOCK FALSE
SYMMETRY RaceSymmetry
INVARIANTS
    LockExclusion
    HookHasRecord
PROPERTIES
    CrashFreezes
    ImplementsLifecycle
