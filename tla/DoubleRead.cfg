SPECIFICATION Spec
CONSTANTS
    old = old
    new = new
    gone = gone
    Commands = {old, new, gone}
    Kind <- Kinds
    Nobody = Nobody
    Alien = Alien
    Torn = Torn
    Scenarios <- Readings
CHECK_DEADLOCK FALSE
INVARIANTS
    TypeOK
    SnapshotHeld
    VerifiedWasInstalled
    AuthorityIsOne
