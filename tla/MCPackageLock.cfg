SPECIFICATION Spec
CONSTANTS
    Names <- MCNames
    Versions <- MCVersions
    Worlds <- MCWorlds
    Feature = "proofs"
    Yankable <- MCYankable
    Suspect <- MCSuspect
    MaxEdits = 1
    NoLock = NoLock
INVARIANTS
    LockIsBuildable
    GraphIsSound
PROPERTIES
    UnacknowledgedChangesNothing
    OnlyTheSelectedMoves
    BlockedStaysOut
CHECK_DEADLOCK FALSE
