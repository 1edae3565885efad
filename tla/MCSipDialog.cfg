SPECIFICATION FairSpec
CONSTANTS
    MaxTimer = 1
    MaxAuth = 1
    MaxInvites = 3
    MaxPackets = 2
INVARIANTS
    TypeOK
    GoneOwnerTold
    EndedByBye
    CancelAfterAnswer
PROPERTIES
    Freed
    InviteSettles
CHECK_DEADLOCK FALSE
