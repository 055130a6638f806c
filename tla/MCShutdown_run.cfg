\* A channel of two records under up to four: it fills, reorders nothing, drops.
CONSTANTS
    Relays <- MCRelays
    Requests <- MCRequests
    Depth = 2
    MaxRecords = 2
SPECIFICATION FairSpec
INVARIANTS
    TypeOK
    FileIsFaithful
    CutOnlyAfterGivingUp
PROPERTY SignalEndsProcess
CHECK_DEADLOCK FALSE
