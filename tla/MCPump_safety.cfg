\* Both entry points, two data frames each way beyond the pre-open queue limits.
CONSTANTS
    FrameBytes = 2
    MaxPending = 2
    Sizes = {1, 2, 3}
    PeerCloses <- MCPeerCloses
    MaxClient = 3
    MaxUpstream = 2
SPECIFICATION Spec
INVARIANTS
    Lossless
    BoundedRetention
    NoPeerAbandoned
    LogLeadsWire
PROPERTY ImplementsContract
CHECK_DEADLOCK FALSE
