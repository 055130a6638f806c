\* Fewer frames than the safety run: liveness needs the whole state graph.
CONSTANTS
    FrameBytes = 2
    MaxPending = 2
    Sizes = {1, 3}
    PeerCloses <- MCPeerCloses
    MaxClient = 2
    MaxUpstream = 1
SPECIFICATION FairSpec
PROPERTIES
    NothingPinsTheRelay
    ExpiryIsNoticed
CHECK_DEADLOCK FALSE
