\* The README's promise about the idle timeout.
CONSTANTS
    FrameBytes = 2
    MaxPending = 2
    Sizes = {1}
    PeerCloses <- MCPeerCloses
    MaxClient = 2
    MaxUpstream = 1
SPECIFICATION Spec
INVARIANT IdleExpiryClosesIdle
CHECK_DEADLOCK FALSE
