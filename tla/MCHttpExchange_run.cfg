\* Two exchanges, one permit; progress with and without the upstream timeout.
CONSTANTS
    r1 = r1
    r2 = r2
    Requests <- MCPair
    MaxActive = 1
    Parses = TRUE
SPECIFICATION FairSpec
INVARIANTS
    PermitsAccounted
    TerminalTellsTheTruth
PROPERTIES
    FirstTerminalStands
    ImplementsPool
    ExchangesEnd
CHECK_DEADLOCK FALSE
