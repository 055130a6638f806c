\* Three sessions of either dialect compete for two permits.
CONSTANTS
    s1 = s1
    s2 = s2
    s3 = s3
    Sessions <- MCSessionSet
    MaxConnections = 2
SPECIFICATION FairSpec
INVARIANTS
    NothingLeaks
    ContactOrder
    LegsAgree
PROPERTIES
    ImplementsPool
    HandshakesEnd
CHECK_DEADLOCK FALSE
