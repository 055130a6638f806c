\* Every upstream and every family of requests, with bodies of at most three fields.
SPECIFICATION Spec
CONSTANTS
    Upstreams <- MCUpstreams
    Requests <- MCRequests
    Bodies <- MCBodies
INVARIANTS
    NoUnreachableArm
    SpeaksOneDialect
    ZeroContactIfAmbiguous
    CredentialFits
    UnsupportedIsExact
    RegisteredIsServed
    OneReading
CHECK_DEADLOCK FALSE
