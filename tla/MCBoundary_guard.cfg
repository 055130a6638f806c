\* Every configuration and both families of callers; the drain may begin anywhere.
SPECIFICATION Spec
CONSTANTS
    Configs <- MCConfigs
    Callers <- MCCallers
INVARIANTS
    EchoFollowsVerdict
    HandlerIsGuarded
CHECK_DEADLOCK FALSE
