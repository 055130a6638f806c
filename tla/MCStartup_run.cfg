\* A process that failed to start, or whose pools are idle after the drain, has
\* no step left to take.
CHECK_DEADLOCK FALSE
SPECIFICATION Spec
CONSTANTS
    Environments <- MCEnvironments
    Defaults <- MCDefaults
    MaxUsize <- MCMaxUsize
    MaxPermits <- MCMaxPermits
    Overhead <- MCOverhead
INVARIANTS
    StartsAsConfigured
    RefusalNamesTheFault
    ReadinessIsHonest
