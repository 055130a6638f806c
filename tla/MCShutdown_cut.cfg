\* What the drain flag's comment promises to calls in flight.
CONSTANTS
    Relays <- MCRelays
    Requests <- MCRequests
    Depth = 1
    MaxRecords = 1
SPECIFICATION Spec
INVARIANT InFlightCallsSurvive
CHECK_DEADLOCK FALSE
