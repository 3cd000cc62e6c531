\* StartTime exceeds MaxDuration, so the first Sub saturates as it does in the code.
CONSTANTS
    Token = 2
    MaxDuration = 7
    Rates <- MCRates
    Capacities <- MCCapacities
    StartTime = 20
    MaxTime = 26
SPECIFICATION Spec
INVARIANTS
    WindowBound
    NoStarvation
