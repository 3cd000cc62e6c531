\* Two request goroutines, two calls, any number of flushes.
CONSTANTS
    Requests = {r1, r2}
    MaxCalls = 2
SPECIFICATION FairSpec
INVARIANTS
    Ledger
PROPERTIES
    NothingLost
    AllReported
