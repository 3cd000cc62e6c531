\* Two request goroutines while settings are replaced, expired and re-keyed.
CONSTANTS
    Token = 2
    MaxDuration = 7
    MaxSampleRate = 2
    NoToken = NoToken
    UpdateArgs <- MCTwoArgs
    LocalConfigs <- MCUnconfigured
    StartTime = 20
    MaxTime = 21
    MaxGen = 2
    Requests = {r1, r2}
    Parents <- MCRoots
    Options <- MCFewOptions
    SignKeys = {"k1"}
SYMMETRY MCRequestSymmetry
SPECIFICATION Spec
INVARIANTS
    TokenBudget
    DecisionNotStale
    RelaxedNeedsKey
