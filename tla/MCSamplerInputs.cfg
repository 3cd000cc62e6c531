\* One request goroutine after another, every kind of input and configuration.
CONSTANTS
    Token = 2
    MaxDuration = 7
    MaxSampleRate = 3
    NoToken = NoToken
    UpdateArgs <- MCAllArgs
    LocalConfigs <- MCLocalConfigs
    StartTime = 20
    MaxTime = 22
    MaxGen = 1
    Requests = {r1}
    Parents <- MCAllParents
    Options <- MCAllOptions
    SignKeys = {"k1", "k2"}
SPECIFICATION Spec
INVARIANTS
    NewTracesPay
    ResponseTruthful
    LocalConfigHonoured
