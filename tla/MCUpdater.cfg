CONSTANTS
    UpdateInterval = 2
    TtlCheckInterval = 1
    HttpTimeout = 1
    Ttls <- MCTtls
    Fetchers = {f1, f2}
SPECIFICATION FairSpec
INVARIANTS
    SemaphoresConserved
    FreshWhileRunning
PROPERTIES
    SeenFromOutside
    SettingsReturn
    NeverLostWhenHealthy
