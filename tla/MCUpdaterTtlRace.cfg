\* The TTL check against an update that arrives at the same time.
CONSTANTS
    UpdateInterval = 2
    TtlCheckInterval = 1
    HttpTimeout = 1
    Ttls <- MCTtls
    Fetchers = {f1, f2}
SPECIFICATION FairSpec
PROPERTY
    OnlyExpiredDeleted
