CONSTANTS
    Agents = {a1, a2}
    Waiters = {w1}
    Nil = Nil
    Timeout = 2
SPECIFICATION FairSpec
INVARIANTS
    ShutdownIsComplete
    UpIsGlobal
PROPERTIES
    WaitIsTruthful
    WaitReturns
