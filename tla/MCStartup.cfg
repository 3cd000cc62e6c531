CONSTANTS
    Files <- MCFiles
    Envs <- MCEnvs
    Options <- MCOptions
    Nil = Nil
    Unparsable = Unparsable
    Worlds <- MCWorlds
    KeyName = "key"
    MaxStarts = 3
    Proxies <- MCProxies
    MaxDials = 3
    MaxSent = 3
SPECIFICATION Spec
INVARIANTS
    LoadedIsValid
    FlagsTruthful
    
    IdentityIsStable
    ConflictIsNotFatal
    TunnelIsLossless
CHECK_DEADLOCK FALSE
