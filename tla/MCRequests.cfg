CONSTANTS
    Headers <- MCHeaders
    CustomKeys = {"custom-a", "custom-b"}
    Tokens = {k1, k2}
    Now = 1000
    BadNumber = BadNumber
    NoKey = NoKey
    NoSig = NoSig
    Inputs <- MCInputs
    MaxName = 5
    Requests = {r1, r2}
    Urls <- MCUrls
    EmptyUrl <- MCEmptyUrl
    Configs <- MCConfigs
    Nil = Nil
SPECIFICATION Spec
INVARIANTS
    ParseMeetsHeader
    ValidIsFresh
    NameIsBounded
PROPERTY
    Transparent
CHECK_DEADLOCK FALSE
