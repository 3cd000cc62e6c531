\* A trace through up to four services of three kinds.
CONSTANTS
    Token = 1
    MaxDuration = 1
    MaxSampleRate = 2
    NoToken = NoToken
    MaxMembers = 3
    Vendors = {"v1", "v2", "v3"}
    Policies <- MCPolicies
    NoPolicy = NoPolicy
    MaxHops = 4
SPECIFICATION Spec
INVARIANTS
    DecisionFollowsUpstream
    ResponseIsOwn
    VendorsSurvive
