CONSTANTS
    Handles = {h1, h2}
    Grants = {"g1"}
    Keys = {"k1"}
    LeaseIds = {"l1"}
    Ops = {"o1", "o2", "o3"}
    Digests = {"d1"}
    RestartDigest = "restart"
    RevokeDigest = "revoked"
    None = None
    MaxUses = 2
    MaxConcurrent = 1
    NotBefore = 1
    ExpiresAt = 2
    MaxTime = 2
    MaxGeneration = 2
    MaxStateSize = 99
    Scenarios = {"unread"}
SPECIFICATION MCSpec
INVARIANT ChainIsUnbroken
