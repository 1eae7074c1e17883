CONSTANTS
    Codes = {"d1"}
    Users = {first, second}
    Client <- OneAddress
    CodeTTL = 1
    TokenTTL = 3
    MaxPending = 1
    MaxAttempts = 2
    MaxTime = 4
    MaxRepeats = 2
    MaxUnsure = 1
    None = None
    NoKey = NoKey
    Pair = {first, second}
    Scenarios = {"billing", "logins", "repeated", "one machine", "two machines", "team",
        "installs", "suspended"}
SYMMETRY PairSymmetry
SPECIFICATION MCSpec
INVARIANTS
    Converges
    LoginSafe
    ServiceSafe
    TeamSafe
PROPERTY NothingUnseenIsReplaced
