CONSTANTS
    Txns = {"t1"}
    Early = {}
    Last = {"env"}
    Nested = {}
    Secrets = {"s1"}
    Deletes = {}
    Copies = {}
    Source = "source"
    None = None
    Faults = {"file", "rollback"}
    Crashes = FALSE
    MaxEdits = 0
    Scenarios = {"commit"}
SPECIFICATION MCSpec
INVARIANT NoValueLost
