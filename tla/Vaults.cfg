CONSTANTS
    Txns = {"t1", "t2"}
    Early = {"config"}
    Last = {"env"}
    Nested = {"config"}
    Secrets = {"s1", "s2"}
    Deletes = {"s2"}
    Copies = {}
    Source = "source"
    None = None
    Faults = {"file", "vault"}
    Crashes = TRUE
    MaxEdits = 0
    Scenarios = {"commit", "rollback", "copy", "calls", "legacy", "switch", "resume", "pairs", "guards",
        "effects", "review", "encrypted", "plaintext", "reordered"}
SPECIFICATION MCSpec
INVARIANTS
    NoValueLost
    OutcomesAreTrue
    BackendSafe
    LockSafe
PROPERTIES
    ActsOnWhatWasRead
    MigrationSafe
