SPECIFICATION Spec
CONSTANTS
  Procs = {p1}
  p1 = p1
  NoProc = none
  NFiles = 3
  NSecrets = 2
  Dotenv <- MCDotenv
  Nested <- MCNested
  MaxDisturbances = 3
INVARIANT SecretNeverLost
INVARIANT AppliedIsApplied
INVARIANT RolledBackIsClean
INVARIANT EffectsAccountedFor
PROPERTIES EditsPreserved OverwriteJournaled
CHECK_DEADLOCK FALSE
