SPECIFICATION Spec
CONSTANTS
  Procs = {p1, p2}
  p1 = p1
  p2 = p2
  NoProc = none
  NFiles = 2
  NSecrets = 1
  Dotenv <- MCDotenv
  Nested <- MCNoNested
  MaxDisturbances = 0
INVARIANT AppliedIsApplied
CHECK_DEADLOCK FALSE
