SPECIFICATION FairSpec
CONSTANTS
  Procs = {p1, p2}
  p1 = p1
  p2 = p2
  NoProc = none
  NFiles = 2
  NSecrets = 1
  Dotenv <- MCDotenv
  Nested <- MCNoNested
  MaxDisturbances = 1
PROPERTIES LifecycleKept ApplyTerminates
CHECK_DEADLOCK FALSE
