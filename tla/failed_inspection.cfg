SPECIFICATION FairSpec
CONSTANTS
  Pid = {p1}
  MaxBirths = 1
  MaxSuspend = 2
  MaxRecords = 2
  MaxTracked = 2
  MaxAttempts = 2
  MaxGuards = 2
  Faults = {"inspect"}
PROPERTIES CrashIsRecovered
CHECK_DEADLOCK FALSE
