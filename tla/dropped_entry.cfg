SPECIFICATION Spec
CONSTANTS
  Pid = {p1}
  MaxBirths = 1
  MaxSuspend = 2
  MaxRecords = 2
  MaxTracked = 2
  MaxAttempts = 2
  MaxGuards = 2
  Faults = {"scan", "resume"}
INVARIANTS Recoverable
CHECK_DEADLOCK FALSE
