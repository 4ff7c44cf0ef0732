SPECIFICATION Spec
CONSTANTS
  Pid = {p1, p2}
  MaxBirths = 1
  MaxSuspend = 2
  MaxRecords = 2
  MaxTracked = 2
  MaxAttempts = 2
  MaxGuards = 2
  Faults = {"overlap"}
SYMMETRY Symmetry
PROPERTIES RecordRemovedOnlyAfterResume
CHECK_DEADLOCK FALSE
