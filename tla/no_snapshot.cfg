\* The guard processes cannot be counted.
SPECIFICATION Spec
CONSTANTS
  Controller = {c1}
  MaxGuards = 1
  Environment = {"snapshot", "direct"}
INVARIANTS ReportedStopIsReal
CHECK_DEADLOCK FALSE
