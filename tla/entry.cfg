SPECIFICATION Spec
CONSTANTS
  Config <- MCConfig
  HalfRange = 4
  MaxElapsed = 2
  MaxWindows = 1
  EntryFaults = {"scan", "register", "suspend", "resume", "mode"}
INVARIANTS TypeOK GraceEnds ProbedInTime LoweredOnlyWhileManaged
PROPERTIES GracesAreHonoured EntryLives
CHECK_DEADLOCK FALSE
