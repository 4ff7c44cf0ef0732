SPECIFICATION FairSpec
CONSTANTS
  Pid = {p1, p2, p3}
  MaxBirths = 1
  MaxSuspend = 2
  MaxRecords = 2
  MaxTracked = 2
  MaxAttempts = 2
  MaxGuards = 2
  Faults = {"scan", "suspend", "persist", "query", "launch"}
INVARIANTS TypeOK FrozenIsWatched Recoverable MemoryIsOnDisk DrainThawsAll
PROPERTIES JournaledBeforeSuspend CrashIsRecovered KeepsPromiseInTheEnd
CHECK_DEADLOCK FALSE
