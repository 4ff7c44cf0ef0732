SPECIFICATION Spec
CONSTANTS
  Pid = {p1, p2, p3}
  MaxBirths = 1
  MaxSuspend = 1
  MaxRecords = 2
  MaxTracked = 1
  MaxAttempts = 1
  MaxGuards = 1
  Faults = {"persist", "overlap"}
INVARIANTS TypeOK NeverTorn
PROPERTIES CommittedStaysOnDisk ImplementsJournalSet
