SPECIFICATION FairSpec
CONSTANTS
  Pid = {p1, p2}
  MaxBirths = 1
  MaxSuspend = 2
  MaxRecords = 2
  MaxTracked = 2
  MaxAttempts = 2
  MaxGuards = 3
  Faults = {"resume", "suspend", "persist", "load", "query", "launch", "broker"}
INVARIANTS RecoveryInv FrozenOnce SuspendedIsJournaled
PROPERTIES BrokerNearsItsEnd FreezeNeedsBroker KeepsPromise BrokerEventuallyExits
CHECK_DEADLOCK FALSE
