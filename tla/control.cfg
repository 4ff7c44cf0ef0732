SPECIFICATION ControlFairSpec
CONSTANTS
  Controller = {c1, c2}
  MaxGuards = 2
  Environment = {"together", "flag", "start", "direct", "killed",
    "event", "install"}
INVARIANTS
  ControlInv
  OneGuardServes
  ReportedStopIsReal
PROPERTIES
  StopsNoLaterGuard
  ControllerEnds
  StopIsHonoured
  TurnedOffStaysOff
CHECK_DEADLOCK FALSE
