SPECIFICATION ProgramSpec
CONSTANTS
  MaxWindows = 2
  ULONG_MAX <- MCUlongMax
  CommandLine <- MCCommandLine
INVARIANTS SuspendsIffUnprotected ParsesAsWritten AggressiveOnlyByRequest
CHECK_DEADLOCK FALSE
