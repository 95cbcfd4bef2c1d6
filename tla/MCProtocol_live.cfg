SPECIFICATION LiveSpec
CONSTANTS
  MaxRuns = 2
  MaxPending = 2
  MaxResets = 1
  MaxReports = 2
  MaxFaults = 1
PROPERTIES
  EveryRunEnds
  WaitersGoOn
CHECK_DEADLOCK FALSE
