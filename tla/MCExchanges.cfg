SPECIFICATION ExchangesSpec
CONSTANTS
  MaxRuns = 2
  MaxPending = 2
  MaxResets = 2
  MaxReports = 2
  MaxFaults = 1
  SettledStatuses = {"completed", "failed", "cancelled"}
  StallCodes = {"interrupt"}
  ReminderTime = 1
  MaxCloudRuns = 2
  MaxTime = 3
  MaxFailures = 1
  MaxPrompts = 3
  MaxReadings = 1
  MaxCloudFaults = 1
INVARIANTS
  ExchangesTypeOK
  OneRunAtATime
  LoneResetBetweenRuns
  WorkShowsNewestRun
  OutcomesAreTold
  SettledWorkHasStopped
PROPERTIES
  SettledRunIsNotRelaunched
  PromptsInOrder
CHECK_DEADLOCK FALSE
