SPECIFICATION RequestsSpec
CONSTANTS
  MaxWakes = 2
  MaxTasks = 1
  MaxOperations = 2
  MaxWakeFrames = 2
  MaxWakeFaults = 1
  MaxOrders = 0
  Outputs = {"a"}
  Period = 1
  FailAfter = 2
  MaxClock = 2
  MaxFires = 2
  MaxReminderEdits = 0
  MaxReminderFaults = 1
  SettledStatuses = {"completed", "failed", "cancelled"}
  StallCodes = {}
  ReminderTime = 1
  MaxPrompts = 2
  MaxReadings = 1
  MaxCloudFaults = 1
PROPERTIES
  RequestsAreAnswered
  ScriptFiresSettle
  CancelEnds
CHECK_DEADLOCK FALSE
