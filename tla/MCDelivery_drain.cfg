SPECIFICATION DrainSpec
CONSTANTS
  MaxItems = 3
  MaxRuns = 3
  MaxGeneration = 1
  MaxPulledMessages = 1
  MaxDrainRows = 2
  MaxAgentChainTurns = 1
  SameFailurePauseThreshold = 2
  FailurePauseThreshold = 3
  Sources = {"human", "agent", "trigger", "reminder",
             "greeting", "heartbeat"}
  Configs <- OneConfig
  Failures <- OneFailure
  EffortResets = {"grok"}
INVARIANTS QueuedWorkCanLead ARunStartsInOneLane
