SPECIFICATION RowsSpec
CONSTANTS
  MaxItems = 2
  MaxRuns = 2
  MaxGeneration = 2
  MaxPulledMessages = 1
  MaxDrainRows = 2
  MaxAgentChainTurns = 2
  SameFailurePauseThreshold = 2
  FailurePauseThreshold = 3
  Sources = {"human", "trigger", "subagent"}
  Configs <- OneConfig
  Failures <- OneFailure
  EffortResets = {"grok"}
INVARIANTS TypeOK ClaimsBelongToTheRun DeletedTriggersLeaveTheQueue
PROPERTY ImplementsMailbox
