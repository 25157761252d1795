SPECIFICATION FairSpec
CONSTANTS
  w1 = w1 None = None
  NumPrompts = 2
  Workers = {w1}
  MaxAttempts = 1
  Faults = {"crash", "slow", "status", "restart_runtime", "restart_agent", "stop_runtime", "signal", "cancel"}
  Budget = 2
INVARIANTS TypeOK RegisteredWithThisHub CleanPromptStreams NoStrayChild ExitLeavesNoChild
PROPERTIES RuntimeRecovers RequestsEnd
CHECK_DEADLOCK FALSE
