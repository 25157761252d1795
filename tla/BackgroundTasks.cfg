SPECIFICATION Spec
CONSTANTS
  NumTasks = 2
  n1 = n1
  Names = {n1}
  Root = Root
  None = None
  Faults = {"stop", "resume", "block", "cancel", "raise", "spawnFails", "close"}
  Budget = 3
INVARIANTS TypeOK NoticeIsOnce OwnNoticeKept ForgottenIsStopped NamesResolve
PROPERTY TerminalSticks
CHECK_DEADLOCK FALSE
