SPECIFICATION Spec
CONSTANTS
  k1 = k1 k2 = k2 t1 = t1 t2 = t2 None = None
  Kernels = {k1, k2}
  Veterans = {k1}
  Tasks = {t1}
  Recurring = {t1}
  Durable = {t1}
  Raising = {}
  Home <- HomeK1
  MaxCount <- FireTwice
  Period = 1
  BackoffSchedule <- Backoff
  OneshotRetries = 0
  Strikes = 2
  FallbackDelay = 1
  AlertAfter = 0
  HeartbeatInterval = 1
  StaleThreshold = 1
  MaxSleep = 1
  MaxAge = 0
  MaxConcurrent = 1
  MaxJobs = 1
  UserOps = {}
  Faults = {}
  CountCap = 3
  FailCap = 1
INVARIANT FiresAtMostN
CHECK_DEADLOCK FALSE
