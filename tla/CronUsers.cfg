SPECIFICATION Spec
CONSTANTS
  k1 = k1 k2 = k2 t1 = t1 t2 = t2 None = None
  Kernels = {k1}
  Veterans = {}
  Tasks = {t1}
  Recurring = {t1}
  Durable = {t1}
  Raising = {t1}
  Home <- HomeK1
  MaxCount <- FireOnce
  Period = 1
  BackoffSchedule <- Backoff
  OneshotRetries = 0
  Strikes = 1
  FallbackDelay = 1
  AlertAfter = 1
  HeartbeatInterval = 1
  StaleThreshold = 1
  MaxSleep = 1
  MaxAge = 1
  MaxConcurrent = 1
  MaxJobs = 1
  UserOps = {"create", "pause", "resume", "delete", "trigger"}
  Faults = {"stop", "storeError"}
  CountCap = 1
  FailCap = 1
INVARIANTS BeatingClaimIsNotStale ExclusiveExecution ClaimHasWorker
PROPERTY FinishedIsFinal
CHECK_DEADLOCK FALSE
