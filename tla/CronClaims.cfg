SPECIFICATION Spec
CONSTANTS
  k1 = k1 k2 = k2 t1 = t1 t2 = t2 None = None
  Kernels = {k1, k2}
  Veterans = {k1}
  Tasks = {t1}
  Recurring = {}
  Durable = {t1}
  Raising = {}
  Home <- HomeK1
  MaxCount <- NoLimit
  Period = 1
  BackoffSchedule <- Backoff
  OneshotRetries = 1
  Strikes = 2
  FallbackDelay = 1
  AlertAfter = 0
  HeartbeatInterval = 1
  StaleThreshold = 1
  MaxSleep = 1
  MaxAge = 0
  MaxConcurrent = 1
  MaxJobs = 1
  UserOps = {}
  Faults = {"crash", "loopError"}
  CountCap = 2
  FailCap = 2
INVARIANTS TypeOK BeatingClaimIsNotStale ExclusiveExecution OneShotFiredOnce ClaimHasWorker
PROPERTIES ImplementsLease
CHECK_DEADLOCK FALSE
