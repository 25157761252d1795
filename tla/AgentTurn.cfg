SPECIFICATION Spec
CONSTANTS
  Calls <- TwoCalls
  Tools = {"fetch", "remove", "note", "enter"}
  Known = {"fetch", "remove", "note", "enter"}
  Safe = {"fetch"}
  ReadOnly = {"fetch", "enter"}
  ReadOnlyKind = {"fetch"}
  PlanExempt = {}
  PlanFile = {"note"}
  ModeTools = {"enter"}
  Verdict <- EnterIsFree
  Modes = {"plan", "bypass"}
  MaxConcurrency = 2
  Faults = {"disconnect", "pipelineError", "mode", "cancel", "crash", "storeError", "retry", "compact", "context", "block"}
  KeepRecent = 1
  MaxTurns = 2
  MaxTransient = 1
  MaxReactive = 1
  MaxOutput = 1
  MaxCalls = 2
  MaxPrompts = 2
  Budget = 2
INVARIANTS TypeOK RequestsAnswerUses RequestResultsFollowUses RepairPairs HistoryReloads BarrierHolds OnePromptAtATime EffectsAreConsented
CHECK_DEADLOCK FALSE
