SPECIFICATION FairSpec
CONSTANTS
  p1 = p1 p2 = p2 p3 = p3 g1 = g1 i1 = i1 o1 = o1 o2 = o2 o3 = o3 None = None
  Turns = {p1, p2, p3}
  Gateway = {}
  Ids = {i1}
  Id <- RetryIds
  Objects = {o1, o2}
  MaxQueue = 1
  Ops = {"cancel", "cancelRequest", "close", "raise"}
  Budget = 1
PROPERTY EveryPromptAnswered
CHECK_DEADLOCK FALSE
