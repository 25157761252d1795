SPECIFICATION Spec
CONSTANTS
  p1 = p1 p2 = p2 p3 = p3 g1 = g1 i1 = i1 o1 = o1 o2 = o2 o3 = o3 None = None
  Turns = {p1, p2, g1}
  Gateway = {g1}
  Ids = {i1}
  Id <- RetryIds
  Objects = {o1, o2}
  MaxQueue = 1
  Ops = {"cancel", "cancelRequest", "close", "disconnect", "storeError"}
  Budget = 2
INVARIANTS TypeOK QueueHasDriver InFlightIsRunning RetryGetsTheAnswer
SYMMETRY ObjectSymmetry
CHECK_DEADLOCK FALSE
