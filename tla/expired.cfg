SPECIFICATION Spec
CONSTANTS
  w1 = w1  w2 = w2  k1 = k1  k2 = k2  list = list  p1 = p1  p2 = p2  f1 = f1  f2 = f2
  Workflows = {w1}
  Keys = {k1, k2}
  Destinations = {list}
  DestOf <- OneList
  Selection <- TwoActions
  FactSets = {f1}
  ReadyUntil <- Ready
  ReviewOpen = {}
  PlanLife = 3
  ConfirmationLife = 2
  WorkflowLimit = 2
  RecordLimit = 2
  Callers = {p1, p2}
  CasAttempts = 2
  Scenarios <- Expiry
  Edits = {}
CHECK_DEADLOCK FALSE
SYMMETRY Symmetric
INVARIANTS
  ExpiredWorkRenewable
