SPECIFICATION Spec
CONSTANTS
  p1 = p1  p2 = p2  p3 = p3
  Callers = {p1, p2, p3}
  CallLimit = 4
  TroubleLimit = 2
CHECK_DEADLOCK FALSE
SYMMETRY Symmetric
INVARIANTS
  TypeOK
  WritersAreAlone
  LockReleased
PROPERTIES
  NeverTorn
  ImplementsStore
