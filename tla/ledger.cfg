SPECIFICATION Spec
CONSTANTS
  c1 = c1  c2 = c2  x1 = x1  x2 = x2  x3 = x3  x4 = x4
  None = None
  Clients = {c1, c2}
  ChangeNames = {x1, x2, x3, x4}
  ActionIds = {"a"}
  Sources <- MCSources
  Hashes <- MCHashes
  Scopes <- MCScopes
  Subjects <- MCSubjects
  Facts <- MCFacts
  Applicability <- MCApplicability
  Scenarios <- MCScenarios
  DocumentLimit = 3
  EventLimit = 9
CHECK_DEADLOCK FALSE
INVARIANTS
  TypeOK
  Restorable
  CorrectionsEnd
  SubjectIsHeld
  CanRefresh
  NoCollision
PROPERTIES
  ReadyIsHeldFirst
  AppliedAsShown
  ImplementsRevisions
