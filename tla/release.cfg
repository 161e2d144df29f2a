SPECIFICATION Spec
CONSTANTS
  r1 = r1  r2 = r2  c1 = c1  c2 = c2  c3 = c3  c4 = c4
  None = None  Unread = Unread
  Runs = {r1, r2}
  Configs = {c1, c2, c3, c4}
  Detached = {c3}
  Outdated = {c4}
  Roster <- MCRoster
  Scenarios <- MCScenarios
CHECK_DEADLOCK FALSE
INVARIANTS
  TypeOK
  PassIsAudited
  SecondApplyIsQuiet
PROPERTIES
  ReadyIsEarned
  KeepsWhatItFound
  Converges
