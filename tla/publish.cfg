SPECIFICATION Spec
CONSTANTS
  c1 = c1  c2 = c2  c3 = c3  c4 = c4  c5 = c5  rc0 = rc0  v1 = v1
  j1 = j1  j2 = j2
  None = None  Working = Working
  Jobs = {j1, j2}
  Commits = {c1, c2, c3, c4, c5}
  Roster <- MCRoster
  Alphabet <- MCAlphabet
  DependsOn <- MCDependsOn
  VersionAt <- MCVersionAt
  PnpmAt <- MCPnpmAt
  PinnedPnpm = "11.23.0"
  Prereleases = {rc0}
  Bootstrap = rc0
  Retries = 2
  Kind <- MCKind
  Scenarios <- MCScenarios
CHECK_DEADLOCK FALSE
INVARIANTS
  StagedIsCanonical
  VerdictIsTrue
