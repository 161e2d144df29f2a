SPECIFICATION Spec
CONSTANTS
  None = None  Never = Never  notice = notice  other = other
  DocId = notice
  Cues <- MCCues
  Hints <- MCHints
  NegatedConditions <- MCNegated
  ExemptConditions <- MCExempt
  MaxDepth = 2
  MaxRules = 4
  Kind <- MCKind
  Scenarios <- MCScenarios
CHECK_DEADLOCK FALSE
INVARIANTS
  ReadyWasChecked
  BridgesKeepTrust
  ReadyIsCurrent
  EvidenceIsCurrent
  CitationsHold
  VerdictStands
