SPECIFICATION Spec
CONSTANTS
  None = None
  Limit = 2
  Values <- MCValues
  Evidence <- MCEvidence
  Attitudes <- MCAttitudes
  Playbooks <- MCPlaybooks
  Eligible <- MCEligible
  Known <- MCKnown
  MaxTurns = 3
INVARIANTS AskedOnce ModelIsCurrent AdviceFits
CHECK_DEADLOCK FALSE
