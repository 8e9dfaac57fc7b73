SPECIFICATION Spec
CONSTANTS
  None = None
  Rows <- MCRows
  Existing <- MCExisting
  Enrichment <- MCEnrichment
  Policy <- MCPolicy
  Services <- MCServices
  Config <- MCConfig
  Drivers = {d1, d2}
  Minutes <- MCMinutes
  Elapsed <- MCElapsed
  SessionIds = {s1, s2, s3}
  Callers = {c1}
  Findings <- MCFindings
  MaxTurns = 1
INVARIANTS OptOutReported
SYMMETRY Interchangeable
CHECK_DEADLOCK FALSE
