SPECIFICATION Spec
CONSTANTS
  None = None
  Rows <- MCRows
  Existing <- MCExisting
  Enrichment <- MCEnrichment
  Policy <- MCPolicy
  Services <- MCServices
  Config <- MCConfig
  Drivers = {d1, d2}
  Minutes <- MCMinutes
  Elapsed <- MCElapsed
  SessionIds = {s1, s2}
  Callers = {c1, c2}
  Findings <- MCFindings
  MaxTurns = 3
INVARIANTS OneCallPerLead PlanAssumesNothing OutcomeHonest TranscriptExact
PROPERTIES OptedOutForGood
CONSTRAINT Bounded
SYMMETRY Interchangeable
CHECK_DEADLOCK FALSE
