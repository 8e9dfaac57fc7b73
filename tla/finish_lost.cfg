SPECIFICATION Spec
CONSTANTS
  Processes = {p1, p2}
  Lanes = {a}
  Requests = {r1, r2}
  None = None
  MaxSends = 1
  MaxFinishes = 1
  MaxCrashes = 0
  MaxFaults = 0
  Faults = {}
  Workers <- MCWorkers
  Home <- MCHome
INVARIANTS FinishIsSeen
CHECK_DEADLOCK FALSE
