SPECIFICATION Spec
CONSTANTS
  Processes = {p1, p2}
  Lanes = {a}
  Requests = {r1, r2}
  None = None
  MaxSends = 2
  MaxFinishes = 1
  MaxCrashes = 1
  MaxFaults = 1
  Faults = {"locked", "io", "processor"}
  Workers <- MCWorkers
  Home <- MCHome
SYMMETRY MCSymmetry
INVARIANTS TypeOK TurnLogExact AckedTurnsDurable Resumable
PROPERTIES ClosedIsFinal DurableSessionPromise
CHECK_DEADLOCK FALSE
