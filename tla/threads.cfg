SPECIFICATION FairSpec
CONSTANTS
  Processes = {p1, p2}
  Requests = {r1, r2}
  None = None
  MaxSends = 1
  MaxFinishes = 1
  MaxCrashes = 0
  MaxFaults = 1
  Faults = {"locked"}
  Lanes = {a, b}
  Workers <- MCUneven
  Home <- MCUnevenHome
INVARIANTS OptOutDurable
PROPERTIES HandlersReturn
CHECK_DEADLOCK FALSE
