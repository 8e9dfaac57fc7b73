SPECIFICATION Spec
CONSTANTS
  p1 = p1 p2 = p2
  h1 = h1 h2 = h2 h3 = h3
  b1 = b1 b2 = b2 b3 = b3
  s1 = s1 s2 = s2
  l1 = l1 l2 = l2
  Processes = {p1, p2}
  Workers = {h1, h2, h3}
  Requests = {b1, b2, b3}
  Sessions = {s1, s2}
  Leads = {l1, l2}
  SessionOf <- MCSessionOf
  LeadOf <- MCLeadOf
  Home <- MCHome
  Unplannable = {}
  None = None
  MaxSends = 1
  MaxPolicies = 1
  MaxCrashes = 1
  MaxFaults = 1
  Faults = {"locked", "factory", "pcie"}
SYMMETRY MCSymmetry
INVARIANTS LeadHasItsSession
PROPERTIES DncIsFinal
CHECK_DEADLOCK FALSE
