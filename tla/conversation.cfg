SPECIFICATION Spec
CONSTANTS
  Contacts = {c1, c2}
  Channels = {mail, phone}
  Services = {s1, s2}
  None = None
  MaxTurns = 4
  MaxCalls = 9
  MaxOffers = 1
  MaxAttempts = 2
  HasCallback = FALSE
  HasContactId = TRUE
SYMMETRY MCSymmetry
INVARIANTS
  DncHonoured
  MisstepGoesOn
  QualifiedIsConfirmed
  CommittedBudget
PROPERTIES
  QuestionReturns
CHECK_DEADLOCK FALSE
