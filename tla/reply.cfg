SPECIFICATION ReplySpec
CONSTANTS
  None = None
  Policies <- MCPolicies
  Business <- MCBusiness
  Heard <- MCHeard
  Proposals <- MCProposals
  Recoveries <- MCRecoveries
  Signals <- MCSignals
  Moods <- MCMoods
  Candidates <- MCCandidates
  MaxTurns = 3
INVARIANTS EvidenceOnly NothingBeyondAuthority OfferIsBacked NoQuestionTwice
PROPERTIES StageNeverBack
CHECK_DEADLOCK FALSE
