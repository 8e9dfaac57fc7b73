SPECIFICATION Spec
CONSTANTS
    Utterances <- MCUtterances
    Analyses <- MCAnalyses
    NoConcept = "no_concept"
    Concepts = {"no_concept", "crm", "erp"}
    Languages <- MCLanguages
    Unheard <- MCUnheard
    Campaign <- MCCampaign
    MaxCoverage = 2
    MaxTurns = 3
    MaxFailures = 1
    MaxRestarts = 1
INVARIANTS
  OwnWords
  RestartForgetsNothing
  NoOneTwice
  OneExplanationPerTurn
  InsightsInOrder
CHECK_DEADLOCK FALSE
