SPECIFICATION Spec
CONSTANTS
  MaxTurns = 2
  MaxSteps = 1
  Items = {i1}
  Reasons = {"blank", "agent_declared"}
  InitialLedgers <- MCInitialLedgers
  CallerIds <- MCCallerIds
  MaxTerms = 1
INVARIANTS
  GuardsSuffice
  EveryAnswerObserved
PROPERTIES
  ImplementsTurnProtocol
