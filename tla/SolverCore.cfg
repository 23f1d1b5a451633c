SPECIFICATION Spec
CONSTANTS
  MaxTurns = 3
  MaxSteps = 2
  Items = {i1}
  Reasons <- MCReasons
  MaxBatch = 2
  InitialLedgers <- MCInitialLedgers
  MaxTerms = 1
  LateToolErrors = TRUE
INVARIANTS
  RuntimeValid
  AwaitsPersisted
  GenerationBudget
  FailedQuestionStaysOpen
PROPERTIES
  NoTruncatedEffect
  StrandedNeverCompletes
