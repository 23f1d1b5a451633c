SPECIFICATION TaskSpec
CONSTANTS
  MaxTurns = 2
  MaxSteps = 1
  Items = {}
  Reasons <- MCReasons
  MaxBatch = 1
  InitialLedgers <- MCInitialLedgers
  MaxTerms = 0
  LateToolErrors = TRUE
  MaxAttempts <- MCMaxAttempts
INVARIANTS
  BelowTurnLimit
  MetadataWithinSpent
PROPERTY
  ImplementsSolver
