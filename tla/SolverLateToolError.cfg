SPECIFICATION Spec
CONSTANTS
  MaxTurns = 2
  MaxSteps = 2
  Items = {i1}
  Reasons <- MCReasons
  MaxBatch = 2
  InitialLedgers <- MCInitialLedgers
  MaxTerms = 1
  LateToolErrors = TRUE
PROPERTIES
  TerminalIsFinal
