SPECIFICATION FairSpec
CONSTANTS
  MaxTurns = 2
  MaxSteps = 2
  Items = {i1}
  Reasons <- MCReasons
  MaxBatch = 2
  InitialLedgers <- MCInitialLedgers
  MaxTerms = 1
  LateToolErrors = FALSE
PROPERTIES
  TerminalIsFinal
  ReceiptsHold
  ImplementsTurnProtocol
  EveryInterviewEnds
