SPECIFICATION CallSpec
CONSTANT MaxAttempts <- MCMaxAttempts
INVARIANTS
  EveryGenerationAccounted
  FailureReasonTrue
