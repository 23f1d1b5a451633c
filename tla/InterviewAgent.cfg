SPECIFICATION Spec
CONSTANTS
  MaxModelCalls = 2
  MaxToolCalls = 2
  GenerationFailures = {"output_truncated"}
  GivenIds <- MCGivenIds
  MaxNumber = 3
  MaxChanges = 1
  MaxSessions = 2
INVARIANTS
  Restorable
  ShownIsSaved
  ConversationAnswered
  StatusTrue
PROPERTIES
  EndsInFinish
  TurnEnds
CHECK_DEADLOCK FALSE
