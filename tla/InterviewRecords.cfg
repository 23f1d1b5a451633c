SPECIFICATION Spec
CONSTANTS
  RecordIds = {"r1", "r2"}
  IssueIds = {"q1"}
  UtteranceIds = {"u1"}
  EntityIds = {"e1"}
  Labels = {"l1", "l2"}
  Texts = {"t1"}
  Sayable <- MCRecordsSayable
  CitationLists <- MCRecordsCitations
  MaxEvidence = 2
  MaxClaims = 2
INVARIANTS
  RecordGuardsSuffice
PROPERTIES
  HistoryKept
