SPECIFICATION Spec
CONSTANTS
  RecordIds = {"r1"}
  IssueIds = {"q1"}
  UtteranceIds = {"u1", "u2"}
  EntityIds = {"e1"}
  Labels = {"l1"}
  Texts = {"t1"}
  Sayable <- MCHistorySayable
  CitationLists <- MCHistoryCitations
  MaxEvidence = 3
  MaxClaims = 2
INVARIANTS
  Reloadable
  EvidenceDistinct
  HistoryLinear
  ExpectedSuperseded
PROPERTIES
  EndedIsFinal
