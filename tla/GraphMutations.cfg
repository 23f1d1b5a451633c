SPECIFICATION Spec
CONSTANTS
  n1 = n1
  n2 = n2
  c1 = c1
  c2 = c2
  o1 = o1
  said = said
  unsaid = unsaid
  Nodes = {n1, n2}
  Edges = {"e1"}
  Concepts = {c1, c2}
  NodeProperties <- MCNodeProperties
  ListSlots = {"reads"}
  Observations = {o1}
  Texts <- MCTexts
  Evidence <- MCEvidence
  MaxSize = 6
SYMMETRY Symmetry
INVARIANTS
  OwnChecksSuffice
  ProvenanceHolds
PROPERTIES
  AttachKeepsClaims
CHECK_DEADLOCK FALSE
