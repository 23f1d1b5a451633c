CONSTANTS
  Nodes = {}
  Edges = {}
  Concepts = {"A", "B", "C", "D"}
  NodeProperties <- Properties
  ListSlots <- Lists
  Observations = {}
  Texts <- NoTexts
  Evidence = {}
  Source = Source
  Sink = Sink
  NoCondition = NoCondition
  Forbidden = 1000000
  Infinite = 100000000
  Inputs <- Comparisons
  ComponentLimit = 2
SPECIFICATION Spec
INVARIANTS
  AlignmentOptimal
  NodesUnambiguous
  CompleteIsFaithful
