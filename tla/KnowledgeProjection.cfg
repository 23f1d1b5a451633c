CONSTANTS
  Source = Source
  Sink = Sink
  NoCondition = NoCondition
  NodeProperties <- Properties
  ListSlots <- Lists
  Inputs <- Calls
SPECIFICATION Spec
INVARIANTS
  ContractionExact
  KnowsTheRest
  WholeViewAccepted
