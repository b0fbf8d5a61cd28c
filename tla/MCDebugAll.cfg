SPECIFICATION Spec
CONSTANTS
  Programs <- All
  Main = "main"
  Nowhere = Nowhere
INVARIANTS
  StepEndsWhereAsked
PROPERTIES
  BreakpointHoldsInChunk
  NextStopsAtNextLine
  StepOutStopsInCaller
CHECK_DEADLOCK FALSE
