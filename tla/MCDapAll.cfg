SPECIFICATION FairDapSpec
CONSTANTS
  Programs <- Session
  Main = "main"
  Nowhere = Nowhere
  MaxRequests = 7
INVARIANTS
  NoRequestLost
  AnsweredInOrder
  ClientKnows
  HandlesAreFresh
PROPERTIES
  EveryRequestAnswered
  EveryPauseAnswered
  EofEndsIdleServer
  DebuggerInside
CHECK_DEADLOCK FALSE
