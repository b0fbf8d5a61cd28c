CONSTANTS
  Names = {"x", "f", "S", "Error", "from", "requires"}
  Numbers = {"1", "2"}
  Strings = {"a text"}
  Sources <- MCSources
SPECIFICATION Spec
INVARIANTS
  EveryLoopTakesAToken
  ReadsBack
  NothingDropped
  RecoveryGoesOn
CHECK_DEADLOCK FALSE
