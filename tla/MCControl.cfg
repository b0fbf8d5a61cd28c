SPECIFICATION BackendSpec
CONSTANTS
  CatchName <- Names
  Code <- AllCode
  VmPrograms <- ContainedOnes
  JitPrograms <- CaughtOnes
  MaxAnswers = 5
INVARIANTS
  VmTryStackIsLexical
  FollowsSource
PROPERTY
  ErrorsFindTheirCatch
CHECK_DEADLOCK FALSE
