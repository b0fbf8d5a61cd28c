SPECIFICATION BackendSpec
CONSTANTS
  CatchName <- Names
  Code <- AllCode
  VmPrograms <- EscapingOnes
  JitPrograms = {}
  MaxAnswers = 5
INVARIANT
  FollowsSource
CHECK_DEADLOCK FALSE
