SPECIFICATION Spec
CONSTANTS
  Files <- ThreeFiles
  TextsOf <- Texts
  Missing = Missing
  NoFile = NoFile
INVARIANTS
  DiagnosticsStayHome
  FreshDocumentsAreRight
  CirclesAreShown
CHECK_DEADLOCK FALSE
