SPECIFICATION FairNamesSpec
CONSTANTS
  a = a
  b = b
  c = c
  x = x
  y = y
  z = z
  Files = {a, b, c, d}
  Names = {x, y, z}
  Unset = Unset
  Entry = a
  Graphs <- SmallGraphs
  Losses <- SmallLosses
  Texts <- AllTexts
INVARIANTS
  LoaderCuts
  AllLoaded
  ReadsAreImported
  GlobalsInitialised
  EarlierAreInitialised
PROPERTY
  LoadingEnds
CHECK_DEADLOCK FALSE
