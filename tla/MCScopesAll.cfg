SPECIFICATION Spec
CONSTANTS
  None = None
  LocalName = {x, i, e}
  ForName = {i}
  CatchName = {e}
  GlobalName = {x}
  MaxOpen = 3
  MaxSlots = 4
INVARIANTS
  NamesAgreeUnlessReused
PROPERTY
  BlockLeavesNoTrace
