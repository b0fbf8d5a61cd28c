\* Calls, returns, throws and globals: chains of at most three objects.
SPECIFICATION Spec
CONSTANTS
  Obj = {o1, o2, o3}
  NoRef = NoRef
  Slot = {s1, s2}
  Global = {g1}
  Cell = {c1}
  InitThreshold = 2
  Budget = 1
  MaxDepth = 2
SYMMETRY Symmetry
INVARIANTS
  NoDangling
  CycleKeepsThreshold
  IInv
PROPERTY
  ImplementsMemory
