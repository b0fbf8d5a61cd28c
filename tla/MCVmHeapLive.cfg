\* Progress of the collector; no symmetry, as liveness is checked.  A cycle
\* begins with one object and two more can be born before its sweep.
SPECIFICATION FairSpec
CONSTANTS
  Obj = {o1, o2, o3}
  NoRef = NoRef
  Slot = {s1, s2}
  Global = {}
  Cell = {c1}
  InitThreshold = 1
  Budget = 1
  MaxDepth = 1
PROPERTIES
  CycleEnds
  GarbageFreed
