SPECIFICATION Spec
CONSTANTS
  o1 = o1
  o2 = o2
  f1 = f1
  Obj = {o1, o2}
  NoRef = NoRef
  Wild = Wild
  Swept = Swept
  SlotCount = 2
  Field = {f1}
  MinThreshold = 1
  SlotsAt <- TwoThenOne
  MaxShadow = 2
SYMMETRY Addresses
INVARIANTS ShadowIsMirror MirroredSurvive
CHECK_DEADLOCK FALSE
