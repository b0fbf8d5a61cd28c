SPECIFICATION Spec
CONSTANTS
  IntBits = 5
  LongBits = 11
  ByteBits = 3
  Digits = 3
  PrintedDigits = 2
  SingleMax = 8
  DoubleMax = 128
  Declared <- MCDeclared
  Layout <- MCLayout
  Members <- MCMembers
  Library <- MCLibrary
  Globals <- MCGlobals
  Programs <- MCPrograms
INVARIANT PrintsTheMeaning
INVARIANT BackendsAgree
