SPECIFICATION Spec
CONSTANTS
  c1 = c1
  c2 = c2
  c3 = c3
  NoCall = NoCall
  Call <- ThreeCalls
  Capacity = 1
SYMMETRY CallSymmetry
INVARIANT
  UnsoundIsDamage
CHECK_DEADLOCK FALSE
