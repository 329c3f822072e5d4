SPECIFICATION Spec
CONSTANTS
  n1 = n1
  i1 = i1
  r1 = r1
  r2 = r2
  p1 = p1
  w1 = w1
  w2 = w2
  Name <- OneName
  Id <- OneId
  Request <- TwoRequests
  Path <- OnePath
  WorkDirOf <- StartedInFirst
  Version <- OneVersion
  List <- TwoLists
  ListOf <- StartedGiven
  Deployment <- OneVersion
  Order <- OneOrder
  NoId = NoId
  NoPath = NoPath
  NoFingerprint = NoFingerprint
  NoBlueprint = NoBlueprint
SYMMETRY RequestSymmetry
INVARIANTS
  DriftHasCause
