SPECIFICATION Spec
CONSTANTS
  i1 = i1
  i2 = i2
  fresh = fresh
  shared = shared
  a = a
  r1 = r1
  r2 = r2
  r3 = r3
  r4 = r4
  NoPassword = NoPassword
  Repository <- TwoRepositories
  Location <- TwoLocations
  Password <- OnePassword
  Request <- FourRequests
  Foreign <- SharedOne
  Mount <- SharedOne
INVARIANTS
  TypeOK
  RowHasPassword
  DataOutlivesConfiguration
  ForeignFilesGoWithRepository
  AuditedErasureIsReal
SYMMETRY RequestSymmetry
CHECK_DEADLOCK FALSE
