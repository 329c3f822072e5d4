SPECIFICATION Spec
CONSTANTS
  p1 = p1
  p2 = p2
  q1 = q1
  s1 = s1
  r1 = r1
  r2 = r2
  Dumps = Dumps
  NoRun = NoRun
  NoRepo = NoRepo
  Project <- TwoProjects
  Registered <- JustOne
  WithDatabase <- OneProject
  Repo <- OneRepo
  Run <- TwoRuns
  Source <- OneSource
  NameOf <- DistinctNames
  SegmentOf <- OwnSegment
INVARIANTS
  TypeOK
  OneRunPerProject
  StagingHoldsOwnFiles
  CleanRunHoldsEverySource
  NoRowBehindFailure
  AuditedBackupExists
  RunningRowIsAlive
PROPERTIES
  KeepsPromise
SYMMETRY RunSymmetry
CHECK_DEADLOCK FALSE
