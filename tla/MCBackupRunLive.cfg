SPECIFICATION FairSpec
CONSTANTS
  p1 = p1
  p2 = p2
  q1 = q1
  s1 = s1
  r1 = r1
  r2 = r2
  Dumps = Dumps
  NoRun = NoRun
  NoRepo = NoRepo
  Project <- OneProject
  Registered <- OneProject
  WithDatabase <- Nothing
  Repo <- OneRepo
  Run <- TwoRuns
  Source <- OneSource
  NameOf <- DistinctNames
  SegmentOf <- OwnSegment
PROPERTIES
  EveryRunEnds
  ReservationsEnd
CHECK_DEADLOCK FALSE
